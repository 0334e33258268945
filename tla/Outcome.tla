------------------------------ MODULE Outcome ------------------------------
(***************************************************************************)
(* What a caller is told, and what really happened.                        *)
(*                                                                         *)
(* A user calls Get, Post or ObGet of the access server (apprpc.go) and is *)
(* told a code; the call may have reached a handler of the device, once or *)
(* never, before or after that (devicesession.go).  The device calls Get   *)
(* or Post (restlike.go) and is told an error; a service may have been     *)
(* asked (session.go receiveCoReq).  The handlers, the queue outgoing and  *)
(* the observe goroutines of the device outlive its connections; header    *)
(* and observation ids of the server start again with each session.        *)
(*                                                                         *)
(* Goroutines are left to SessionServe, CoRequest, Observation and         *)
(* DeviceSession, so that here                                             *)
(*   - a session of the server begins with the registration of the device  *)
(*     and ends with its connection, for any reason and at any time;       *)
(*   - a message is written to the socket and read from it in one step,    *)
(*     and outgoing is unbounded;                                          *)
(*   - a uri stands for its CRC32, data for nothing.                       *)
(***************************************************************************)
EXTENDS Naturals, Sequences, FiniteSets, StatusCodes

CONSTANTS
  User,            \* calls of users
  Request,         \* calls of the device
  URI,
  MaxCall,         \* bound: calls of both kinds together
  MaxSession,      \* bound: connections of the device
  MaxFrame,        \* bound: notifications of one observe goroutine
  ObservationsMax  \* OBGET_OBSERVATIONS_MAX: 256 in the code

ASSUME BoundAssumption == MaxSession \in Nat /\ MaxFrame \in Nat /\ MaxCall \in Nat
ASSUME ObservationsMaxAssumption == ObservationsMax \in Nat \ {0}

Method == {"Get", "Post", "ObGet"}
Nobody == "nobody"
ASSUME NobodyAssumption == Nobody \notin User

VARIABLES
  handlers,  \* <<method, uri>> of the three handler maps of the device
  session,   \* number of the newest session, 0 before the device serves
  up,        \* whether it is in SessionMap and connected
  rolling,   \* its rollingHeaderID and rollingObservaID
  call,      \* call[u]: "idle", "waiting" in Send, "streaming" or "ended"
  req,       \* req[u]: the request that was sent
  told,      \* told[u]: the code of the response that ended the call
  heard,     \* history: heard[u]: the call whose answer u was given
  ran,       \* history: ran[u]: "no", "running", "ok" or "failed" on the device
  notify,    \* notify[u]: NotifyChan: "empty", "frame" or "last"
  frames,    \* history: frames[u]: the calls whose notifications reached u
  observe,   \* observe[u]: the goroutine of the device: "none", "data", "answer", "ended"
  nframes,   \* notifications it has made
  work,      \* calls whose handler is at work in a tcpIncomming of the device
  outgoing,  \* outgoingChan of the device
  toDevice,  \* messages from the server on the newest connection
  want,      \* want[r]: "idle", "waiting" or "ended"
  said,      \* said[r]: the error the device's caller is given
  asking,    \* <<r, k>>: tcpIncomming of session k asks a service for r
  verdict    \* history: verdict[r]: the code of the service, "none" or "failed"

link == <<session, up, rolling>>
users == <<call, req, told, heard>>
streams == <<notify, frames>>
observers == <<observe, nframes>>
services == <<want, said, asking, verdict>>
vars == <<handlers, link, users, ran, streams, observers, work, outgoing, toDevice, services>>

NoReq == [method |-> "none", uri |-> "none", session |-> 0, id |-> 0, ob |-> 0]

Init ==
  /\ handlers = {}
  /\ session = 0 /\ up = FALSE /\ rolling = [id |-> 0, ob |-> 0]
  /\ call = [u \in User |-> "idle"]
  /\ req = [u \in User |-> NoReq]
  /\ told = [u \in User |-> "none"]
  /\ heard = [u \in User |-> Nobody]
  /\ ran = [u \in User |-> "no"]
  /\ notify = [u \in User |-> "empty"]
  /\ frames = [u \in User |-> {}]
  /\ observe = [u \in User |-> "none"]
  /\ nframes = [u \in User |-> 0]
  /\ work = {} /\ outgoing = <<>> /\ toDevice = <<>>
  /\ want = [r \in Request |-> "idle"]
  /\ said = [r \in Request |-> "none"]
  /\ asking = {}
  /\ verdict = [r \in Request |-> "none"]

\* What the device writes.
Answer(u, status) == [type |-> "answer", of |-> u, status |-> status]
Notification(u, last) == [type |-> "frame", of |-> u, last |-> last]
CoReq(r) == [type |-> "req", of |-> r]
\* What the server writes.
Ask(u) == [type |-> "ask", of |-> u]
Resp(r, status) == [type |-> "resp", of |-> r, status |-> status]

Current(u) == up /\ req[u].session = session

CallsLeft ==
  Cardinality({u \in User : call[u] # "idle"}) + Cardinality({r \in Request : want[r] # "idle"})
    < MaxCall

Idle(u) == call[u] = "idle" /\ CallsLeft

\* The connection goes, and the session of the server with it.
Lost ==
  /\ up' = FALSE
  /\ toDevice' = <<>>
  /\ UNCHANGED <<session, rolling>>

-----------------------------------------------------------------------------
(* The life of the device.                                                  *)

\* A second registration of the same uri is refused with ErrAlreadyRegistered.
Registers(method, uri) ==
  /\ session = 0
  /\ <<method, uri>> \notin handlers
  /\ handlers' = handlers \cup {<<method, uri>>}
  /\ UNCHANGED <<link, users, ran, streams, observers, work, outgoing, toDevice, services>>

RegisterGetHandler(uri) == Registers("Get", uri)
RegisterPostHandler(uri) == Registers("Post", uri)
RegisterObGetHandler(uri) == Registers("ObGet", uri)

\* Serve or reconnect, and verification: newSession counts from 0.
Connects ==
  /\ ~up /\ session < MaxSession
  /\ session' = session + 1
  /\ up' = TRUE
  /\ rolling' = [id |-> 0, ob |-> 0]
  /\ UNCHANGED <<handlers, users, ran, streams, observers, work, outgoing, toDevice, services>>

\* The connection ends; a message that tcpOutgoing has taken may go with it.
Disconnects ==
  /\ up
  /\ Lost
  /\ \/ UNCHANGED outgoing
     \/ outgoing # <<>> /\ outgoing' = Tail(outgoing)
  /\ UNCHANGED <<handlers, users, ran, streams, observers, work, services>>

-----------------------------------------------------------------------------
(* Users.                                                                   *)

\* The RPC returns with a code.
Told(u, code) ==
  /\ call' = [call EXCEPT ![u] = "ended"]
  /\ told' = [told EXCEPT ![u] = code]

UserLeavesRest == UNCHANGED <<handlers, link, ran, streams, observers, work, outgoing, services>>

\* The device has no session.
UserFindsNobody(u, method, uri) ==
  /\ Idle(u) /\ ~up
  /\ Told(u, "DeviceIDOffline")
  /\ UNCHANGED <<req, heard, toDevice>> /\ UserLeavesRest

\* Mutant: the return is missing, and the request is sent all the same.
UserTooLarge_Sends(u, method, uri) ==
  /\ Idle(u) /\ up
  /\ Told(u, "BadRequest")
  /\ req' = [req EXCEPT ![u] = [NoReq EXCEPT !.method = method, !.uri = uri]]
  /\ toDevice' = Append(toDevice, Ask(u))
  /\ UNCHANGED heard /\ UserLeavesRest

\* The data exceeds the capacity the device has declared.
UserTooLarge(u, method, uri) ==
  /\ Idle(u) /\ up
  /\ Told(u, "BadRequest")
  /\ UNCHANGED <<req, heard, toDevice>> /\ UserLeavesRest

Observing == {u \in User : req[u].method = "ObGet" /\ Current(u) /\ call[u] # "ended"}

\* CreateObserva refuses: its error is the result of the RPC, which has no code.
UserTooMany(u, uri) ==
  /\ Idle(u) /\ up
  /\ Cardinality(Observing) >= ObservationsMax
  /\ Told(u, "RPCError")
  /\ UNCHANGED <<req, heard, toDevice>> /\ UserLeavesRest

\* Mutant: the id is read before it is counted up, and the next one reads it too.
UserSends_SameID(u, method, uri) ==
  /\ Idle(u) /\ up
  /\ rolling' = rolling
  /\ req' = [req EXCEPT ![u] = [method |-> method, uri |-> uri, session |-> session,
                                id |-> rolling.id, ob |-> rolling.ob]]
  /\ call' = [call EXCEPT ![u] = "waiting"]
  /\ toDevice' = Append(toDevice, Ask(u))
  /\ UNCHANGED <<handlers, session, up, told, heard, ran, streams, observers, work, outgoing,
                 services>>

\* Send, or CreateObserva and ObGetEstablish: the request is queued.
UserSends(u, method, uri) ==
  LET ob == IF method = "ObGet" THEN 1 ELSE 0 IN
  /\ Idle(u) /\ up
  /\ method = "ObGet" => Cardinality(Observing) < ObservationsMax
  /\ rolling' = [id |-> rolling.id + 1, ob |-> rolling.ob + ob]
  /\ req' = [req EXCEPT ![u] = [method |-> method, uri |-> uri, session |-> session,
                                id |-> rolling.id + 1, ob |-> ob * (rolling.ob + 1)]]
  /\ call' = [call EXCEPT ![u] = "waiting"]
  /\ toDevice' = Append(toDevice, Ask(u))
  /\ UNCHANGED <<handlers, session, up, told, heard, ran, streams, observers, work, outgoing,
                 services>>

\* ErrSendTimeout, 10 s for Get and Post, 20 s for ObGet.
UserTimesOut(u) ==
  /\ call[u] = "waiting"
  /\ Told(u, IF req[u].method = "ObGet" THEN "DeviceIDTimeout" ELSE "RequestTimeout")
  /\ UNCHANGED <<req, heard, toDevice>> /\ UserLeavesRest

\* obGetNotifyServe, case <-ob.SessionDoneChan
StreamSessionDone(u) ==
  /\ call[u] = "streaming" /\ ~Current(u)
  /\ Told(u, "DeviceIDOffline")
  /\ UNCHANGED <<req, heard, toDevice>> /\ UserLeavesRest

\* case <-stream.Context().Done()
StreamLeaves(u) ==
  /\ call[u] = "streaming"
  /\ call' = [call EXCEPT ![u] = "ended"]
  /\ UNCHANGED <<req, told, heard, toDevice>> /\ UserLeavesRest

\* case notifyReq := <-ob.NotifyChan: the code Terminate ends the stream.
StreamReads(u) ==
  /\ call[u] = "streaming" /\ notify[u] # "empty"
  /\ notify' = [notify EXCEPT ![u] = "empty"]
  /\ IF notify[u] = "last" THEN Told(u, transToRPCCode("Terminate"))
                           ELSE UNCHANGED <<call, told>>
  /\ UNCHANGED <<handlers, link, req, heard, ran, frames, observers, work, outgoing, toDevice,
                 services>>

-----------------------------------------------------------------------------
(* The device serves: serverSendRequest and its three handlers.             *)

\* tcpIncomming of the newest connection is not busy with a handler.
DeviceReads == toDevice # <<>> /\ \A u \in work : ~Current(u)

DeviceHears(u) == DeviceReads /\ Head(toDevice) = Ask(u) /\ toDevice' = Tail(toDevice)

\* No handler is registered for the uri.
DeviceRefuses(u) ==
  /\ DeviceHears(u)
  /\ <<req[u].method, req[u].uri>> \notin handlers
  /\ outgoing' = Append(outgoing, Answer(u, "NotFount"))
  /\ UNCHANGED <<handlers, link, users, ran, streams, observers, work, services>>

DeviceHandles(u) ==
  /\ DeviceHears(u)
  /\ <<req[u].method, req[u].uri>> \in handlers
  /\ work' = work \cup {u}
  /\ ran' = [ran EXCEPT ![u] = "running"]
  /\ UNCHANGED <<handlers, link, users, streams, observers, outgoing, services>>

\* The handler succeeds; that of ObGet returns a channel, which observe serves.
HandlerAnswers(u) ==
  /\ u \in work
  /\ work' = work \ {u}
  /\ ran' = [ran EXCEPT ![u] = "ok"]
  /\ IF req[u].method = "ObGet"
     THEN /\ outgoing' = Append(outgoing, Answer(u, "Continue"))
          /\ observe' = [observe EXCEPT ![u] = "data"]
     ELSE outgoing' = Append(outgoing, Answer(u, "OK")) /\ UNCHANGED observe
  /\ UNCHANGED <<handlers, link, users, streams, nframes, toDevice, services>>

\* Mutant: the error is noted, and the answer sent with the code for success.
HandlerFails_Answers(u) ==
  /\ u \in work
  /\ work' = work \ {u}
  /\ ran' = [ran EXCEPT ![u] = "failed"]
  /\ outgoing' = Append(outgoing, Answer(u, "OK"))
  /\ UNCHANGED <<handlers, link, users, streams, observers, toDevice, services>>

\* The handler fails: its code InternalServerError is set and never sent, the
\* error ends the connection, unless that has gone before.
HandlerFails(u) ==
  /\ u \in work
  /\ work' = work \ {u}
  /\ ran' = [ran EXCEPT ![u] = "failed"]
  /\ IF Current(u) THEN Lost ELSE UNCHANGED <<link, toDevice>>
  /\ UNCHANGED <<handlers, users, streams, observers, outgoing, services>>

\* observe waits for data without a timeout, for as long as the handler has some.
ObserveNotifies(u, last) ==
  /\ observe[u] = "data" /\ nframes[u] < MaxFrame
  /\ nframes' = [nframes EXCEPT ![u] = @ + 1]
  /\ observe' = [observe EXCEPT ![u] = "answer"]
  /\ outgoing' = Append(outgoing, Notification(u, last))
  /\ UNCHANGED <<handlers, link, users, ran, streams, work, toDevice, services>>

\* receiveObNotifyResp has waited for 20 s.
ObserveGivesUp(u) ==
  /\ observe[u] = "answer"
  /\ observe' = [observe EXCEPT ![u] = "ended"]
  /\ UNCHANGED <<handlers, link, users, ran, streams, nframes, work, outgoing, toDevice,
                 services>>

-----------------------------------------------------------------------------
(* The server reads: serverSendRespone and receiveObNotifyReq.              *)

\* tcpIncomming of the session does not wait for a service.
ServerReads == up /\ outgoing # <<>> /\ \A r \in Request : <<r, session>> \notin asking

ServerHears == ServerReads /\ outgoing' = Tail(outgoing)

\* Who has a key under the id of u in sendIDStore of the session.
Waiting(u) == {v \in User : call[v] = "waiting" /\ Current(v) /\ req[v].id = req[u].id}

\* The statuses receiveCoResp or receiveObEstabResp makes of the answer to u
\* when v waits for it: "error" is one of its errors.  The answer of Get or Post
\* is too short to pass for one of ObGet, unless data follow that look like the
\* observation's id.
Received(v, u, status) ==
  IF req[v].method # "ObGet"
  THEN {IF req[u].method = "ObGet" THEN "error" ELSE status}
  ELSE IF req[u].method = "ObGet" THEN {IF req[u].ob = req[v].ob THEN status ELSE "error"}
       ELSE {"error"} \cup (IF status = "OK" THEN {"MethodNotAllowed"} ELSE {})

\* What the RPC makes of the status.
CodeOf(status) == IF status = "error" THEN "InternalServerError" ELSE transToRPCCode(status)

AnswerArrives(v) ==
  /\ ServerHears /\ Head(outgoing).type = "answer"
  /\ v \in Waiting(Head(outgoing).of)
  /\ heard' = [heard EXCEPT ![v] = Head(outgoing).of]
  /\ \E status \in Received(v, Head(outgoing).of, Head(outgoing).status) :
       IF req[v].method = "ObGet" /\ status = "Continue"
       THEN call' = [call EXCEPT ![v] = "streaming"] /\ UNCHANGED told
       ELSE Told(v, CodeOf(status))
  /\ UNCHANGED <<handlers, link, req, ran, streams, observers, work, toDevice, services>>

\* ErrHeaderIDNotExist
AnswerUnknown ==
  /\ ServerHears /\ Head(outgoing).type = "answer"
  /\ Waiting(Head(outgoing).of) = {}
  /\ Lost
  /\ UNCHANGED <<handlers, users, ran, streams, observers, work, services>>

\* The observations of the session under the observation id of u.
Observers(u) == {v \in Observing : req[v].ob = req[u].ob}

\* receiveObNotifyReq waits while NotifyChan is full, and answers Continue.
FrameArrives(v) ==
  LET m == Head(outgoing) IN
  /\ ServerHears /\ m.type = "frame"
  /\ v \in Observers(m.of) /\ notify[v] = "empty"
  /\ notify' = [notify EXCEPT ![v] = IF m.last THEN "last" ELSE "frame"]
  /\ frames' = [frames EXCEPT ![v] = @ \cup {m.of}]
  /\ observe' = [observe EXCEPT ![m.of] = IF m.last \/ @ = "ended" THEN "ended" ELSE "data"]
  /\ UNCHANGED <<handlers, link, users, ran, nframes, work, toDevice, services>>

\* Nobody observes: Terminate.
FrameUnknown ==
  /\ ServerHears /\ Head(outgoing).type = "frame"
  /\ Observers(Head(outgoing).of) = {}
  /\ observe' = [observe EXCEPT ![Head(outgoing).of] = "ended"]
  /\ UNCHANGED <<handlers, link, users, ran, streams, nframes, work, toDevice, services>>

-----------------------------------------------------------------------------
(* Calls of the device to services.                                         *)

Says(r, error) ==
  /\ want' = [want EXCEPT ![r] = "ended"]
  /\ said' = [said EXCEPT ![r] = error]

DeviceCalls(r) ==
  /\ session > 0 /\ want[r] = "idle" /\ CallsLeft
  /\ want' = [want EXCEPT ![r] = "waiting"]
  /\ outgoing' = Append(outgoing, CoReq(r))
  /\ UNCHANGED <<handlers, link, users, ran, streams, observers, work, toDevice, said, asking,
                 verdict>>

\* Get and Post time out, Get2 and Post2 are cancelled.
DeviceGivesUp(r, error) ==
  /\ want[r] = "waiting"
  /\ Says(r, error)
  /\ UNCHANGED <<handlers, link, users, ran, streams, observers, work, outgoing, toDevice,
                 asking, verdict>>

\* Nobody is asked: services are disabled, there is no connection to them, or
\* the service has no such method.
ServerRefuses(r, status) ==
  /\ ServerHears /\ Head(outgoing) = CoReq(r)
  /\ toDevice' = Append(toDevice, Resp(r, status))
  /\ UNCHANGED <<handlers, link, users, ran, streams, observers, work, services>>

ServerAsks(r) ==
  /\ ServerHears /\ Head(outgoing) = CoReq(r)
  /\ asking' = asking \cup {<<r, session>>}
  /\ UNCHANGED <<handlers, link, users, ran, streams, observers, work, toDevice, want, said,
                 verdict>>

\* The answer goes to the connection the request came by, if that is left.
ServerAnswers(a, outcome, status) ==
  /\ a \in asking
  /\ asking' = asking \ {a}
  /\ verdict' = [verdict EXCEPT ![a[1]] = outcome]
  /\ toDevice' = IF up /\ a[2] = session THEN Append(toDevice, Resp(a[1], status)) ELSE toDevice
  /\ UNCHANGED <<handlers, link, users, ran, streams, observers, work, outgoing, want, said>>

ServiceAnswers(a, code) == ServerAnswers(a, code, transToDeviceCode(code))

\* The call to the service fails, or takes 10 s; the service may have done its
\* work all the same.
ServiceFails(a) == ServerAnswers(a, "failed", "InternalServerError")

DeviceReadsResp == DeviceReads /\ Head(toDevice).type = "resp"

RespArrives(r) ==
  /\ DeviceReadsResp /\ Head(toDevice).of = r
  /\ want[r] = "waiting"
  /\ Says(r, transToSDKError(Head(toDevice).status))
  /\ toDevice' = Tail(toDevice)
  /\ UNCHANGED <<handlers, link, users, ran, streams, observers, work, outgoing, asking, verdict>>

\* ErrHeaderIDNotExist of deviceSendRespone.
RespUnknown ==
  /\ DeviceReadsResp /\ want[Head(toDevice).of] = "ended"
  /\ Lost
  /\ UNCHANGED <<handlers, users, ran, streams, observers, work, outgoing, services>>

-----------------------------------------------------------------------------
Next ==
  \/ \E uri \in URI :
       \/ RegisterGetHandler(uri) \/ RegisterPostHandler(uri) \/ RegisterObGetHandler(uri)
  \/ Connects \/ Disconnects
  \/ \E u \in User, uri \in URI :
       \/ \E method \in Method :
            UserFindsNobody(u, method, uri) \/ UserTooLarge(u, method, uri) \/ UserSends(u, method, uri)
       \/ UserTooMany(u, uri)
  \/ \E u \in User :
       \/ UserTimesOut(u) \/ StreamSessionDone(u) \/ StreamLeaves(u) \/ StreamReads(u)
       \/ DeviceRefuses(u) \/ DeviceHandles(u) \/ HandlerAnswers(u) \/ HandlerFails(u)
       \/ \E last \in BOOLEAN : ObserveNotifies(u, last)
       \/ ObserveGivesUp(u)
       \/ AnswerArrives(u) \/ FrameArrives(u)
  \/ AnswerUnknown \/ FrameUnknown
  \/ \E r \in Request :
       \/ DeviceCalls(r)
       \/ \E error \in {"ErrRequestTimeout", "ErrInternel"} : DeviceGivesUp(r, error)
       \/ \E status \in {"MethodNotAllowed", "NotFount"} : ServerRefuses(r, status)
       \/ ServerAsks(r) \/ RespArrives(r)
  \/ \E a \in asking : ServiceFails(a) \/ \E code \in ServiceCode : ServiceAnswers(a, code)
  \/ RespUnknown

Spec == Init /\ [][Next]_vars

-----------------------------------------------------------------------------
(* Properties.                                                              *)

\* What each code of the access server lets a user conclude: OK, that a handler
\* has succeeded; NOT_FOUNT, OFFLINE at once and BAD_REQUEST, that none has run.
\* INTERNAL_SERVER_ERROR never means that the handler failed, which looks like a
\* timeout, and it and METHOD_NOT_ALLOWED come from the answer to another call.
\* (apprpc.go Get, Post, ObGet; the handlers of devicesession.go.)
UserTold ==
  \A u \in User : LET v == heard[u] IN
    /\ told[u] = "OK" => v \in User /\ ran[v] = "ok" /\ req[v].method # "ObGet"
    /\ told[u] = "NotFount" => v \in User /\ ran[v] = "no"
    /\ told[u] = "BadRequest" => ran[u] = "no"
    /\ told[u] = "DeviceIDOffline" => IF v = Nobody THEN ran[u] = "no" ELSE ran[v] = "ok"
    /\ told[u] \in {"InternalServerError", "MethodNotAllowed"} => v \in User \ {u}
    /\ told[u] # "Unknown"

\* The answer or the notification that a call is given comes from itself or from
\* a call of an earlier connection, whose ids the newer session counts anew
\* (newSession, serverSendRespone and receiveObNotifyReq of session.go).
CrossedIsStale ==
  \A u, v \in User : u # v /\ (heard[u] = v \/ v \in frames[u]) => req[v].session < req[u].session

\* An error of Get or Post of the device tells what the service has said: nil,
\* that it said OK; what refuses the request, that the service said so or was
\* not asked; ErrInternel, the timeout or the cancellation only, nothing
\* (restlike.go transToSDKError over session.go receiveCoReq and transToDeviceCode).
DeviceTold ==
  \A r \in Request : LET code == verdict[r] IN
    /\ said[r] = "nil" => code = "OK"
    /\ said[r] = "ErrResourceNotFount" => code \in {"none", "NotFount"}
    /\ said[r] = "ErrMethodNotAllowed" => code \in {"none", "MethodNotAllowed"}
    /\ said[r] = "ErrBadRequest" => code = "BadRequest"
    /\ said[r] = "ErrTooManyRequests" => code = "TooManyRequests"
    /\ said[r] = "ErrInternalServerError" =>
         code \in {"failed", "InternalServerError", "Continue", "Terminate", "TooManyObservations",
                   "DeviceIDOffline", "DeviceIDTimeout"}

\* A caller who is told more than a timeout or a cancellation may rely on it:
\* its handler does not start later, and the service is not asked later.  A user
\* given the answer to another call is the exception.
Settled ==
  [][/\ \A u \in User :
          call[u] = "ended" /\ told[u] \notin {"RequestTimeout", "DeviceIDTimeout"}
            /\ heard[u] \in {u, Nobody} => (ran'[u] = "running" => ran[u] = "running")
     /\ \A r \in Request :
          said[r] \notin {"none", "ErrRequestTimeout", "ErrInternel"} => verdict'[r] = verdict[r]
    ]_vars

=============================================================================

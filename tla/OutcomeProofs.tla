----------------------------- MODULE OutcomeProofs -----------------------------
(***************************************************************************)
(* Proofs about Outcome, for any users, calls of the device, uris, number  *)
(* of sessions and of notifications: what the codes of the access server   *)
(* and the errors of the device's SDK let their callers conclude.          *)
(*                                                                         *)
(* A request is at one place (FlowInv, ServiceInv), an answer under way    *)
(* fits what became of its request, and ids repeat only from one session   *)
(* to a later one (IdInv); so what a caller hears is of a call that is     *)
(* over, and of another one only if that was of an earlier session.        *)
(***************************************************************************)
EXTENDS Outcome, SequencesExt, TLAPS

\* What the device writes, and what the server writes.
DeviceMsg ==
  [type : {"answer"}, of : User, status : {"NotFount", "OK", "Continue"}]
    \cup [type : {"frame"}, of : User, last : BOOLEAN]
    \cup [type : {"req"}, of : Request]
ServerMsg ==
  [type : {"ask"}, of : User] \cup [type : {"resp"}, of : Request, status : StatusCode]

Req == [method : Method \cup {"none"}, uri : URI \cup {"none"}, session : Nat, id : Nat, ob : Nat]

TypeOK ==
  /\ handlers \subseteq Method \X URI
  /\ session \in Nat /\ up \in BOOLEAN /\ rolling \in [id : Nat, ob : Nat]
  /\ call \in [User -> {"idle", "waiting", "streaming", "ended"}]
  /\ req \in [User -> Req]
  /\ told \in [User -> AccessCode \cup {"none", "RPCError"}]
  /\ heard \in [User -> User \cup {Nobody}]
  /\ ran \in [User -> {"no", "running", "ok", "failed"}]
  /\ notify \in [User -> {"empty", "frame", "last"}]
  /\ frames \in [User -> SUBSET User]
  /\ observe \in [User -> {"none", "data", "answer", "ended"}]
  /\ nframes \in [User -> Nat]
  /\ work \subseteq User
  /\ outgoing \in Seq(DeviceMsg)
  /\ toDevice \in Seq(ServerMsg)
  /\ want \in [Request -> {"idle", "waiting", "ended"}]
  /\ said \in [Request -> SDKError \cup {"none"}]
  /\ asking \subseteq Request \X Nat
  /\ verdict \in [Request -> ServiceCode \cup {"none", "failed"}]

-----------------------------------------------------------------------------
(* The two queues, seen as the messages that are in them.                   *)

OfType(q, type) == {m \in ToSet(q) : m.type = type}
AskedIn(q) == {u \in User : Ask(u) \in ToSet(q)}
CoReqsIn(q) == {r \in Request : CoReq(r) \in ToSet(q)}

\* m is nowhere in q twice.
Once(q, m) == \A i, j \in DOMAIN q : q[i] = m /\ q[j] = m => i = j

AsksOnce(q) == \A u \in User : Once(q, Ask(u))
CoReqsOnce(q) == \A r \in Request : Once(q, CoReq(r))

LEMMA AppendFacts ==
  ASSUME NEW S, NEW q \in Seq(S), NEW x \in S
  PROVE  /\ Append(q, x) \in Seq(S)
         /\ ToSet(Append(q, x)) = ToSet(q) \cup {x}
         /\ \A m : Once(q, m) /\ (x = m => m \notin ToSet(q)) => Once(Append(q, x), m)
<1>1. /\ Len(q) \in Nat /\ DOMAIN q = 1 .. Len(q) /\ DOMAIN Append(q, x) = 1 .. Len(q) + 1
      /\ Append(q, x) \in Seq(S)
  OBVIOUS
<1>2. /\ \A i \in 1 .. Len(q) : Append(q, x)[i] = q[i]
      /\ Append(q, x)[Len(q) + 1] = x
  BY <1>1
<1>3. 1 .. Len(q) + 1 = (1 .. Len(q)) \cup {Len(q) + 1}
  BY <1>1
<1>4. ToSet(Append(q, x)) = ToSet(q) \cup {x}
  BY <1>1, <1>2, <1>3 DEF ToSet
<1>5. \A m : Once(q, m) /\ (x = m => m \notin ToSet(q)) => Once(Append(q, x), m)
  BY <1>1, <1>2, <1>3 DEF Once, ToSet
<1> QED  BY <1>1, <1>4, <1>5

LEMMA TailFacts ==
  ASSUME NEW S, NEW q \in Seq(S), q # <<>>
  PROVE  /\ Tail(q) \in Seq(S) /\ Head(q) \in S
         /\ ToSet(q) = {Head(q)} \cup ToSet(Tail(q))
         /\ \A m : Once(q, m) => Once(Tail(q), m) /\ (Head(q) = m => m \notin ToSet(Tail(q)))
<1>1. /\ Len(q) \in Nat /\ Len(q) > 0 /\ DOMAIN q = 1 .. Len(q)
      /\ Tail(q) \in Seq(S) /\ Head(q) \in S /\ Head(q) = q[1]
      /\ DOMAIN Tail(q) = 1 .. Len(q) - 1
  OBVIOUS
<1>2. \A i \in 1 .. Len(q) - 1 : Tail(q)[i] = q[i + 1] /\ i + 1 \in 1 .. Len(q) /\ i + 1 # 1
  BY <1>1
<1>3. \A i \in 1 .. Len(q) : i = 1 \/ (i - 1 \in 1 .. Len(q) - 1 /\ (i - 1) + 1 = i)
  BY <1>1
<1>4. ToSet(q) = {Head(q)} \cup ToSet(Tail(q))
  <2>1. ToSet(q) \subseteq {Head(q)} \cup ToSet(Tail(q))
    <3> SUFFICES ASSUME NEW i \in 1 .. Len(q) PROVE q[i] \in {Head(q)} \cup ToSet(Tail(q))
      BY <1>1 DEF ToSet
    <3>1. CASE i # 1
      <4>1. i - 1 \in DOMAIN Tail(q) /\ Tail(q)[i - 1] = q[i]
        BY <1>1, <1>2, <1>3, <3>1
      <4> QED  BY <4>1 DEF ToSet
    <3> QED  BY <1>1, <3>1
  <2>2. Head(q) \in ToSet(q)
    BY <1>1 DEF ToSet
  <2>3. ToSet(Tail(q)) \subseteq ToSet(q)
    BY <1>1, <1>2 DEF ToSet
  <2> QED  BY <2>1, <2>2, <2>3
<1>5. \A m : Once(q, m) => Once(Tail(q), m)
  BY <1>1, <1>2 DEF Once
<1>6. \A m : Once(q, m) /\ Head(q) = m => m \notin ToSet(Tail(q))
  BY <1>1, <1>2 DEF Once, ToSet
<1> QED  BY <1>1, <1>4, <1>5, <1>6

LEMMA EmptyFacts == ToSet(<<>>) = {} /\ \A m : Once(<<>>, m)
  BY DEF ToSet, Once

\* The messages of the model, and what tells them apart.
LEMMA Messages ==
  /\ \A u \in User, status \in {"NotFount", "OK", "Continue"} :
       Answer(u, status) \in DeviceMsg /\ Answer(u, status).type = "answer"
         /\ Answer(u, status).of = u /\ Answer(u, status).status = status
  /\ \A u \in User, last \in BOOLEAN :
       Notification(u, last) \in DeviceMsg /\ Notification(u, last).type = "frame"
         /\ Notification(u, last).of = u /\ Notification(u, last).last = last
  /\ \A r \in Request :
       CoReq(r) \in DeviceMsg /\ CoReq(r).type = "req" /\ CoReq(r).of = r
  /\ \A u \in User : Ask(u) \in ServerMsg /\ Ask(u).type = "ask" /\ Ask(u).of = u
  /\ \A r \in Request, status \in StatusCode :
       Resp(r, status) \in ServerMsg /\ Resp(r, status).type = "resp"
         /\ Resp(r, status).of = r /\ Resp(r, status).status = status
BY DEF Answer, Notification, CoReq, Ask, Resp, DeviceMsg, ServerMsg

LEMMA MessageTypes ==
  /\ \A m \in DeviceMsg :
       \/ m.type = "answer" /\ m.of \in User /\ m.status \in {"NotFount", "OK", "Continue"}
       \/ m.type = "frame" /\ m.of \in User /\ m.last \in BOOLEAN
       \/ m.type = "req" /\ m.of \in Request
  /\ \A m \in ServerMsg :
       \/ m.type = "ask" /\ m.of \in User
       \/ m.type = "resp" /\ m.of \in Request /\ m.status \in StatusCode
BY DEF DeviceMsg, ServerMsg

\* What a message that is queued adds.
LEMMA QueueAppend ==
  /\ \A q \in Seq(ServerMsg), u \in User : LET p == Append(q, Ask(u)) IN
       /\ p \in Seq(ServerMsg)
       /\ AskedIn(p) = AskedIn(q) \cup {u} /\ OfType(p, "resp") = OfType(q, "resp")
       /\ AsksOnce(q) /\ u \notin AskedIn(q) => AsksOnce(p)
  /\ \A q \in Seq(ServerMsg), r \in Request, status \in StatusCode :
       LET p == Append(q, Resp(r, status)) IN
       /\ p \in Seq(ServerMsg)
       /\ AskedIn(p) = AskedIn(q)
       /\ OfType(p, "resp") = OfType(q, "resp") \cup {Resp(r, status)}
       /\ AsksOnce(q) => AsksOnce(p)
  /\ \A q \in Seq(DeviceMsg), u \in User, status \in {"NotFount", "OK", "Continue"} :
       LET p == Append(q, Answer(u, status)) IN
       /\ p \in Seq(DeviceMsg)
       /\ OfType(p, "answer") = OfType(q, "answer") \cup {Answer(u, status)}
       /\ OfType(p, "frame") = OfType(q, "frame") /\ CoReqsIn(p) = CoReqsIn(q)
       /\ CoReqsOnce(q) => CoReqsOnce(p)
  /\ \A q \in Seq(DeviceMsg), u \in User, last \in BOOLEAN :
       LET p == Append(q, Notification(u, last)) IN
       /\ p \in Seq(DeviceMsg)
       /\ OfType(p, "frame") = OfType(q, "frame") \cup {Notification(u, last)}
       /\ OfType(p, "answer") = OfType(q, "answer") /\ CoReqsIn(p) = CoReqsIn(q)
       /\ CoReqsOnce(q) => CoReqsOnce(p)
  /\ \A q \in Seq(DeviceMsg), r \in Request : LET p == Append(q, CoReq(r)) IN
       /\ p \in Seq(DeviceMsg)
       /\ OfType(p, "frame") = OfType(q, "frame") /\ OfType(p, "answer") = OfType(q, "answer")
       /\ CoReqsIn(p) = CoReqsIn(q) \cup {r}
       /\ CoReqsOnce(q) /\ r \notin CoReqsIn(q) => CoReqsOnce(p)
<1>1. ASSUME NEW q \in Seq(ServerMsg), NEW u \in User
      PROVE  LET p == Append(q, Ask(u)) IN
             /\ p \in Seq(ServerMsg)
             /\ AskedIn(p) = AskedIn(q) \cup {u} /\ OfType(p, "resp") = OfType(q, "resp")
             /\ AsksOnce(q) /\ u \notin AskedIn(q) => AsksOnce(p)
  BY Messages, AppendFacts DEF AskedIn, OfType, AsksOnce
<1>2. ASSUME NEW q \in Seq(ServerMsg), NEW r \in Request, NEW status \in StatusCode
      PROVE  LET p == Append(q, Resp(r, status)) IN
             /\ p \in Seq(ServerMsg)
             /\ AskedIn(p) = AskedIn(q)
             /\ OfType(p, "resp") = OfType(q, "resp") \cup {Resp(r, status)}
             /\ AsksOnce(q) => AsksOnce(p)
  BY Messages, AppendFacts DEF AskedIn, OfType, AsksOnce
<1>3. ASSUME NEW q \in Seq(DeviceMsg), NEW u \in User,
             NEW status \in {"NotFount", "OK", "Continue"}
      PROVE  LET p == Append(q, Answer(u, status)) IN
             /\ p \in Seq(DeviceMsg)
             /\ OfType(p, "answer") = OfType(q, "answer") \cup {Answer(u, status)}
             /\ OfType(p, "frame") = OfType(q, "frame") /\ CoReqsIn(p) = CoReqsIn(q)
             /\ CoReqsOnce(q) => CoReqsOnce(p)
  BY Messages, AppendFacts DEF CoReqsIn, OfType, CoReqsOnce
<1>4. ASSUME NEW q \in Seq(DeviceMsg), NEW u \in User, NEW last \in BOOLEAN
      PROVE  LET p == Append(q, Notification(u, last)) IN
             /\ p \in Seq(DeviceMsg)
             /\ OfType(p, "frame") = OfType(q, "frame") \cup {Notification(u, last)}
             /\ OfType(p, "answer") = OfType(q, "answer") /\ CoReqsIn(p) = CoReqsIn(q)
             /\ CoReqsOnce(q) => CoReqsOnce(p)
  BY Messages, AppendFacts DEF CoReqsIn, OfType, CoReqsOnce
<1>5. ASSUME NEW q \in Seq(DeviceMsg), NEW r \in Request
      PROVE  LET p == Append(q, CoReq(r)) IN
             /\ p \in Seq(DeviceMsg)
             /\ OfType(p, "frame") = OfType(q, "frame") /\ OfType(p, "answer") = OfType(q, "answer")
             /\ CoReqsIn(p) = CoReqsIn(q) \cup {r}
             /\ CoReqsOnce(q) /\ r \notin CoReqsIn(q) => CoReqsOnce(p)
  BY Messages, AppendFacts DEF CoReqsIn, OfType, CoReqsOnce
<1> QED  BY <1>1, <1>2, <1>3, <1>4, <1>5

\* What a message that is read takes away.
LEMMA QueueTail ==
  /\ \A q \in Seq(ServerMsg) : q # <<>> =>
       /\ Tail(q) \in Seq(ServerMsg)
       /\ Head(q) \in ServerMsg /\ Head(q) \in ToSet(q)
       /\ AskedIn(Tail(q)) \subseteq AskedIn(q)
       /\ OfType(Tail(q), "resp") \subseteq OfType(q, "resp")
       /\ AsksOnce(q) => /\ AsksOnce(Tail(q))
                         /\ \A u \in User : Head(q) = Ask(u) => u \notin AskedIn(Tail(q))
  /\ \A q \in Seq(DeviceMsg) : q # <<>> =>
       /\ Tail(q) \in Seq(DeviceMsg)
       /\ Head(q) \in DeviceMsg /\ Head(q) \in ToSet(q)
       /\ OfType(Tail(q), "answer") \subseteq OfType(q, "answer")
       /\ OfType(Tail(q), "frame") \subseteq OfType(q, "frame")
       /\ CoReqsIn(Tail(q)) \subseteq CoReqsIn(q)
       /\ CoReqsOnce(q) => /\ CoReqsOnce(Tail(q))
                           /\ \A r \in Request : Head(q) = CoReq(r) => r \notin CoReqsIn(Tail(q))
<1>1. ASSUME NEW q \in Seq(ServerMsg), q # <<>>
      PROVE  /\ Tail(q) \in Seq(ServerMsg)
             /\ Head(q) \in ServerMsg /\ Head(q) \in ToSet(q)
             /\ AskedIn(Tail(q)) \subseteq AskedIn(q)
             /\ OfType(Tail(q), "resp") \subseteq OfType(q, "resp")
             /\ AsksOnce(q) => /\ AsksOnce(Tail(q))
                               /\ \A u \in User : Head(q) = Ask(u) => u \notin AskedIn(Tail(q))
  BY <1>1, TailFacts DEF AskedIn, OfType, AsksOnce
<1>2. ASSUME NEW q \in Seq(DeviceMsg), q # <<>>
      PROVE  /\ Tail(q) \in Seq(DeviceMsg)
             /\ Head(q) \in DeviceMsg /\ Head(q) \in ToSet(q)
             /\ OfType(Tail(q), "answer") \subseteq OfType(q, "answer")
             /\ OfType(Tail(q), "frame") \subseteq OfType(q, "frame")
             /\ CoReqsIn(Tail(q)) \subseteq CoReqsIn(q)
             /\ CoReqsOnce(q) => /\ CoReqsOnce(Tail(q))
                                 /\ \A r \in Request : Head(q) = CoReq(r) => r \notin CoReqsIn(Tail(q))
  BY <1>2, TailFacts DEF CoReqsIn, OfType, CoReqsOnce
<1> QED  BY <1>1, <1>2

LEMMA QueueEmpty ==
  /\ <<>> \in Seq(ServerMsg) /\ AskedIn(<<>>) = {} /\ AsksOnce(<<>>)
  /\ <<>> \in Seq(DeviceMsg) /\ CoReqsIn(<<>>) = {} /\ CoReqsOnce(<<>>)
  /\ \A type : OfType(<<>>, type) = {}
BY EmptyFacts DEF AskedIn, CoReqsIn, OfType, AsksOnce, CoReqsOnce

-----------------------------------------------------------------------------
(* The calls of users.                                                      *)

\* The request of u was sent, in some session.
Sent(u) == req[u].session > 0

\* Calls whose request is on its way to the device, and what the device has
\* written about calls.
Asked == AskedIn(toDevice)
Answers == OfType(outgoing, "answer")
Frames == OfType(outgoing, "frame")

\* The device has done with the request of u, and will not see it again.
Done(u) == Sent(u) /\ u \notin Asked /\ u \notin work

\* A call that has not been sent has left no trace; one that ended without an
\* answer, other than by a timeout, was never sent.
CallInv ==
  \A u \in User :
    /\ call[u] = "idle" => ~Sent(u)
    /\ call[u] \in {"waiting", "streaming"} => Sent(u)
    /\ call[u] \in {"idle", "waiting"} => heard[u] = Nobody
    /\ told[u] # "none" => call[u] = "ended"
    /\ told[u] = "BadRequest" => ~Sent(u)
    /\ call[u] = "ended" /\ heard[u] = Nobody
         /\ told[u] \notin {"RequestTimeout", "DeviceIDTimeout"} => ~Sent(u)
    /\ ~Sent(u) => /\ heard[u] = Nobody /\ ran[u] = "no" /\ observe[u] = "none"
                   /\ u \notin Asked /\ u \notin work
                   /\ \A v \in User : heard[v] # u /\ u \notin frames[v] /\ v \notin frames[u]

\* Ids count the requests of a session, observation ids its ObGets.
IdInv ==
  /\ up => session > 0
  /\ \A u \in User :
       /\ req[u].session <= session
       /\ req[u].method = "ObGet" => Sent(u)
       /\ Sent(u) /\ req[u].session = session
            => req[u].id <= rolling.id /\ req[u].ob <= rolling.ob
  /\ \A u, v \in User :
       /\ Sent(u) /\ req[u].session = req[v].session /\ req[u].id = req[v].id => u = v
       /\ req[u].method = "ObGet" /\ req[v].method = "ObGet"
            /\ req[u].session = req[v].session /\ req[u].ob = req[v].ob => u = v

\* What became of the call that the device answers with m.
Fits(m) ==
  LET u == m.of IN
  \/ m.status = "NotFount" /\ ran[u] = "no"
  \/ m.status = "OK" /\ ran[u] = "ok" /\ req[u].method # "ObGet"
  \/ m.status = "Continue" /\ ran[u] = "ok" /\ req[u].method = "ObGet"

\* A request is at one place: on its way, with its handler, or done with.
FlowInv ==
  /\ AsksOnce(toDevice)
  /\ \A u \in Asked : Sent(u) /\ ran[u] = "no" /\ u \notin work
  /\ \A u \in User : u \in work <=> ran[u] = "running"
  /\ \A m \in Answers : Done(m.of) /\ Fits(m)
  /\ \A u \in User : observe[u] # "none" => Done(u) /\ req[u].method = "ObGet"
  /\ \A m \in Frames : observe[m.of] # "none"

\* An answer is heard when the device has done with the request, and a stream
\* goes on after a success.
HeardInv ==
  \A u \in User :
    /\ heard[u] \in User => Done(heard[u])
    /\ call[u] = "streaming" => heard[u] \in User /\ ran[heard[u]] = "ok"

UserInv == CallInv /\ IdInv /\ FlowInv /\ HeardInv /\ UserTold /\ CrossedIsStale

-----------------------------------------------------------------------------
(* The calls of the device.                                                 *)

\* Calls that are on their way to the server, those a service is asked for, and
\* the responses on their way back.
CoReqs == CoReqsIn(outgoing)
Asking == {a[1] : a \in asking}
Resps == OfType(toDevice, "resp")

\* What the status of a response tells of the service's verdict.
Reports(status, code) ==
  \/ code = "none" /\ status \in {"MethodNotAllowed", "NotFount"}
  \/ code = "failed" /\ status = "InternalServerError"
  \/ code \in ServiceCode /\ status = transToDeviceCode(code)

\* A call of the device is at one place: on its way to the server, with the
\* service, or done with; and its verdict falls once.
ServiceInv ==
  /\ CoReqsOnce(outgoing)
  /\ \A a, b \in asking : a[1] = b[1] => a = b
  /\ CoReqs \cap Asking = {}
  /\ \A r \in CoReqs \cup Asking : want[r] # "idle" /\ verdict[r] = "none"
  /\ \A r \in Request : want[r] = "idle" => said[r] = "none" /\ verdict[r] = "none"
  /\ \A m \in Resps :
       /\ want[m.of] # "idle"
       /\ m.of \notin CoReqs \cup Asking
       /\ Reports(m.status, verdict[m.of])
  /\ \A r \in Request :
       said[r] \notin {"none", "ErrRequestTimeout", "ErrInternel"} => r \notin CoReqs \cup Asking
  /\ DeviceTold

-----------------------------------------------------------------------------
LEMMA CodeTypes ==
  /\ \A code \in ServiceCode : transToDeviceCode(code) \in StatusCode
  /\ \A status \in StatusCode : transToSDKError(status) \in SDKError
  /\ \A status \in StatusCode \cup {"error"} : CodeOf(status) \in AccessCode
BY DEF transToDeviceCode, transToSDKError, transToRPCCode, CodeOf, ServiceCode, StatusCode,
       SDKError, AccessCode

\* The steps of the system.
LEMMA NextCases ==
  ASSUME [Next]_vars
  PROVE  \/ \E uri \in URI, method \in Method : Registers(method, uri)
         \/ Connects
         \/ Disconnects \/ AnswerUnknown
         \/ \E u \in User, uri \in URI, method \in Method :
              UserFindsNobody(u, method, uri) \/ UserTooLarge(u, method, uri) \/ UserTooMany(u, uri)
         \/ \E u \in User, uri \in URI, method \in Method : UserSends(u, method, uri)
         \/ \E u \in User : UserTimesOut(u) \/ StreamSessionDone(u) \/ StreamLeaves(u)
         \/ \E u \in User : StreamReads(u)
         \/ \E u \in User : DeviceRefuses(u)
         \/ \E u \in User : DeviceHandles(u)
         \/ \E u \in User : HandlerAnswers(u)
         \/ \E u \in User : HandlerFails(u)
         \/ \E u \in User, last \in BOOLEAN : ObserveNotifies(u, last)
         \/ \E u \in User : ObserveGivesUp(u)
         \/ \E u \in User : AnswerArrives(u)
         \/ \E u \in User : FrameArrives(u)
         \/ FrameUnknown
         \/ \E r \in Request : DeviceCalls(r)
         \/ \E r \in Request, error \in {"ErrRequestTimeout", "ErrInternel"} :
              DeviceGivesUp(r, error)
         \/ \E r \in Request, status \in {"MethodNotAllowed", "NotFount"} :
              ServerRefuses(r, status)
         \/ \E r \in Request : ServerAsks(r)
         \/ \E a \in asking, outcome \in ServiceCode \cup {"failed"}, status \in StatusCode :
              /\ ServerAnswers(a, outcome, status)
              /\ \/ outcome \in ServiceCode /\ status = transToDeviceCode(outcome)
                 \/ outcome = "failed" /\ status = "InternalServerError"
         \/ \E r \in Request : RespArrives(r)
         \/ RespUnknown
         \/ UNCHANGED vars
<1>1. ASSUME NEW a \in asking, NEW code \in ServiceCode, ServiceAnswers(a, code)
      PROVE  \E outcome \in ServiceCode \cup {"failed"}, status \in StatusCode :
               /\ ServerAnswers(a, outcome, status)
               /\ outcome \in ServiceCode /\ status = transToDeviceCode(outcome)
  BY <1>1, CodeTypes DEF ServiceAnswers
<1>2. ASSUME NEW a \in asking, ServiceFails(a)
      PROVE  \E outcome \in ServiceCode \cup {"failed"}, status \in StatusCode :
               /\ ServerAnswers(a, outcome, status)
               /\ outcome = "failed" /\ status = "InternalServerError"
  <2>1. "InternalServerError" \in StatusCode
    BY DEF StatusCode
  <2> QED  BY <1>2, <2>1 DEF ServiceFails
<1>3. ASSUME NEW uri \in URI,
             RegisterGetHandler(uri) \/ RegisterPostHandler(uri) \/ RegisterObGetHandler(uri)
      PROVE  \E method \in Method : Registers(method, uri)
  BY <1>3 DEF RegisterGetHandler, RegisterPostHandler, RegisterObGetHandler, Method
<1>4. Method # {}
  BY DEF Method
<1> QED  BY <1>1, <1>2, <1>3, <1>4 DEF Next

-----------------------------------------------------------------------------
(* Types.                                                                   *)

\* The statuses that an answer leads to, and what they tell of it.
LEMMA ReceivedTypes ==
  ASSUME NEW v, NEW u, NEW status \in {"NotFount", "OK", "Continue"},
         NEW s \in Received(v, u, status)
  PROVE  /\ s \in {"NotFount", "OK", "Continue", "MethodNotAllowed", "error"}
         /\ s \in {"MethodNotAllowed", "error"} => req[u] # req[v]
         /\ s \in {"NotFount", "OK", "Continue"} =>
              /\ s = status
              /\ req[u].method = "ObGet" <=> req[v].method = "ObGet"
BY DEF Received

\* A call that returns with a code.
LEMMA ToldTypes ==
  ASSUME TypeOK, NEW u \in User, NEW code \in AccessCode \cup {"none", "RPCError"}, Told(u, code)
  PROVE  /\ call' \in [User -> {"idle", "waiting", "streaming", "ended"}]
         /\ told' \in [User -> AccessCode \cup {"none", "RPCError"}]
BY DEF TypeOK, Told

LEMMA SomeCodes ==
  {"DeviceIDOffline", "BadRequest", "DeviceIDTimeout", "RequestTimeout", "Terminate"}
    \subseteq AccessCode
BY DEF AccessCode

\* Every step keeps the variables in their types.
LEMMA TypeStep ==
  ASSUME TypeOK, [Next]_vars
  PROVE  TypeOK'
<1> USE DEF TypeOK, link, users, streams, observers, services
<1>1. ASSUME NEW uri \in URI, NEW method \in Method, Registers(method, uri) PROVE TypeOK'
  BY <1>1 DEF Registers
<1>2. CASE Connects
  BY <1>2 DEF Connects
<1>3. ASSUME Disconnects \/ AnswerUnknown PROVE TypeOK'
  <2>1. outgoing' \in Seq(DeviceMsg)
    <3>1. outgoing' = outgoing \/ (outgoing # <<>> /\ outgoing' = Tail(outgoing))
      BY <1>3 DEF Disconnects, AnswerUnknown, ServerHears, ServerReads
    <3>2. ASSUME outgoing # <<>> PROVE Tail(outgoing) \in Seq(DeviceMsg)
      BY <3>2, QueueTail
    <3> QED  BY <3>1, <3>2
  <2>2. UNCHANGED <<handlers, users, ran, streams, observers, work, services>>
    BY <1>3 DEF Disconnects, AnswerUnknown
  <2>3. Lost
    BY <1>3 DEF Disconnects, AnswerUnknown
  <2>4. up' \in BOOLEAN /\ toDevice' \in Seq(ServerMsg) /\ UNCHANGED <<session, rolling>>
    BY <2>3, QueueEmpty DEF Lost
  <2> QED  BY <2>1, <2>2, <2>4
<1>4. ASSUME NEW u \in User, NEW uri \in URI, NEW method \in Method,
             UserFindsNobody(u, method, uri) \/ UserTooLarge(u, method, uri) \/ UserTooMany(u, uri)
      PROVE  TypeOK'
  <2>1. PICK code \in AccessCode \cup {"none", "RPCError"} : Told(u, code)
    BY <1>4, SomeCodes DEF UserFindsNobody, UserTooLarge, UserTooMany
  <2>2. UNCHANGED <<req, heard, toDevice>> /\ UserLeavesRest
    BY <1>4 DEF UserFindsNobody, UserTooLarge, UserTooMany
  <2> QED  BY <2>1, <2>2, ToldTypes DEF UserLeavesRest
<1>5. ASSUME NEW u \in User, NEW uri \in URI, NEW method \in Method, UserSends(u, method, uri)
      PROVE  TypeOK'
  <2>1. toDevice' \in Seq(ServerMsg)
    BY <1>5, QueueAppend DEF UserSends
  <2>2. rolling.id + 1 \in Nat /\ rolling.ob + 1 \in Nat /\ rolling.ob + 0 \in Nat
    OBVIOUS
  <2>3. rolling' \in [id : Nat, ob : Nat]
    BY <1>5, <2>2 DEF UserSends
  <2>4. PICK r \in Req : req' = [req EXCEPT ![u] = r]
    <3>1. CASE method = "ObGet"
      <4>1. 1 * (rolling.ob + 1) = rolling.ob + 1
        BY <2>2
      <4> DEFINE r == [method |-> method, uri |-> uri, session |-> session,
                       id |-> rolling.id + 1, ob |-> 1 * (rolling.ob + 1)]
      <4>2. r \in Req
        BY <2>2, <4>1 DEF Req
      <4>3. req' = [req EXCEPT ![u] = r]
        BY <1>5, <3>1 DEF UserSends
      <4> QED  BY <4>2, <4>3
    <3>2. CASE method # "ObGet"
      <4>1. 0 * (rolling.ob + 1) = 0
        BY <2>2
      <4> DEFINE r == [method |-> method, uri |-> uri, session |-> session,
                       id |-> rolling.id + 1, ob |-> 0 * (rolling.ob + 1)]
      <4>2. r \in Req
        BY <2>2, <4>1 DEF Req
      <4>3. req' = [req EXCEPT ![u] = r]
        BY <1>5, <3>2 DEF UserSends
      <4> QED  BY <4>2, <4>3
    <3> QED  BY <3>1, <3>2
  <2>5. req' \in [User -> Req] /\ call' \in [User -> {"idle", "waiting", "streaming", "ended"}]
    BY <1>5, <2>4 DEF UserSends
  <2> QED  BY <1>5, <2>1, <2>3, <2>5 DEF UserSends
<1>6. ASSUME NEW u \in User, UserTimesOut(u) \/ StreamSessionDone(u) \/ StreamLeaves(u)
      PROVE  TypeOK'
  <2>1. \/ \E code \in AccessCode \cup {"none", "RPCError"} : Told(u, code)
        \/ call' = [call EXCEPT ![u] = "ended"] /\ UNCHANGED told
    BY <1>6, SomeCodes DEF UserTimesOut, StreamSessionDone, StreamLeaves
  <2>2. UNCHANGED <<req, heard, toDevice>> /\ UserLeavesRest
    BY <1>6 DEF UserTimesOut, StreamSessionDone, StreamLeaves
  <2>3. /\ call' \in [User -> {"idle", "waiting", "streaming", "ended"}]
        /\ told' \in [User -> AccessCode \cup {"none", "RPCError"}]
    <3>1. CASE \E code \in AccessCode \cup {"none", "RPCError"} : Told(u, code)
      BY <3>1, ToldTypes
    <3>2. CASE call' = [call EXCEPT ![u] = "ended"] /\ UNCHANGED told
      BY <3>2
    <3> QED  BY <2>1, <3>1, <3>2
  <2> QED  BY <2>2, <2>3 DEF UserLeavesRest
<1>7. ASSUME NEW u \in User, StreamReads(u) PROVE TypeOK'
  <2>1. transToRPCCode("Terminate") \in AccessCode
    BY SomeCodes DEF transToRPCCode
  <2>2. \/ Told(u, transToRPCCode("Terminate"))
        \/ UNCHANGED <<call, told>>
    BY <1>7 DEF StreamReads
  <2>3. /\ call' \in [User -> {"idle", "waiting", "streaming", "ended"}]
        /\ told' \in [User -> AccessCode \cup {"none", "RPCError"}]
    BY <2>1, <2>2, ToldTypes
  <2>4. /\ notify' = [notify EXCEPT ![u] = "empty"]
        /\ UNCHANGED <<handlers, link, req, heard, ran, frames, observers, work, outgoing,
                       toDevice, services>>
    BY <1>7 DEF StreamReads
  <2> QED  BY <2>3, <2>4
<1>8. ASSUME NEW u \in User, DeviceRefuses(u) PROVE TypeOK'
  BY <1>8, QueueTail, QueueAppend DEF DeviceRefuses, DeviceHears, DeviceReads
<1>9. ASSUME NEW u \in User, DeviceHandles(u) PROVE TypeOK'
  BY <1>9, QueueTail DEF DeviceHandles, DeviceHears, DeviceReads
<1>10. ASSUME NEW u \in User, HandlerAnswers(u) PROVE TypeOK'
  <2>1. \/ outgoing' = Append(outgoing, Answer(u, "Continue"))
        \/ outgoing' = Append(outgoing, Answer(u, "OK"))
    BY <1>10 DEF HandlerAnswers
  <2>2. observe' = [observe EXCEPT ![u] = "data"] \/ observe' = observe
    BY <1>10 DEF HandlerAnswers
  <2>3. outgoing' \in Seq(DeviceMsg)
    <3>1. /\ Append(outgoing, Answer(u, "Continue")) \in Seq(DeviceMsg)
          /\ Append(outgoing, Answer(u, "OK")) \in Seq(DeviceMsg)
      BY QueueAppend
    <3> QED  BY <2>1, <3>1, ZenonT(30)
  <2>4. observe' \in [User -> {"none", "data", "answer", "ended"}]
    BY <2>2
  <2> QED  BY <1>10, <2>3, <2>4 DEF HandlerAnswers
<1>11. ASSUME NEW u \in User, HandlerFails(u) PROVE TypeOK'
  <2>1. /\ work' = work \ {u} /\ ran' = [ran EXCEPT ![u] = "failed"]
        /\ UNCHANGED <<handlers, users, streams, observers, outgoing, services>>
    BY <1>11 DEF HandlerFails
  <2>2. /\ up' \in BOOLEAN /\ UNCHANGED <<session, rolling>>
        /\ toDevice' = <<>> \/ toDevice' = toDevice
    BY <1>11 DEF HandlerFails, Lost
  <2>3. toDevice' \in Seq(ServerMsg)
    <3>1. toDevice \in Seq(ServerMsg) /\ <<>> \in Seq(ServerMsg)
      BY QueueEmpty
    <3> QED  BY <2>2, <3>1
  <2>4. work' \in SUBSET User /\ ran' \in [User -> {"no", "running", "ok", "failed"}]
    BY <2>1
  <2> QED  BY <2>1, <2>2, <2>3, <2>4
<1>12. ASSUME NEW u \in User, NEW last \in BOOLEAN, ObserveNotifies(u, last) PROVE TypeOK'
  BY <1>12, QueueAppend DEF ObserveNotifies
<1>13. ASSUME NEW u \in User, ObserveGivesUp(u) PROVE TypeOK'
  BY <1>13 DEF ObserveGivesUp
<1>14. ASSUME NEW v \in User, AnswerArrives(v) PROVE TypeOK'
  <2> DEFINE m == Head(outgoing)
  <2>1. /\ outgoing # <<>> /\ outgoing' = Tail(outgoing) /\ m.type = "answer"
        /\ heard' = [heard EXCEPT ![v] = m.of]
        /\ UNCHANGED <<handlers, link, req, ran, streams, observers, work, toDevice, services>>
    BY <1>14 DEF AnswerArrives, ServerHears, ServerReads
  <2>2. outgoing' \in Seq(DeviceMsg) /\ m \in DeviceMsg
    BY <2>1, QueueTail
  <2>3. m.of \in User /\ m.status \in {"NotFount", "OK", "Continue"}
    BY <2>1, <2>2, MessageTypes
  <2>4. PICK s \in Received(v, m.of, m.status) :
          IF req[v].method = "ObGet" /\ s = "Continue"
          THEN call' = [call EXCEPT ![v] = "streaming"] /\ UNCHANGED told
          ELSE Told(v, CodeOf(s))
    BY <1>14 DEF AnswerArrives
  <2>5. s \in {"NotFount", "OK", "Continue", "MethodNotAllowed", "error"}
    BY <2>3, ReceivedTypes
  <2>6. CodeOf(s) \in AccessCode
    BY <2>5 DEF CodeOf, transToRPCCode, AccessCode
  <2> HIDE DEF m
  <2>7. /\ call' \in [User -> {"idle", "waiting", "streaming", "ended"}]
        /\ told' \in [User -> AccessCode \cup {"none", "RPCError"}]
    <3>1. CASE call' = [call EXCEPT ![v] = "streaming"] /\ UNCHANGED told
      BY <3>1
    <3>2. CASE Told(v, CodeOf(s))
      BY <2>6, <3>2, ToldTypes
    <3> QED  BY <2>4, <3>1, <3>2
  <2>8. heard' \in [User -> User \cup {Nobody}]
    BY <2>1, <2>3
  <2> QED  BY <2>1, <2>2, <2>7, <2>8
<1>15. ASSUME NEW v \in User, FrameArrives(v) PROVE TypeOK'
  <2> DEFINE m == Head(outgoing)
  <2>1. /\ outgoing # <<>> /\ outgoing' = Tail(outgoing) /\ m.type = "frame"
        /\ notify' = [notify EXCEPT ![v] = IF m.last THEN "last" ELSE "frame"]
        /\ frames' = [frames EXCEPT ![v] = @ \cup {m.of}]
        /\ observe' = [observe EXCEPT ![m.of] = IF m.last \/ @ = "ended" THEN "ended" ELSE "data"]
        /\ UNCHANGED <<handlers, link, users, ran, nframes, work, toDevice, services>>
    BY <1>15 DEF FrameArrives, ServerHears, ServerReads
  <2>2. outgoing' \in Seq(DeviceMsg) /\ m \in DeviceMsg
    BY <2>1, QueueTail
  <2>3. m.of \in User
    BY <2>1, <2>2, MessageTypes
  <2> HIDE DEF m
  <2> QED  BY <2>1, <2>2, <2>3
<1>16. CASE FrameUnknown
  BY <1>16, QueueTail DEF FrameUnknown, ServerHears, ServerReads
<1>17. ASSUME NEW r \in Request, DeviceCalls(r) PROVE TypeOK'
  BY <1>17, QueueAppend DEF DeviceCalls
<1>18. ASSUME NEW r \in Request, NEW error \in {"ErrRequestTimeout", "ErrInternel"},
              DeviceGivesUp(r, error)
       PROVE  TypeOK'
  BY <1>18 DEF DeviceGivesUp, Says, SDKError
<1>19. ASSUME NEW r \in Request, NEW status \in {"MethodNotAllowed", "NotFount"},
              ServerRefuses(r, status)
       PROVE  TypeOK'
  <2>1. status \in StatusCode
    BY DEF StatusCode
  <2> QED  BY <1>19, <2>1, QueueTail, QueueAppend DEF ServerRefuses, ServerHears, ServerReads
<1>20. ASSUME NEW r \in Request, ServerAsks(r) PROVE TypeOK'
  BY <1>20, QueueTail DEF ServerAsks, ServerHears, ServerReads
<1>21. ASSUME NEW a \in asking, NEW outcome \in ServiceCode \cup {"failed"},
              NEW status \in StatusCode, ServerAnswers(a, outcome, status)
       PROVE  TypeOK'
  <2>1. a[1] \in Request
    OBVIOUS
  <2>2. toDevice' \in Seq(ServerMsg)
    BY <1>21, <2>1, QueueAppend DEF ServerAnswers
  <2> QED  BY <1>21, <2>1, <2>2 DEF ServerAnswers
<1>22. ASSUME NEW r \in Request, RespArrives(r) PROVE TypeOK'
  <2> DEFINE m == Head(toDevice)
  <2>1. /\ toDevice # <<>> /\ m.type = "resp"
        /\ Says(r, transToSDKError(m.status))
        /\ toDevice' = Tail(toDevice)
        /\ UNCHANGED <<handlers, link, users, ran, streams, observers, work, outgoing, asking,
                       verdict>>
    BY <1>22 DEF RespArrives, DeviceReadsResp, DeviceReads
  <2>2. toDevice' \in Seq(ServerMsg) /\ m \in ServerMsg
    BY <2>1, QueueTail
  <2>3. transToSDKError(m.status) \in SDKError
    BY <2>1, <2>2, MessageTypes, CodeTypes
  <2> HIDE DEF m
  <2> QED  BY <2>1, <2>2, <2>3 DEF Says
<1>23. CASE RespUnknown
  BY <1>23, QueueEmpty DEF RespUnknown, Lost
<1>24. CASE UNCHANGED vars
  BY <1>24 DEF vars
<1> HIDE DEF TypeOK, link, users, streams, observers, services
<1> QED
  BY <1>1, <1>2, <1>3, <1>4, <1>5, <1>6, <1>7, <1>8, <1>9, <1>10, <1>11, <1>12, <1>13, <1>14,
     <1>15, <1>16, <1>17, <1>18, <1>19, <1>20, <1>21, <1>22, <1>23, <1>24, NextCases

-----------------------------------------------------------------------------
(* The calls of users: one lemma for each kind of step.                     *)

\* What a step leaves as it was for the calls that the device has done with, and
\* for those that were not sent.
Kept ==
  /\ UNCHANGED users
  /\ \A v \in User : /\ Done(v) => Done(v)' /\ ran'[v] = ran[v]
                     /\ ~Sent(v) => ran'[v] = ran[v]

LEMMA KeptHeard ==
  ASSUME TypeOK, UserInv, Kept
  PROVE  HeardInv' /\ UserTold'
<1> USE DEF Kept, users
<1>1. \A u \in User : Sent(u)' <=> Sent(u)
  BY DEF Sent
<1>2. HeardInv'
  BY DEF UserInv, HeardInv
<1>3. \A u \in User : told[u] = "BadRequest" => ran'[u] = "no"
  BY DEF UserInv, CallInv
<1>4. \A u \in User : told[u] = "DeviceIDOffline" /\ heard[u] = Nobody => ran'[u] = "no"
  BY DEF UserInv, CallInv
<1>5. \A u \in User : heard[u] \in User => ran'[heard[u]] = ran[heard[u]]
  BY DEF UserInv, HeardInv
<1>6. \A u \in User : heard[u] = Nobody \/ heard[u] \in User
  BY DEF TypeOK
<1> QED  BY <1>2, <1>3, <1>4, <1>5, <1>6 DEF UserInv, UserTold

LEMMA KeptFlow ==
  ASSUME UserInv, Kept, Answers' \subseteq Answers, TypeOK
  PROVE  \A m \in Answers' : Done(m.of)' /\ Fits(m)'
<1>1. \A m \in Answers : m.of \in User
  BY MessageTypes DEF Answers, OfType, TypeOK, ToSet
<1> QED  BY <1>1 DEF Kept, users, UserInv, FlowInv, Fits

LEMMA IdFrame ==
  ASSUME IdInv, UNCHANGED <<req, session, rolling>>, up' => up
  PROVE  IdInv'
BY DEF IdInv, Sent

LEMMA CrossedFrame ==
  ASSUME CrossedIsStale, UNCHANGED <<req, heard, frames>>
  PROVE  CrossedIsStale'
BY DEF CrossedIsStale

\* Whom a message in a queue is about.
LEMMA AnswerOf ==
  ASSUME TypeOK, NEW m \in Answers
  PROVE  m.of \in User /\ m.status \in {"NotFount", "OK", "Continue"} /\ m.type = "answer"
<1>1. m \in DeviceMsg /\ m.type = "answer"
  BY DEF Answers, OfType, TypeOK, ToSet
<1> QED  BY <1>1, MessageTypes

LEMMA FrameOf ==
  ASSUME TypeOK, NEW m \in Frames
  PROVE  m.of \in User /\ m.type = "frame"
BY MessageTypes DEF Frames, OfType, TypeOK, ToSet

\* Steps that only take messages out of the queues.
Quiet ==
  /\ UNCHANGED <<users, ran, frames, work>>
  /\ \A u \in User : observe'[u] = "none" <=> observe[u] = "none"
  /\ Asked' \subseteq Asked /\ Answers' \subseteq Answers /\ Frames' \subseteq Frames
  /\ AsksOnce(toDevice) => AsksOnce(toDevice')

LEMMA QuietUserInv ==
  ASSUME TypeOK, UserInv, Quiet, IdInv'
  PROVE  UserInv'
<1> USE DEF Quiet
<1>1. Kept
  BY DEF Kept, Done, Sent, users
<1>2. CallInv'
  BY DEF UserInv, CallInv, Sent, users
<1>3. FlowInv'
  <2>1. \A m \in Answers' : Done(m.of)' /\ Fits(m)'
    BY <1>1, KeptFlow
  <2>2. \A u \in User : observe'[u] # "none" => Done(u)' /\ req'[u].method = "ObGet"
    BY <1>1 DEF UserInv, FlowInv, Kept, users
  <2>3. \A m \in Frames' : observe'[m.of] # "none"
    BY FrameOf DEF UserInv, FlowInv
  <2>4. /\ AsksOnce(toDevice')
        /\ \A u \in Asked' : Sent(u)' /\ ran'[u] = "no" /\ u \notin work'
        /\ \A u \in User : u \in work' <=> ran'[u] = "running"
    BY DEF UserInv, FlowInv, Sent, users
  <2> QED  BY <2>1, <2>2, <2>3, <2>4 DEF FlowInv
<1>4. CrossedIsStale'
  BY CrossedFrame DEF UserInv, users
<1> QED  BY <1>1, <1>2, <1>3, <1>4, KeptHeard DEF UserInv

LEMMA FlowFrame ==
  ASSUME TypeOK, UserInv, UNCHANGED <<req, ran, observe, work, toDevice, outgoing>>
  PROVE  FlowInv'
<1>1. Asked' = Asked /\ Answers' = Answers /\ Frames' = Frames
  BY DEF Asked, Answers, Frames
<1>2. \A v \in User : (Sent(v)' <=> Sent(v)) /\ (Done(v)' <=> Done(v))
  BY <1>1 DEF Sent, Done
<1>3. \A m \in Answers' : Done(m.of)' /\ Fits(m)'
  BY <1>1, <1>2, AnswerOf DEF UserInv, FlowInv, Fits
<1>4. \A m \in Frames' : observe'[m.of] # "none"
  BY <1>1 DEF UserInv, FlowInv
<1>5. /\ AsksOnce(toDevice)'
      /\ \A v \in Asked' : Sent(v)' /\ ran'[v] = "no" /\ v \notin work'
      /\ \A v \in User : v \in work' <=> ran'[v] = "running"
  BY <1>1 DEF UserInv, FlowInv, Sent
<1>6. \A v \in User : observe'[v] # "none" => Done(v)' /\ req'[v].method = "ObGet"
  BY <1>2 DEF UserInv, FlowInv
<1> QED  BY <1>3, <1>4, <1>5, <1>6 DEF FlowInv

\* A call that ends before anything was sent.
LEMMA RefusedStep ==
  ASSUME TypeOK, UserInv, NEW u \in User, NEW uri \in URI, NEW method \in Method,
         UserFindsNobody(u, method, uri) \/ UserTooLarge(u, method, uri) \/ UserTooMany(u, uri)
  PROVE  UserInv'
<1>1. PICK code \in {"DeviceIDOffline", "BadRequest", "RPCError"} : Told(u, code)
  BY DEF UserFindsNobody, UserTooLarge, UserTooMany
<1>2. /\ call[u] = "idle"
      /\ UNCHANGED <<req, heard, toDevice, link, ran, streams, observers, work, outgoing>>
  BY DEF UserFindsNobody, UserTooLarge, UserTooMany, Idle, UserLeavesRest
<1>3. ~Sent(u) /\ heard[u] = Nobody /\ ran[u] = "no"
  BY <1>2 DEF UserInv, CallInv
<1>4. /\ call' = [call EXCEPT ![u] = "ended"]
      /\ told' = [told EXCEPT ![u] = code]
  BY <1>1 DEF Told
<1> USE <1>2 DEF link, streams, observers
<1>5. Asked' = Asked /\ Answers' = Answers /\ Frames' = Frames /\ AsksOnce(toDevice)' = AsksOnce(toDevice)
  BY DEF Asked, Answers, Frames
<1>6. \A v \in User : (Sent(v)' <=> Sent(v)) /\ (Done(v)' <=> Done(v))
  BY <1>5 DEF Sent, Done
<1>7. /\ call'[u] = "ended" /\ told'[u] = code
      /\ \A v \in User \ {u} : call'[v] = call[v] /\ told'[v] = told[v]
  BY <1>4 DEF TypeOK
<1>8. CallInv'
  BY <1>3, <1>5, <1>6, <1>7 DEF UserInv, CallInv
<1>9. IdInv' /\ CrossedIsStale'
  BY IdFrame, CrossedFrame DEF UserInv
<1>10. FlowInv'
  BY FlowFrame
<1>11. HeardInv'
  BY <1>6, <1>7 DEF UserInv, HeardInv
<1>12. UserTold'
  BY <1>3, <1>7 DEF UserInv, UserTold
<1> QED  BY <1>8, <1>9, <1>10, <1>11, <1>12 DEF UserInv

\* A request is sent, under an id that nobody else of the session has.
LEMMA SendsStep ==
  ASSUME TypeOK, UserInv, NEW u \in User, NEW uri \in URI, NEW method \in Method,
         UserSends(u, method, uri)
  PROVE  UserInv'
<1>1. /\ call[u] = "idle" /\ up /\ session > 0
      /\ session \in Nat /\ rolling.id \in Nat /\ rolling.ob \in Nat
  BY DEF UserSends, Idle, UserInv, IdInv, TypeOK
<1>2. /\ ~Sent(u) /\ heard[u] = Nobody /\ ran[u] = "no" /\ observe[u] = "none"
      /\ u \notin Asked /\ u \notin work /\ told[u] = "none"
      /\ \A v \in User : heard[v] # u /\ u \notin frames[v] /\ v \notin frames[u]
  BY <1>1 DEF UserInv, CallInv
<1>3. /\ req'[u].session = session /\ req'[u].method = method
      /\ req'[u].id = rolling.id + 1
      /\ rolling'.id = rolling.id + 1
      /\ IF method = "ObGet" THEN req'[u].ob = rolling.ob + 1 /\ rolling'.ob = rolling.ob + 1
                             ELSE req'[u].ob = 0 /\ rolling'.ob = rolling.ob
      /\ \A v \in User \ {u} : req'[v] = req[v]
  <2>1. CASE method = "ObGet"
    <3>1. 1 * (rolling.ob + 1) = rolling.ob + 1
      BY <1>1
    <3> QED  BY <2>1, <3>1 DEF UserSends, TypeOK
  <2>2. CASE method # "ObGet"
    <3>1. 0 * (rolling.ob + 1) = 0 /\ rolling.ob + 0 = rolling.ob
      BY <1>1
    <3> QED  BY <2>2, <3>1 DEF UserSends, TypeOK
  <2> QED  BY <2>1, <2>2
<1>4. /\ toDevice' = Append(toDevice, Ask(u))
      /\ call' = [call EXCEPT ![u] = "waiting"]
      /\ UNCHANGED <<session, up, told, heard, ran, streams, observers, work, outgoing>>
  BY DEF UserSends
<1> USE DEF streams, observers
<1>5. /\ Asked' = Asked \cup {u} /\ Answers' = Answers /\ Frames' = Frames
      /\ AsksOnce(toDevice) => AsksOnce(toDevice')
  BY <1>2, <1>4, QueueAppend DEF Asked, Answers, Frames, TypeOK
<1>6. /\ Sent(u)'
      /\ \A v \in User \ {u} : (Sent(v)' <=> Sent(v)) /\ (Done(v)' <=> Done(v))
  BY <1>1, <1>3, <1>4, <1>5 DEF Sent, Done
<1>7. call'[u] = "waiting" /\ \A v \in User \ {u} : call'[v] = call[v]
  BY <1>4 DEF TypeOK
<1>a. ~Done(u)
  BY <1>2 DEF Done
<1>8. CallInv'
  BY <1>2, <1>4, <1>5, <1>6, <1>7 DEF UserInv, CallInv
<1>9. IdInv'
  <2>1. \A v \in User : req[v] \in Req
    BY DEF TypeOK
  <2>2. \A v \in User \ {u} : /\ req[v].session <= session
                              /\ req[v].method = "ObGet" => Sent(v)
                              /\ Sent(v) /\ req[v].session = session
                                   => req[v].id <= rolling.id /\ req[v].ob <= rolling.ob
    BY DEF UserInv, IdInv
  <2>3. \A v \in User : req[v].id \in Nat /\ req[v].ob \in Nat /\ req[v].session \in Nat
    BY <2>1 DEF Req
  <2>4. \A v \in User :
          /\ req'[v].session <= session'
          /\ req'[v].method = "ObGet" => Sent(v)'
          /\ Sent(v)' /\ req'[v].session = session'
               => req'[v].id <= rolling'.id /\ req'[v].ob <= rolling'.ob
    <3>1. ASSUME NEW v \in User \ {u}
          PROVE  /\ req'[v].session <= session'
                 /\ req'[v].method = "ObGet" => Sent(v)'
                 /\ Sent(v)' /\ req'[v].session = session'
                      => req'[v].id <= rolling'.id /\ req'[v].ob <= rolling'.ob
      BY <1>1, <1>3, <1>4, <1>6, <2>2, <2>3, SMTT(30)
    <3>2. /\ req'[u].session <= session' /\ Sent(u)'
          /\ req'[u].id <= rolling'.id /\ req'[u].ob <= rolling'.ob
      BY <1>1, <1>3, <1>4, <1>6
    <3> QED  BY <3>1, <3>2
  <2>5. ASSUME NEW v \in User \ {u}, Sent(v), req'[v].session = session
        PROVE  /\ req'[v].id # req'[u].id
               /\ method = "ObGet" => req'[v].ob # req'[u].ob
    BY <1>1, <1>3, <2>2, <2>3, <2>5
  <2>6. ASSUME NEW v \in User, NEW w \in User, Sent(v)', req'[v].session = req'[w].session,
               req'[v].id = req'[w].id
        PROVE  v = w
    <3>1. Sent(w)'
      BY <2>6 DEF Sent
    <3>2. CASE v # u /\ w # u
      BY <1>3, <1>6, <2>6, <3>2 DEF UserInv, IdInv
    <3>3. CASE v = u /\ w # u
      BY <1>3, <1>6, <2>5, <2>6, <3>1, <3>3
    <3>4. CASE v # u /\ w = u
      BY <1>3, <1>6, <2>5, <2>6, <3>4
    <3> QED  BY <3>2, <3>3, <3>4
  <2>7. ASSUME NEW v \in User, NEW w \in User, req'[v].method = "ObGet",
               req'[w].method = "ObGet", req'[v].session = req'[w].session,
               req'[v].ob = req'[w].ob
        PROVE  v = w
    <3>1. Sent(v)' /\ Sent(w)'
      BY <2>4, <2>7
    <3>2. CASE v # u /\ w # u
      BY <1>3, <1>6, <2>7, <3>2 DEF UserInv, IdInv
    <3>3. CASE v = u /\ w # u
      BY <1>3, <1>6, <2>5, <2>7, <3>1, <3>3
    <3>4. CASE v # u /\ w = u
      BY <1>3, <1>6, <2>5, <2>7, <3>1, <3>4
    <3> QED  BY <3>2, <3>3, <3>4
  <2>8. up' => session' > 0
    BY <1>1, <1>4
  <2> QED  BY <2>4, <2>6, <2>7, <2>8 DEF IdInv
<1>10. FlowInv'
  <2>1. \A m \in Answers : m.of \in User \ {u} /\ Done(m.of) /\ Fits(m)
    BY <1>a, AnswerOf DEF UserInv, FlowInv
  <2>2. \A m \in Answers' : Done(m.of)' /\ Fits(m)'
    BY <1>3, <1>4, <1>5, <1>6, <2>1 DEF Fits
  <2>3. \A v \in User : observe'[v] # "none" => Done(v)' /\ req'[v].method = "ObGet"
    BY <1>2, <1>3, <1>4, <1>6 DEF UserInv, FlowInv
  <2>4. \A v \in Asked' : Sent(v)' /\ ran'[v] = "no" /\ v \notin work'
    BY <1>2, <1>4, <1>5, <1>6 DEF UserInv, FlowInv, Asked, AskedIn
  <2> QED  BY <1>4, <1>5, <2>2, <2>3, <2>4 DEF UserInv, FlowInv
<1>11. HeardInv'
  BY <1>2, <1>4, <1>6, <1>7 DEF UserInv, HeardInv
<1>12. UserTold'
  <2>1. \A v \in User : heard[v] \in User => req'[heard[v]] = req[heard[v]]
    BY <1>2, <1>3
  <2> QED  BY <1>2, <1>4, <2>1 DEF UserInv, UserTold
<1>13. CrossedIsStale'
  <2> SUFFICES ASSUME NEW v \in User, NEW w \in User, v # w, heard'[v] = w \/ w \in frames'[v]
               PROVE  req'[w].session < req'[v].session
    BY DEF CrossedIsStale
  <2>1. heard[v] = w \/ w \in frames[v]
    BY <1>4
  <2>2. v # u /\ w # u
    BY <1>2, <2>1, NobodyAssumption
  <2> QED  BY <1>3, <2>1, <2>2 DEF UserInv, CrossedIsStale
<1> QED  BY <1>8, <1>9, <1>10, <1>11, <1>12, <1>13 DEF UserInv

\* A call that was sent ends without reading an answer.
LEMMA EndsStep ==
  ASSUME TypeOK, UserInv, NEW u \in User,
         UserTimesOut(u) \/ StreamSessionDone(u) \/ StreamLeaves(u) \/ StreamReads(u)
  PROVE  UserInv'
<1>1. /\ UNCHANGED <<req, heard, toDevice, link, ran, frames, observers, work, outgoing>>
      /\ \/ UNCHANGED <<call, told>>
         \/ /\ call[u] = "waiting" /\ call' = [call EXCEPT ![u] = "ended"]
            /\ \E code \in {"RequestTimeout", "DeviceIDTimeout"} :
                 told' = [told EXCEPT ![u] = code]
         \/ /\ call[u] = "streaming" /\ call' = [call EXCEPT ![u] = "ended"]
            /\ \/ UNCHANGED told
               \/ \E code \in {"DeviceIDOffline", "Terminate"} : told' = [told EXCEPT ![u] = code]
  <2>1. CASE UserTimesOut(u)
    BY <2>1 DEF UserTimesOut, Told, UserLeavesRest, streams
  <2>2. CASE StreamSessionDone(u)
    BY <2>2 DEF StreamSessionDone, Told, UserLeavesRest, streams
  <2>3. CASE StreamLeaves(u)
    BY <2>3 DEF StreamLeaves, UserLeavesRest, streams
  <2>4. CASE StreamReads(u)
    <3>1. transToRPCCode("Terminate") = "Terminate"
      BY SomeCodes DEF transToRPCCode
    <3> QED  BY <2>4, <3>1 DEF StreamReads, Told
  <2> QED  BY <2>1, <2>2, <2>3, <2>4
<1> USE DEF link, observers
<1>2. Asked' = Asked /\ Answers' = Answers /\ Frames' = Frames /\ AsksOnce(toDevice)' = AsksOnce(toDevice)
  BY <1>1 DEF Asked, Answers, Frames
<1>3. \A v \in User : (Sent(v)' <=> Sent(v)) /\ (Done(v)' <=> Done(v))
  BY <1>1, <1>2 DEF Sent, Done
<1>4. \A v \in User : v # u => call'[v] = call[v] /\ told'[v] = told[v]
  BY <1>1 DEF TypeOK
<1>5. \/ call'[u] = call[u] /\ told'[u] = told[u]
      \/ /\ call[u] = "waiting" /\ call'[u] = "ended"
         /\ told'[u] \in {"RequestTimeout", "DeviceIDTimeout"}
      \/ /\ call[u] = "streaming" /\ call'[u] = "ended"
         /\ told'[u] \in {told[u], "DeviceIDOffline", "Terminate"}
  BY <1>1 DEF TypeOK
<1>6. call[u] = "streaming" => heard[u] \in User /\ heard[u] # Nobody /\ ran[heard[u]] = "ok"
  BY NobodyAssumption DEF UserInv, HeardInv
<1>7. call[u] \in {"waiting", "streaming"} => told[u] = "none" /\ Sent(u)
  BY DEF UserInv, CallInv
<1>8. CallInv'
  <2>1. ASSUME NEW v \in User, v # u PROVE CallInv!(v)'
    BY <1>1, <1>2, <1>3, <1>4, <2>1 DEF UserInv, CallInv
  <2>2. CallInv!(u)'
    BY <1>1, <1>2, <1>3, <1>5, <1>6, <1>7 DEF UserInv, CallInv
  <2> QED  BY <2>1, <2>2 DEF CallInv
<1>9. IdInv' /\ CrossedIsStale'
  BY <1>1, IdFrame, CrossedFrame DEF UserInv
<1>10. FlowInv'
  BY <1>1, FlowFrame
<1>11. HeardInv'
  BY <1>1, <1>3, <1>4, <1>5 DEF UserInv, HeardInv
<1>12. UserTold'
  <2>1. ASSUME NEW v \in User, v # u PROVE UserTold!(v)'
    BY <1>1, <1>4, <2>1 DEF UserInv, UserTold
  <2>2. UserTold!(u)'
    BY <1>1, <1>5, <1>6, <1>7 DEF UserInv, UserTold
  <2> QED  BY <2>1, <2>2 DEF UserTold
<1> QED  BY <1>8, <1>9, <1>10, <1>11, <1>12 DEF UserInv

\* No handler is registered: the device answers, and no handler runs.
LEMMA RefusesStep ==
  ASSUME TypeOK, UserInv, NEW u \in User, DeviceRefuses(u)
  PROVE  UserInv'
<1>1. /\ toDevice # <<>> /\ Head(toDevice) = Ask(u) /\ toDevice' = Tail(toDevice)
      /\ outgoing' = Append(outgoing, Answer(u, "NotFount"))
      /\ UNCHANGED <<link, users, ran, streams, observers, work>>
  BY DEF DeviceRefuses, DeviceHears, DeviceReads
<1> USE DEF link, users, streams, observers
<1>2. /\ u \in Asked /\ u \notin Asked' /\ Asked' \subseteq Asked
      /\ AsksOnce(toDevice')
  BY <1>1, QueueTail DEF UserInv, FlowInv, Asked, AskedIn, TypeOK
<1>3. Answers' = Answers \cup {Answer(u, "NotFount")} /\ Frames' = Frames
  BY <1>1, QueueAppend DEF Answers, Frames, TypeOK
<1>4. Sent(u) /\ ran[u] = "no" /\ u \notin work
  BY <1>2 DEF UserInv, FlowInv
<1>5. Kept
  BY <1>1, <1>2 DEF Kept, Done, Sent
<1>6. CallInv'
  BY <1>1, <1>2 DEF UserInv, CallInv, Sent
<1>7. IdInv' /\ CrossedIsStale'
  BY <1>1, IdFrame, CrossedFrame DEF UserInv
<1>8. FlowInv'
  <2>1. \A m \in Answers : Done(m.of)' /\ Fits(m)'
    BY <1>5, AnswerOf DEF Kept, UserInv, FlowInv, Fits
  <2>2. Done(u)' /\ Fits(Answer(u, "NotFount"))'
    BY <1>1, <1>2, <1>4 DEF Done, Sent, Fits, Answer
  <2>3. Answer(u, "NotFount").of = u
    BY DEF Answer
  <2>4. \A v \in User : observe'[v] # "none" => Done(v)' /\ req'[v].method = "ObGet"
    BY <1>1, <1>5 DEF Kept, UserInv, FlowInv
  <2>5. \A m \in Frames' : observe'[m.of] # "none"
    BY <1>1, <1>3 DEF UserInv, FlowInv
  <2>6. \A v \in Asked' : Sent(v)' /\ ran'[v] = "no" /\ v \notin work'
    BY <1>1, <1>2 DEF UserInv, FlowInv, Sent
  <2>7. \A v \in User : v \in work' <=> ran'[v] = "running"
    BY <1>1 DEF UserInv, FlowInv
  <2> QED  BY <1>2, <1>3, <2>1, <2>2, <2>3, <2>4, <2>5, <2>6, <2>7 DEF FlowInv
<1> QED  BY <1>5, <1>6, <1>7, <1>8, KeptHeard DEF UserInv

\* A handler starts.
LEMMA HandlesStep ==
  ASSUME TypeOK, UserInv, NEW u \in User, DeviceHandles(u)
  PROVE  UserInv'
<1>1. /\ toDevice # <<>> /\ Head(toDevice) = Ask(u) /\ toDevice' = Tail(toDevice)
      /\ work' = work \cup {u} /\ ran' = [ran EXCEPT ![u] = "running"]
      /\ UNCHANGED <<link, users, streams, observers, outgoing>>
  BY DEF DeviceHandles, DeviceHears, DeviceReads
<1> USE DEF link, users, streams, observers
<1>2. /\ u \in Asked /\ u \notin Asked' /\ Asked' \subseteq Asked
      /\ AsksOnce(toDevice')
  BY <1>1, QueueTail DEF UserInv, FlowInv, Asked, AskedIn, TypeOK
<1>3. Answers' = Answers /\ Frames' = Frames
  BY <1>1 DEF Answers, Frames
<1>4. Sent(u) /\ ran[u] = "no" /\ u \notin work
  BY <1>2 DEF UserInv, FlowInv
<1>5. ran'[u] = "running" /\ \A v \in User \ {u} : ran'[v] = ran[v]
  BY <1>1 DEF TypeOK
<1>6. Kept
  BY <1>1, <1>2, <1>4, <1>5 DEF Kept, Done, Sent
<1>7. CallInv'
  BY <1>1, <1>2, <1>4, <1>5 DEF UserInv, CallInv, Sent
<1>8. IdInv' /\ CrossedIsStale'
  BY <1>1, IdFrame, CrossedFrame DEF UserInv
<1>9. FlowInv'
  <2>1. \A m \in Answers' : Done(m.of)' /\ Fits(m)'
    BY <1>3, <1>6, KeptFlow
  <2>2. \A v \in User : observe'[v] # "none" => Done(v)' /\ req'[v].method = "ObGet"
    BY <1>1, <1>6 DEF Kept, UserInv, FlowInv
  <2>3. \A m \in Frames' : observe'[m.of] # "none"
    BY <1>1, <1>3 DEF UserInv, FlowInv
  <2>4. \A v \in Asked' : Sent(v)' /\ ran'[v] = "no" /\ v \notin work'
    BY <1>1, <1>2, <1>5 DEF UserInv, FlowInv, Sent, Asked, AskedIn
  <2>5. \A v \in User : v \in work' <=> ran'[v] = "running"
    BY <1>1, <1>5 DEF UserInv, FlowInv
  <2> QED  BY <1>2, <2>1, <2>2, <2>3, <2>4, <2>5 DEF FlowInv
<1> QED  BY <1>6, <1>7, <1>8, <1>9, KeptHeard DEF UserInv

\* A handler ends, with success and an answer, or without either.
LEMMA HandledStep ==
  ASSUME TypeOK, UserInv, NEW u \in User, HandlerAnswers(u) \/ HandlerFails(u)
  PROVE  UserInv'
<1> USE DEF link, users, streams, observers
<1>1. /\ u \in work /\ work' = work \ {u}
      /\ UNCHANGED <<users, streams>>
  BY DEF HandlerAnswers, HandlerFails
<1>2. Sent(u) /\ ran[u] = "running" /\ u \notin Asked
  BY <1>1 DEF UserInv, FlowInv, CallInv
<1>3. /\ Asked' \subseteq Asked /\ AsksOnce(toDevice')
      /\ UNCHANGED <<session, rolling>> /\ (up' => up)
  <2>1. UNCHANGED <<toDevice, link>> \/ Lost
    BY DEF HandlerAnswers, HandlerFails
  <2>2. CASE UNCHANGED <<toDevice, link>>
    BY <2>2 DEF Asked, UserInv, FlowInv
  <2>3. CASE Lost
    BY <2>3, QueueEmpty DEF Asked, Lost
  <2> QED  BY <2>1, <2>2, <2>3
<1>4. /\ ran'[u] \in {"ok", "failed"} /\ \A v \in User \ {u} : ran'[v] = ran[v]
  BY DEF HandlerAnswers, HandlerFails, TypeOK
<1>5. Done(u)'
  BY <1>1, <1>2, <1>3 DEF Done, Sent
<1>6. Kept
  BY <1>1, <1>2, <1>3, <1>4 DEF Kept, Done, Sent
<1>7. \A v \in User : observe'[v] = observe[v]
        \/ (v = u /\ observe'[u] = "data" /\ req[u].method = "ObGet")
  BY DEF HandlerAnswers, HandlerFails, TypeOK
<1>8. /\ Frames' = Frames
      /\ \A m \in Answers' : m \in Answers \/ (m.of = u /\ Fits(m)')
  <2>1. CASE HandlerFails(u)
    BY <2>1 DEF HandlerFails, Frames, Answers
  <2>2. CASE HandlerAnswers(u)
    <3>1. PICK status \in {"OK", "Continue"} :
            /\ outgoing' = Append(outgoing, Answer(u, status))
            /\ status = "Continue" <=> req[u].method = "ObGet"
      BY <2>2 DEF HandlerAnswers
    <3>2. Answers' = Answers \cup {Answer(u, status)} /\ Frames' = Frames
      BY <3>1, QueueAppend DEF Answers, Frames, TypeOK
    <3>3. ran'[u] = "ok"
      BY <2>2 DEF HandlerAnswers, TypeOK
    <3>4. Answer(u, status).of = u /\ Answer(u, status).status = status
      BY DEF Answer
    <3>5. Fits(Answer(u, status))'
      BY <1>1, <3>1, <3>3, <3>4 DEF Fits
    <3> QED  BY <3>2, <3>4, <3>5
  <2> QED  BY <2>1, <2>2
<1>9. CallInv'
  BY <1>1, <1>2, <1>3, <1>4, <1>7 DEF UserInv, CallInv, Sent
<1>10. IdInv' /\ CrossedIsStale'
  BY <1>1, <1>3, IdFrame, CrossedFrame DEF UserInv
<1>11. FlowInv'
  <2>1. \A m \in Answers : Done(m.of)' /\ Fits(m)'
    BY <1>6, AnswerOf DEF Kept, UserInv, FlowInv, Fits
  <2>2. \A m \in Answers' : Done(m.of)' /\ Fits(m)'
    BY <1>5, <1>8, <2>1
  <2>3. \A v \in User : observe'[v] # "none" => Done(v)' /\ req'[v].method = "ObGet"
    BY <1>1, <1>5, <1>6, <1>7 DEF Kept, UserInv, FlowInv
  <2>4. \A m \in Frames' : observe'[m.of] # "none"
    BY <1>7, <1>8, FrameOf DEF UserInv, FlowInv
  <2>5. \A v \in Asked' : Sent(v)' /\ ran'[v] = "no" /\ v \notin work'
    BY <1>1, <1>2, <1>3, <1>4 DEF UserInv, FlowInv, Sent, Asked, AskedIn
  <2>6. \A v \in User : v \in work' <=> ran'[v] = "running"
    BY <1>1, <1>4 DEF UserInv, FlowInv
  <2> QED  BY <1>3, <2>2, <2>3, <2>4, <2>5, <2>6 DEF FlowInv
<1> QED  BY <1>6, <1>9, <1>10, <1>11, KeptHeard DEF UserInv

\* An observe goroutine sends a notification.
LEMMA NotifiesStep ==
  ASSUME TypeOK, UserInv, NEW u \in User, NEW last \in BOOLEAN, ObserveNotifies(u, last)
  PROVE  UserInv'
<1> USE DEF link, users, streams, observers
<1>1. /\ observe[u] = "data" /\ observe' = [observe EXCEPT ![u] = "answer"]
      /\ outgoing' = Append(outgoing, Notification(u, last))
      /\ UNCHANGED <<link, users, ran, streams, work, toDevice>>
  BY DEF ObserveNotifies
<1>2. \A v \in User : observe'[v] = "none" <=> observe[v] = "none"
  BY <1>1 DEF TypeOK
<1>3. /\ Asked' = Asked /\ AsksOnce(toDevice)' = AsksOnce(toDevice)
      /\ Answers' = Answers /\ Frames' = Frames \cup {Notification(u, last)}
  BY <1>1, QueueAppend DEF Answers, Frames, Asked, TypeOK
<1>4. Kept
  BY <1>1, <1>3 DEF Kept, Done, Sent
<1>5. CallInv'
  BY <1>1, <1>2, <1>3 DEF UserInv, CallInv, Sent
<1>6. IdInv' /\ CrossedIsStale'
  BY <1>1, IdFrame, CrossedFrame DEF UserInv
<1>7. FlowInv'
  <2>1. \A m \in Answers' : Done(m.of)' /\ Fits(m)'
    BY <1>3, <1>4, KeptFlow
  <2>2. \A v \in User : observe'[v] # "none" => Done(v)' /\ req'[v].method = "ObGet"
    BY <1>1, <1>2, <1>4 DEF Kept, UserInv, FlowInv
  <2>3. Notification(u, last).of = u /\ observe'[u] # "none"
    BY <1>1, <1>2 DEF Notification
  <2>4. \A m \in Frames' : observe'[m.of] # "none"
    BY <1>2, <1>3, <2>3, FrameOf DEF UserInv, FlowInv
  <2>5. \A v \in Asked' : Sent(v)' /\ ran'[v] = "no" /\ v \notin work'
    BY <1>1, <1>3 DEF UserInv, FlowInv, Sent
  <2>6. \A v \in User : v \in work' <=> ran'[v] = "running"
    BY <1>1 DEF UserInv, FlowInv
  <2> QED  BY <1>1, <1>3, <2>1, <2>2, <2>4, <2>5, <2>6 DEF UserInv, FlowInv
<1> QED  BY <1>4, <1>5, <1>6, <1>7, KeptHeard DEF UserInv

\* An answer reaches a handler of the server: its own, or one of a newer session
\* that has the same id.
LEMMA AnswerStep ==
  ASSUME TypeOK, UserInv, NEW v \in User, AnswerArrives(v)
  PROVE  UserInv'
<1> DEFINE m == Head(outgoing)
<1> DEFINE w == m.of
<1> USE DEF link, streams, observers
<1>1. /\ outgoing # <<>> /\ outgoing' = Tail(outgoing) /\ m.type = "answer"
      /\ v \in Waiting(w)
      /\ heard' = [heard EXCEPT ![v] = w]
      /\ UNCHANGED <<link, req, ran, streams, observers, work, toDevice>>
  BY DEF AnswerArrives, ServerHears, ServerReads
<1>2. /\ m \in Answers /\ Answers' \subseteq Answers /\ Frames' \subseteq Frames
      /\ Asked' = Asked
  BY <1>1, QueueTail DEF Answers, Frames, Asked, OfType, TypeOK
<1>3. w \in User /\ m.status \in {"NotFount", "OK", "Continue"} /\ Done(w) /\ Fits(m)
  BY <1>2, AnswerOf DEF UserInv, FlowInv
<1>4. /\ call[v] = "waiting" /\ req[v].session = session /\ req[v].id = req[w].id
      /\ Sent(v) /\ told[v] = "none"
  BY <1>1 DEF Waiting, Current, UserInv, CallInv
<1>5. PICK s \in Received(v, w, m.status) :
        IF req[v].method = "ObGet" /\ s = "Continue"
        THEN call' = [call EXCEPT ![v] = "streaming"] /\ UNCHANGED told
        ELSE Told(v, CodeOf(s))
  BY DEF AnswerArrives
<1>6. /\ s \in {"NotFount", "OK", "Continue", "MethodNotAllowed", "error"}
      /\ s \in {"MethodNotAllowed", "error"} => req[w] # req[v]
      /\ s \in {"NotFount", "OK", "Continue"} =>
           /\ s = m.status
           /\ req[w].method = "ObGet" <=> req[v].method = "ObGet"
  BY <1>3, <1>5, ReceivedTypes
<1>7. /\ Done(w) /\ w \in User
      /\ m.status = "NotFount" => ran[w] = "no"
      /\ m.status = "OK" => ran[w] = "ok" /\ req[w].method # "ObGet"
      /\ m.status = "Continue" => ran[w] = "ok"
  BY <1>3 DEF Fits
<1>8. CodeOf(s) = IF s = "error" THEN "InternalServerError" ELSE s
  BY <1>6 DEF CodeOf, transToRPCCode, AccessCode
<1>9. /\ heard'[v] = w
      /\ \A x \in User \ {v} : heard'[x] = heard[x] /\ call'[x] = call[x] /\ told'[x] = told[x]
      /\ \/ call'[v] = "streaming" /\ told'[v] = "none" /\ s = "Continue"
         \/ call'[v] = "ended" /\ told'[v] = CodeOf(s)
  BY <1>1, <1>4, <1>5 DEF Told, TypeOK
<1> HIDE DEF w
<1>10. \A x \in User : (Sent(x)' <=> Sent(x)) /\ (Done(x)' <=> Done(x))
  BY <1>1, <1>2 DEF Sent, Done
<1>11. Sent(w) /\ w # Nobody
  BY <1>3, NobodyAssumption DEF Done
<1>12. CallInv'
  <2>1. ASSUME NEW x \in User, Sent(x), x # v PROVE CallInv!(x)'
    BY <1>1, <1>9, <1>10, <2>1 DEF UserInv, CallInv
  <2>2. CallInv!(v)'
    BY <1>4, <1>6, <1>8, <1>9, <1>10, <1>11
  <2>3. ASSUME NEW x \in User, ~Sent(x) PROVE CallInv!(x)'
    <3>1. x # v /\ x # w
      BY <1>4, <1>11, <2>3
    <3>2. \A y \in User : heard'[y] # x /\ x \notin frames'[y] /\ y \notin frames'[x]
      BY <1>1, <1>9, <2>3, <3>1 DEF UserInv, CallInv
    <3> QED  BY <1>1, <1>2, <1>9, <1>10, <2>3, <3>1, <3>2 DEF UserInv, CallInv
  <2> QED  BY <2>1, <2>2, <2>3 DEF CallInv
<1>13. IdInv'
  BY <1>1, IdFrame DEF UserInv
<1>14. FlowInv'
  <2>1. \A a \in Answers' : Done(a.of)' /\ Fits(a)'
    BY <1>1, <1>2, <1>10, AnswerOf DEF UserInv, FlowInv, Fits
  <2>2. \A x \in User : observe'[x] # "none" => Done(x)' /\ req'[x].method = "ObGet"
    BY <1>1, <1>10 DEF UserInv, FlowInv
  <2>3. \A f \in Frames' : observe'[f.of] # "none"
    BY <1>1, <1>2 DEF UserInv, FlowInv
  <2>4. /\ AsksOnce(toDevice)'
        /\ \A x \in Asked' : Sent(x)' /\ ran'[x] = "no" /\ x \notin work'
        /\ \A x \in User : x \in work' <=> ran'[x] = "running"
    BY <1>1, <1>2 DEF UserInv, FlowInv, Sent
  <2> QED  BY <2>1, <2>2, <2>3, <2>4 DEF FlowInv
<1>15. HeardInv'
  BY <1>1, <1>6, <1>7, <1>9, <1>10 DEF UserInv, HeardInv
<1>16. UserTold'
  <2>1. ASSUME NEW x \in User, x # v PROVE UserTold!(x)'
    BY <1>1, <1>9, <2>1 DEF UserInv, UserTold
  <2>2. s \in {"MethodNotAllowed", "error"} => w # v
    BY <1>6
  <2>3. UserTold!(v)'
    BY <1>1, <1>6, <1>7, <1>8, <1>9, <1>11, <2>2
  <2> QED  BY <2>1, <2>3 DEF UserTold
<1>17. CrossedIsStale'
  <2>1. w # v => req[w].session < req[v].session
    <3>1. req[w].session \in Nat /\ session \in Nat /\ req[w].session <= session
      BY <1>3 DEF TypeOK, Req, UserInv, IdInv
    <3>2. req[w].session = session => w = v
      BY <1>3, <1>4, <1>11 DEF UserInv, IdInv
    <3> QED  BY <1>4, <3>1, <3>2
  <2> SUFFICES ASSUME NEW x \in User, NEW y \in User, x # y, heard'[x] = y \/ y \in frames'[x]
               PROVE  req'[y].session < req'[x].session
    BY DEF CrossedIsStale
  <2>2. (x = v /\ y = w) \/ heard[x] = y \/ y \in frames[x]
    BY <1>1, <1>9
  <2> QED  BY <1>1, <2>1, <2>2 DEF UserInv, CrossedIsStale
<1> QED  BY <1>12, <1>13, <1>14, <1>15, <1>16, <1>17 DEF UserInv

\* A notification reaches a stream: its own, or one of a newer session that has
\* the same observation id.
LEMMA FrameStep ==
  ASSUME TypeOK, UserInv, NEW v \in User, FrameArrives(v)
  PROVE  UserInv'
<1> DEFINE m == Head(outgoing)
<1> DEFINE w == m.of
<1> USE DEF link, users, observers
<1>1. /\ outgoing # <<>> /\ outgoing' = Tail(outgoing) /\ m.type = "frame"
      /\ v \in Observers(w)
      /\ frames' = [frames EXCEPT ![v] = @ \cup {w}]
      /\ observe' = [observe EXCEPT ![w] = IF m.last \/ @ = "ended" THEN "ended" ELSE "data"]
      /\ UNCHANGED <<link, users, ran, work, toDevice>>
  BY DEF FrameArrives, ServerHears, ServerReads
<1>2. /\ m \in Frames /\ Answers' \subseteq Answers /\ Frames' \subseteq Frames
      /\ Asked' = Asked
  BY <1>1, QueueTail DEF Answers, Frames, Asked, OfType, TypeOK
<1>3. w \in User /\ observe[w] # "none"
  BY <1>2, FrameOf DEF UserInv, FlowInv
<1>4. Done(w) /\ Sent(w) /\ req[w].method = "ObGet"
  BY <1>3 DEF UserInv, FlowInv, Done
<1>5. /\ req[v].method = "ObGet" /\ req[v].session = session /\ req[v].ob = req[w].ob
      /\ Sent(v)
  BY <1>1 DEF Observers, Observing, Current, UserInv, IdInv
<1> HIDE DEF w
<1>6. \A x \in User : observe'[x] = "none" <=> observe[x] = "none"
  BY <1>1, <1>3 DEF TypeOK
<1>7. Kept
  BY <1>1, <1>2 DEF Kept, Done, Sent
<1>8. /\ frames'[v] = frames[v] \cup {w}
      /\ \A x \in User \ {v} : frames'[x] = frames[x]
  BY <1>1 DEF TypeOK
<1>9. CallInv'
  BY <1>1, <1>2, <1>4, <1>5, <1>6, <1>8 DEF UserInv, CallInv, Sent
<1>10. IdInv'
  BY <1>1, IdFrame DEF UserInv
<1>11. FlowInv'
  <2>1. \A a \in Answers' : Done(a.of)' /\ Fits(a)'
    BY <1>2, <1>7, KeptFlow
  <2>2. \A x \in User : observe'[x] # "none" => Done(x)' /\ req'[x].method = "ObGet"
    BY <1>1, <1>6, <1>7 DEF Kept, UserInv, FlowInv
  <2>3. \A f \in Frames' : observe'[f.of] # "none"
    BY <1>2, <1>6, FrameOf DEF UserInv, FlowInv
  <2>4. /\ AsksOnce(toDevice)'
        /\ \A x \in Asked' : Sent(x)' /\ ran'[x] = "no" /\ x \notin work'
        /\ \A x \in User : x \in work' <=> ran'[x] = "running"
    BY <1>1, <1>2 DEF UserInv, FlowInv, Sent
  <2> QED  BY <2>1, <2>2, <2>3, <2>4 DEF FlowInv
<1>12. CrossedIsStale'
  <2>1. w # v => req[w].session < req[v].session
    <3>1. req[w].session \in Nat /\ session \in Nat /\ req[w].session <= session
      BY <1>3 DEF TypeOK, Req, UserInv, IdInv
    <3>2. req[w].session = session => w = v
      BY <1>3, <1>4, <1>5 DEF UserInv, IdInv
    <3> QED  BY <1>5, <3>1, <3>2
  <2> SUFFICES ASSUME NEW x \in User, NEW y \in User, x # y, heard'[x] = y \/ y \in frames'[x]
               PROVE  req'[y].session < req'[x].session
    BY DEF CrossedIsStale
  <2>2. (x = v /\ y = w) \/ heard[x] = y \/ y \in frames[x]
    BY <1>1, <1>8
  <2> QED  BY <1>1, <2>1, <2>2 DEF UserInv, CrossedIsStale
<1> QED  BY <1>7, <1>9, <1>10, <1>11, <1>12, KeptHeard DEF UserInv

\* Steps of the link, and of the calls of the device, only take messages of the
\* users' calls away.
LEMMA LinkStep ==
  ASSUME TypeOK, UserInv, Connects \/ Disconnects \/ AnswerUnknown \/ RespUnknown
  PROVE  UserInv'
<1> USE DEF users, streams, observers
<1>1. /\ UNCHANGED <<users, ran, frames, work, observe>>
      /\ outgoing' = outgoing \/ (outgoing # <<>> /\ outgoing' = Tail(outgoing))
      /\ toDevice' \in {toDevice, <<>>}
  BY DEF Connects, Disconnects, AnswerUnknown, RespUnknown, ServerHears, ServerReads, Lost
<1>2. Answers' \subseteq Answers /\ Frames' \subseteq Frames
  BY <1>1, QueueTail DEF Answers, Frames, TypeOK
<1>3. Asked' \subseteq Asked /\ (AsksOnce(toDevice) => AsksOnce(toDevice'))
  BY <1>1, QueueEmpty DEF Asked
<1>4. Quiet
  BY <1>1, <1>2, <1>3 DEF Quiet
<1>5. IdInv'
  <2>1. CASE Connects
    <3>1. session' = session + 1 /\ up' = TRUE /\ session \in Nat
      BY <2>1 DEF Connects, TypeOK
    <3>2. \A u \in User : req'[u] = req[u] /\ req[u].session <= session /\ req[u].session \in Nat
      BY <1>1 DEF UserInv, IdInv, TypeOK, Req
    <3>3. session' > 0 /\ \A u \in User : req'[u].session <= session' /\ req'[u].session # session'
      BY <3>1, <3>2
    <3> QED  BY <1>1, <3>2, <3>3 DEF UserInv, IdInv, Sent
  <2>2. CASE Lost
    BY <1>1, <2>2, IdFrame DEF Lost, UserInv
  <2> QED  BY <2>1, <2>2 DEF Disconnects, AnswerUnknown, RespUnknown
<1> QED  BY <1>4, <1>5, QuietUserInv

LEMMA OtherStep ==
  ASSUME TypeOK, UserInv,
         \/ \E uri \in URI, method \in Method : Registers(method, uri)
         \/ \E u \in User : ObserveGivesUp(u)
         \/ FrameUnknown
         \/ \E r \in Request : DeviceCalls(r)
         \/ \E r \in Request, error \in {"ErrRequestTimeout", "ErrInternel"} :
              DeviceGivesUp(r, error)
         \/ \E r \in Request, status \in {"MethodNotAllowed", "NotFount"} :
              ServerRefuses(r, status)
         \/ \E r \in Request : ServerAsks(r)
         \/ \E a \in asking, outcome \in ServiceCode \cup {"failed"}, status \in StatusCode :
              ServerAnswers(a, outcome, status)
         \/ \E r \in Request : RespArrives(r)
         \/ UNCHANGED vars
  PROVE  UserInv'
<1> USE DEF link, users, streams, observers
<1>1. /\ UNCHANGED <<link, users, ran, frames, work>>
  BY DEF Registers, ObserveGivesUp, FrameUnknown, DeviceCalls, DeviceGivesUp, ServerRefuses,
         ServerAsks, ServerAnswers, RespArrives, vars
<1>2. \A u \in User : observe'[u] = "none" <=> observe[u] = "none"
  <2>1. CASE UNCHANGED observe
    BY <2>1
  <2>2. ASSUME NEW u \in User, ObserveGivesUp(u)
        PROVE  \A v \in User : observe'[v] = "none" <=> observe[v] = "none"
    BY <2>2 DEF ObserveGivesUp, TypeOK
  <2>3. CASE FrameUnknown
    <3> DEFINE w == Head(outgoing).of
    <3>1. /\ outgoing # <<>> /\ Head(outgoing).type = "frame"
          /\ observe' = [observe EXCEPT ![w] = "ended"]
      BY <2>3 DEF FrameUnknown, ServerHears, ServerReads
    <3>2. Head(outgoing) \in Frames
      BY <3>1, QueueTail DEF Frames, OfType, TypeOK
    <3>3. w \in User /\ observe[w] # "none"
      BY <3>2, FrameOf DEF UserInv, FlowInv
    <3> QED  BY <3>1, <3>3 DEF TypeOK
  <2> QED
    BY <2>1, <2>2, <2>3 DEF Registers, DeviceCalls, DeviceGivesUp, ServerRefuses,
         ServerAsks, ServerAnswers, RespArrives, vars
<1>3. Answers' \subseteq Answers /\ Frames' \subseteq Frames
  <2>1. \/ outgoing' = outgoing
        \/ outgoing # <<>> /\ outgoing' = Tail(outgoing)
        \/ \E r \in Request : outgoing' = Append(outgoing, CoReq(r))
    BY DEF Registers, ObserveGivesUp, FrameUnknown, DeviceCalls, DeviceGivesUp, ServerRefuses,
           ServerAsks, ServerAnswers, RespArrives, vars, ServerHears, ServerReads
  <2>2. CASE outgoing' = outgoing
    BY <2>2 DEF Answers, Frames
  <2>3. CASE outgoing # <<>> /\ outgoing' = Tail(outgoing)
    BY <2>3, QueueTail DEF Answers, Frames, TypeOK
  <2>4. ASSUME NEW r \in Request, outgoing' = Append(outgoing, CoReq(r))
        PROVE  Answers' \subseteq Answers /\ Frames' \subseteq Frames
    BY <2>4, QueueAppend DEF Answers, Frames, TypeOK
  <2> QED  BY <2>1, <2>2, <2>3, <2>4
<1>4. Asked' \subseteq Asked /\ (AsksOnce(toDevice) => AsksOnce(toDevice'))
  <2>1. \/ toDevice' = toDevice
        \/ toDevice # <<>> /\ toDevice' = Tail(toDevice)
        \/ \E r \in Request, status \in StatusCode : toDevice' = Append(toDevice, Resp(r, status))
    <3>1. ASSUME NEW a \in asking, NEW outcome, NEW status \in StatusCode,
                 ServerAnswers(a, outcome, status)
          PROVE  \/ toDevice' = toDevice
                 \/ \E r \in Request, s \in StatusCode : toDevice' = Append(toDevice, Resp(r, s))
      BY <3>1 DEF ServerAnswers, TypeOK
    <3>2. {"MethodNotAllowed", "NotFount"} \subseteq StatusCode
      BY DEF StatusCode
    <3> QED
      BY <3>1, <3>2
         DEF Registers, ObserveGivesUp, FrameUnknown, DeviceCalls, DeviceGivesUp, ServerRefuses,
             ServerAsks, RespArrives, vars, DeviceReadsResp, DeviceReads
  <2>2. CASE toDevice' = toDevice
    BY <2>2 DEF Asked
  <2>3. CASE toDevice # <<>> /\ toDevice' = Tail(toDevice)
    BY <2>3, QueueTail DEF Asked, TypeOK
  <2>4. ASSUME NEW r \in Request, NEW status \in StatusCode,
               toDevice' = Append(toDevice, Resp(r, status))
        PROVE  Asked' \subseteq Asked /\ (AsksOnce(toDevice) => AsksOnce(toDevice'))
    BY <2>4, QueueAppend DEF Asked, TypeOK
  <2> QED  BY <2>1, <2>2, <2>3, <2>4
<1>5. Quiet
  BY <1>1, <1>2, <1>3, <1>4 DEF Quiet
<1>6. IdInv'
  BY <1>1, IdFrame DEF UserInv
<1> QED  BY <1>5, <1>6, QuietUserInv

LEMMA UserStep ==
  ASSUME TypeOK, UserInv, [Next]_vars
  PROVE  UserInv'
BY NextCases, RefusedStep, SendsStep, EndsStep, RefusesStep, HandlesStep, HandledStep,
   NotifiesStep, AnswerStep, FrameStep, LinkStep, OtherStep

-----------------------------------------------------------------------------
(* The calls of the device: the same.                                       *)

\* A response reports the verdict of the service, in the words of the SDK.
LEMMA ReportsSaid ==
  ASSUME NEW status, NEW code, Reports(status, code)
  PROVE  LET error == transToSDKError(status) IN
         /\ error = "nil" => code = "OK"
         /\ error = "ErrResourceNotFount" => code \in {"none", "NotFount"}
         /\ error = "ErrMethodNotAllowed" => code \in {"none", "MethodNotAllowed"}
         /\ error = "ErrBadRequest" => code = "BadRequest"
         /\ error = "ErrTooManyRequests" => code = "TooManyRequests"
         /\ error = "ErrInternalServerError" =>
              code \in {"failed", "InternalServerError", "Continue", "Terminate",
                        "TooManyObservations", "DeviceIDOffline", "DeviceIDTimeout"}
<1>1. CASE code = "none" /\ status \in {"MethodNotAllowed", "NotFount"}
  BY <1>1 DEF transToSDKError
<1>2. CASE code = "failed" /\ status = "InternalServerError"
  BY <1>2 DEF transToSDKError
<1>3. CASE code \in ServiceCode /\ status = transToDeviceCode(code)
  <2>1. status = IF code \in {"DeviceIDOffline", "DeviceIDTimeout"} THEN "Unknown" ELSE code
    BY <1>3 DEF transToDeviceCode, ServiceCode, StatusCode
  <2> QED  BY <1>3, <2>1 DEF transToSDKError, ServiceCode
<1> QED  BY <1>1, <1>2, <1>3 DEF Reports

\* The calls the messages of the device's queue are about.
LEMMA RespOf ==
  ASSUME TypeOK, NEW m \in Resps
  PROVE  m.of \in Request /\ m.status \in StatusCode /\ m.type = "resp"
<1>1. m \in ServerMsg /\ m.type = "resp"
  BY DEF Resps, OfType, TypeOK, ToSet
<1> QED  BY <1>1, MessageTypes

LEMMA AskingOf ==
  ASSUME TypeOK
  PROVE  Asking \subseteq Request /\ CoReqs \subseteq Request
BY DEF TypeOK, Asking, CoReqs, CoReqsIn

\* Steps that only take messages about the device's calls out of the queues.
Silent ==
  /\ UNCHANGED services
  /\ CoReqs' \subseteq CoReqs /\ Resps' \subseteq Resps
  /\ CoReqsOnce(outgoing) => CoReqsOnce(outgoing')

LEMMA SilentStep ==
  ASSUME TypeOK, ServiceInv, Silent
  PROVE  ServiceInv'
BY DEF ServiceInv, Silent, services, Asking, DeviceTold, Reports

LEMMA OthersAreSilent ==
  ASSUME TypeOK,
         \/ \E uri \in URI, method \in Method : Registers(method, uri)
         \/ Connects
         \/ Disconnects \/ AnswerUnknown
         \/ \E u \in User, uri \in URI, method \in Method :
              UserFindsNobody(u, method, uri) \/ UserTooLarge(u, method, uri) \/ UserTooMany(u, uri)
         \/ \E u \in User, uri \in URI, method \in Method : UserSends(u, method, uri)
         \/ \E u \in User : UserTimesOut(u) \/ StreamSessionDone(u) \/ StreamLeaves(u)
         \/ \E u \in User : StreamReads(u)
         \/ \E u \in User : DeviceRefuses(u)
         \/ \E u \in User : DeviceHandles(u)
         \/ \E u \in User : HandlerAnswers(u)
         \/ \E u \in User : HandlerFails(u)
         \/ \E u \in User, last \in BOOLEAN : ObserveNotifies(u, last)
         \/ \E u \in User : ObserveGivesUp(u)
         \/ \E u \in User : AnswerArrives(u)
         \/ \E u \in User : FrameArrives(u)
         \/ FrameUnknown
         \/ RespUnknown
         \/ UNCHANGED vars
  PROVE  Silent
<1>1. UNCHANGED services
  BY DEF Registers, Connects, Disconnects, AnswerUnknown, UserFindsNobody, UserTooLarge,
         UserTooMany, UserLeavesRest, UserSends, UserTimesOut, StreamSessionDone, StreamLeaves,
         StreamReads, DeviceRefuses, DeviceHandles, HandlerAnswers, HandlerFails,
         ObserveNotifies, ObserveGivesUp, AnswerArrives, FrameArrives, FrameUnknown,
         RespUnknown, vars
<1>2. \/ outgoing' = outgoing
      \/ outgoing # <<>> /\ outgoing' = Tail(outgoing)
      \/ \E u \in User, status \in {"NotFount", "OK", "Continue"} :
           outgoing' = Append(outgoing, Answer(u, status))
      \/ \E u \in User, last \in BOOLEAN : outgoing' = Append(outgoing, Notification(u, last))
  <2>1. ASSUME NEW u \in User, HandlerAnswers(u)
        PROVE  \E status \in {"NotFount", "OK", "Continue"} :
                 outgoing' = Append(outgoing, Answer(u, status))
    BY <2>1 DEF HandlerAnswers
  <2> QED
    BY <2>1
       DEF Registers, Connects, Disconnects, AnswerUnknown, UserFindsNobody, UserTooLarge,
           UserTooMany, UserLeavesRest, UserSends, UserTimesOut, StreamSessionDone,
           StreamLeaves, StreamReads, DeviceRefuses, DeviceHandles, HandlerFails,
           ObserveNotifies, ObserveGivesUp, AnswerArrives, FrameArrives, FrameUnknown,
           RespUnknown, vars, ServerHears, ServerReads
<1>3. \/ toDevice' = toDevice \/ toDevice' = <<>>
      \/ toDevice # <<>> /\ toDevice' = Tail(toDevice)
      \/ \E u \in User : toDevice' = Append(toDevice, Ask(u))
  BY DEF Registers, Connects, Disconnects, AnswerUnknown, UserFindsNobody, UserTooLarge,
         UserTooMany, UserLeavesRest, UserSends, UserTimesOut, StreamSessionDone, StreamLeaves,
         StreamReads, DeviceRefuses, DeviceHandles, HandlerAnswers, HandlerFails,
         ObserveNotifies, ObserveGivesUp, AnswerArrives, FrameArrives, FrameUnknown,
         RespUnknown, vars, DeviceHears, DeviceReads, Lost
<1> USE DEF TypeOK, CoReqs, Resps
<1>4. CoReqs' \subseteq CoReqs /\ (CoReqsOnce(outgoing) => CoReqsOnce(outgoing'))
  <2>1. CASE outgoing' = outgoing
    BY <2>1
  <2>2. CASE outgoing # <<>> /\ outgoing' = Tail(outgoing)
    BY <2>2, QueueTail
  <2>3. ASSUME NEW u \in User, NEW status \in {"NotFount", "OK", "Continue"},
               outgoing' = Append(outgoing, Answer(u, status))
        PROVE  CoReqs' \subseteq CoReqs /\ (CoReqsOnce(outgoing) => CoReqsOnce(outgoing'))
    BY <2>3, QueueAppend
  <2>4. ASSUME NEW u \in User, NEW last \in BOOLEAN,
               outgoing' = Append(outgoing, Notification(u, last))
        PROVE  CoReqs' \subseteq CoReqs /\ (CoReqsOnce(outgoing) => CoReqsOnce(outgoing'))
    BY <2>4, QueueAppend
  <2> QED  BY <1>2, <2>1, <2>2, <2>3, <2>4
<1>5. Resps' \subseteq Resps
  <2>1. CASE toDevice' = toDevice \/ toDevice' = <<>>
    BY <2>1, QueueEmpty
  <2>2. CASE toDevice # <<>> /\ toDevice' = Tail(toDevice)
    BY <2>2, QueueTail
  <2>3. ASSUME NEW u \in User, toDevice' = Append(toDevice, Ask(u)) PROVE Resps' \subseteq Resps
    BY <2>3, QueueAppend
  <2> QED  BY <1>3, <2>1, <2>2, <2>3
<1> QED  BY <1>1, <1>4, <1>5 DEF Silent

\* The device calls: its request is queued.
LEMMA CallsStep ==
  ASSUME TypeOK, ServiceInv, NEW r \in Request, DeviceCalls(r)
  PROVE  ServiceInv'
<1>1. /\ want[r] = "idle" /\ want' = [want EXCEPT ![r] = "waiting"]
      /\ outgoing' = Append(outgoing, CoReq(r))
      /\ UNCHANGED <<toDevice, said, asking, verdict>>
  BY DEF DeviceCalls
<1>2. /\ r \notin CoReqs \cup Asking /\ said[r] = "none" /\ verdict[r] = "none"
      /\ \A m \in Resps : m.of # r
  BY <1>1 DEF ServiceInv
<1>3. /\ CoReqs' = CoReqs \cup {r} /\ CoReqsOnce(outgoing')
      /\ Resps' = Resps /\ Asking' = Asking
  BY <1>1, <1>2, QueueAppend DEF ServiceInv, CoReqs, Resps, Asking, TypeOK
<1>4. want'[r] = "waiting" /\ \A p \in Request \ {r} : want'[p] = want[p]
  BY <1>1 DEF TypeOK
<1>5. /\ \A a, b \in asking' : a[1] = b[1] => a = b
      /\ CoReqs' \cap Asking' = {}
  BY <1>1, <1>2, <1>3 DEF ServiceInv
<1>6. /\ \A p \in CoReqs' \cup Asking' : want'[p] # "idle" /\ verdict'[p] = "none"
      /\ \A p \in Request : want'[p] = "idle" => said'[p] = "none" /\ verdict'[p] = "none"
  BY <1>1, <1>2, <1>3, <1>4, AskingOf DEF ServiceInv
<1>7. \A m \in Resps' : /\ want'[m.of] # "idle"
                        /\ m.of \notin CoReqs' \cup Asking'
                        /\ Reports(m.status, verdict'[m.of])
  BY <1>1, <1>2, <1>3, <1>4, RespOf DEF ServiceInv
<1>8. /\ \A p \in Request :
           said'[p] \notin {"none", "ErrRequestTimeout", "ErrInternel"}
             => p \notin CoReqs' \cup Asking'
      /\ DeviceTold'
  BY <1>1, <1>2, <1>3 DEF ServiceInv, DeviceTold
<1> QED  BY <1>3, <1>5, <1>6, <1>7, <1>8 DEF ServiceInv

\* The device's caller gives up.
LEMMA GivesUpStep ==
  ASSUME TypeOK, ServiceInv, NEW r \in Request,
         NEW error \in {"ErrRequestTimeout", "ErrInternel"}, DeviceGivesUp(r, error)
  PROVE  ServiceInv'
<1>1. /\ want' = [want EXCEPT ![r] = "ended"] /\ said' = [said EXCEPT ![r] = error]
      /\ UNCHANGED <<outgoing, toDevice, asking, verdict>>
  BY DEF DeviceGivesUp, Says
<1>2. CoReqs' = CoReqs /\ Resps' = Resps /\ Asking' = Asking
  BY <1>1 DEF CoReqs, Resps, Asking
<1>3. /\ want'[r] = "ended" /\ said'[r] = error
      /\ \A p \in Request \ {r} : want'[p] = want[p] /\ said'[p] = said[p]
  BY <1>1 DEF TypeOK
<1>4. /\ CoReqsOnce(outgoing')
      /\ \A a, b \in asking' : a[1] = b[1] => a = b
      /\ CoReqs' \cap Asking' = {}
  BY <1>1, <1>2 DEF ServiceInv
<1>5. /\ \A p \in CoReqs' \cup Asking' : want'[p] # "idle" /\ verdict'[p] = "none"
      /\ \A p \in Request : want'[p] = "idle" => said'[p] = "none" /\ verdict'[p] = "none"
  BY <1>1, <1>2, <1>3, AskingOf DEF ServiceInv
<1>6. \A m \in Resps' : /\ want'[m.of] # "idle"
                        /\ m.of \notin CoReqs' \cup Asking'
                        /\ Reports(m.status, verdict'[m.of])
  BY <1>1, <1>2, <1>3, RespOf DEF ServiceInv
<1>7. \A p \in Request :
        said'[p] \notin {"none", "ErrRequestTimeout", "ErrInternel"}
          => p \notin CoReqs' \cup Asking'
  BY <1>2, <1>3 DEF ServiceInv
<1>8. DeviceTold'
  BY <1>1, <1>3 DEF ServiceInv, DeviceTold
<1> QED  BY <1>4, <1>5, <1>6, <1>7, <1>8 DEF ServiceInv

\* The server refuses: nobody is asked.
LEMMA RefusesCoReqStep ==
  ASSUME TypeOK, ServiceInv, NEW r \in Request, NEW status \in {"MethodNotAllowed", "NotFount"},
         ServerRefuses(r, status)
  PROVE  ServiceInv'
<1>1. /\ outgoing # <<>> /\ Head(outgoing) = CoReq(r) /\ outgoing' = Tail(outgoing)
      /\ toDevice' = Append(toDevice, Resp(r, status))
      /\ UNCHANGED services
  BY DEF ServerRefuses, ServerHears, ServerReads
<1> USE DEF services
<1>2. /\ r \in CoReqs /\ r \notin CoReqs' /\ CoReqs' \subseteq CoReqs
      /\ CoReqsOnce(outgoing') /\ Asking' = Asking
  BY <1>1, QueueTail DEF ServiceInv, CoReqs, CoReqsIn, Asking, TypeOK
<1>3. Resps' = Resps \cup {Resp(r, status)}
  <2>1. status \in StatusCode
    BY DEF StatusCode
  <2> QED  BY <1>1, <2>1, QueueAppend DEF Resps, TypeOK
<1>4. want[r] # "idle" /\ verdict[r] = "none" /\ r \notin Asking
  BY <1>2 DEF ServiceInv
<1>5. Reports(status, verdict[r]) /\ Resp(r, status).of = r /\ Resp(r, status).status = status
  BY <1>4 DEF Reports, Resp
<1>6. \A m \in Resps' : /\ want'[m.of] # "idle"
                        /\ m.of \notin CoReqs' \cup Asking'
                        /\ Reports(m.status, verdict'[m.of])
  BY <1>1, <1>2, <1>3, <1>4, <1>5 DEF ServiceInv
<1>7. DeviceTold'
  BY <1>1 DEF ServiceInv, DeviceTold
<1> QED  BY <1>1, <1>2, <1>6, <1>7 DEF ServiceInv

\* The server asks a service.
LEMMA AsksStep ==
  ASSUME TypeOK, ServiceInv, NEW r \in Request, ServerAsks(r)
  PROVE  ServiceInv'
<1>1. /\ outgoing # <<>> /\ Head(outgoing) = CoReq(r) /\ outgoing' = Tail(outgoing)
      /\ asking' = asking \cup {<<r, session>>}
      /\ UNCHANGED <<toDevice, want, said, verdict>>
  BY DEF ServerAsks, ServerHears, ServerReads
<1>2. /\ r \in CoReqs /\ r \notin CoReqs' /\ CoReqs' \subseteq CoReqs
      /\ CoReqsOnce(outgoing')
  BY <1>1, QueueTail DEF ServiceInv, CoReqs, CoReqsIn, TypeOK
<1>3. Asking' = Asking \cup {r} /\ Resps' = Resps
  <2>1. Asking' \subseteq Asking \cup {r}
    BY <1>1 DEF Asking
  <2>2. Asking \subseteq Asking'
    BY <1>1 DEF Asking
  <2>3. <<r, session>> \in asking' /\ <<r, session>>[1] = r
    BY <1>1
  <2>4. r \in Asking'
    BY <2>3 DEF Asking
  <2>5. Resps' = Resps
    BY <1>1 DEF Resps
  <2> QED  BY <2>1, <2>2, <2>4, <2>5
<1>4. /\ want[r] # "idle" /\ verdict[r] = "none" /\ r \notin Asking
      /\ \A m \in Resps : m.of # r
  BY <1>2 DEF ServiceInv
<1>5. \A a, b \in asking' : a[1] = b[1] => a = b
  BY <1>1, <1>4 DEF ServiceInv, Asking
<1>6. CoReqs' \cap Asking' = {}
  BY <1>2, <1>3 DEF ServiceInv
<1>7. /\ \A p \in CoReqs' \cup Asking' : want'[p] # "idle" /\ verdict'[p] = "none"
      /\ \A p \in Request : want'[p] = "idle" => said'[p] = "none" /\ verdict'[p] = "none"
  BY <1>1, <1>2, <1>3, <1>4 DEF ServiceInv
<1>8. \A m \in Resps' : /\ want'[m.of] # "idle"
                        /\ m.of \notin CoReqs' \cup Asking'
                        /\ Reports(m.status, verdict'[m.of])
  BY <1>1, <1>2, <1>3, <1>4 DEF ServiceInv
<1>9. \A p \in Request :
        said'[p] \notin {"none", "ErrRequestTimeout", "ErrInternel"}
          => p \notin CoReqs' \cup Asking'
  BY <1>1, <1>2, <1>3 DEF ServiceInv
<1>10. DeviceTold'
  BY <1>1 DEF ServiceInv, DeviceTold
<1> QED  BY <1>2, <1>5, <1>6, <1>7, <1>8, <1>9, <1>10 DEF ServiceInv

\* The service has answered, or the call to it has failed.
LEMMA AnswersStep ==
  ASSUME TypeOK, ServiceInv, NEW a \in asking, NEW outcome \in ServiceCode \cup {"failed"},
         NEW status \in StatusCode, ServerAnswers(a, outcome, status),
         \/ outcome \in ServiceCode /\ status = transToDeviceCode(outcome)
         \/ outcome = "failed" /\ status = "InternalServerError"
  PROVE  ServiceInv'
<1> DEFINE r == a[1]
<1>1. /\ asking' = asking \ {a}
      /\ verdict' = [verdict EXCEPT ![r] = outcome]
      /\ toDevice' \in {toDevice, Append(toDevice, Resp(r, status))}
      /\ UNCHANGED <<outgoing, want, said>>
  BY DEF ServerAnswers
<1>2. r \in Request /\ r \in Asking
  BY DEF TypeOK, Asking
<1>3. /\ want[r] # "idle" /\ r \notin CoReqs
      /\ said[r] \in {"none", "ErrRequestTimeout", "ErrInternel"}
      /\ \A m \in Resps : m.of # r
  BY <1>2 DEF ServiceInv
<1>4. r \notin Asking' /\ Asking' \subseteq Asking
  BY <1>1 DEF ServiceInv, Asking
<1>5. CoReqs' = CoReqs
  BY <1>1 DEF CoReqs
<1>6. verdict'[r] = outcome /\ \A p \in Request \ {r} : verdict'[p] = verdict[p]
  BY <1>1, <1>2 DEF TypeOK
<1>7. Resps' \subseteq Resps \cup {Resp(r, status)}
  <2>1. CASE toDevice' = toDevice
    BY <2>1 DEF Resps
  <2>2. CASE toDevice' = Append(toDevice, Resp(r, status))
    BY <1>2, <2>2, QueueAppend DEF Resps, TypeOK
  <2> QED  BY <1>1, <2>1, <2>2
<1>8. Reports(status, outcome) /\ Resp(r, status).of = r /\ Resp(r, status).status = status
  BY DEF Reports, Resp
<1> HIDE DEF r
<1>9. /\ CoReqsOnce(outgoing')
      /\ \A b, c \in asking' : b[1] = c[1] => b = c
      /\ CoReqs' \cap Asking' = {}
  BY <1>1, <1>4, <1>5 DEF ServiceInv
<1>10. /\ \A p \in CoReqs' \cup Asking' : want'[p] # "idle" /\ verdict'[p] = "none"
       /\ \A p \in Request : want'[p] = "idle" => said'[p] = "none" /\ verdict'[p] = "none"
  BY <1>1, <1>3, <1>4, <1>5, <1>6, AskingOf DEF ServiceInv
<1>11. \A m \in Resps' : /\ want'[m.of] # "idle"
                         /\ m.of \notin CoReqs' \cup Asking'
                         /\ Reports(m.status, verdict'[m.of])
  BY <1>1, <1>3, <1>4, <1>5, <1>6, <1>7, <1>8, RespOf DEF ServiceInv
<1>12. /\ \A p \in Request :
            said'[p] \notin {"none", "ErrRequestTimeout", "ErrInternel"}
              => p \notin CoReqs' \cup Asking'
  BY <1>1, <1>4, <1>5 DEF ServiceInv
<1>13. DeviceTold'
  <2>1. ASSUME NEW p \in Request, p # r PROVE DeviceTold!(p)'
    BY <1>1, <1>6, <2>1 DEF ServiceInv, DeviceTold
  <2>2. DeviceTold!(r)'
    BY <1>1, <1>3
  <2> QED  BY <2>1, <2>2 DEF DeviceTold
<1> QED  BY <1>9, <1>10, <1>11, <1>12, <1>13 DEF ServiceInv

\* A response reaches its caller.
LEMMA RespStep ==
  ASSUME TypeOK, ServiceInv, NEW r \in Request, RespArrives(r)
  PROVE  ServiceInv'
<1> DEFINE m == Head(toDevice)
<1> DEFINE error == transToSDKError(m.status)
<1>1. /\ toDevice # <<>> /\ toDevice' = Tail(toDevice) /\ m.type = "resp" /\ m.of = r
      /\ want' = [want EXCEPT ![r] = "ended"] /\ said' = [said EXCEPT ![r] = error]
      /\ UNCHANGED <<outgoing, asking, verdict>>
  BY DEF RespArrives, DeviceReadsResp, DeviceReads, Says
<1>2. m \in Resps /\ Resps' \subseteq Resps
  BY <1>1, QueueTail DEF Resps, OfType, TypeOK
<1>3. r \notin CoReqs \cup Asking /\ Reports(m.status, verdict[r])
  BY <1>1, <1>2 DEF ServiceInv
<1>4. CoReqs' = CoReqs /\ Asking' = Asking
  BY <1>1 DEF CoReqs, Asking
<1> HIDE DEF m
<1>5. /\ want'[r] = "ended" /\ said'[r] = error
      /\ \A p \in Request \ {r} : want'[p] = want[p] /\ said'[p] = said[p]
  BY <1>1 DEF TypeOK
<1>6. /\ CoReqsOnce(outgoing')
      /\ \A b, c \in asking' : b[1] = c[1] => b = c
      /\ CoReqs' \cap Asking' = {}
  BY <1>1, <1>4 DEF ServiceInv
<1> HIDE DEF error
<1>7. /\ \A p \in CoReqs' \cup Asking' : want'[p] # "idle" /\ verdict'[p] = "none"
      /\ \A p \in Request : want'[p] = "idle" => said'[p] = "none" /\ verdict'[p] = "none"
  BY <1>1, <1>4, <1>5, AskingOf DEF ServiceInv
<1>8. \A n \in Resps' : /\ want'[n.of] # "idle"
                        /\ n.of \notin CoReqs' \cup Asking'
                        /\ Reports(n.status, verdict'[n.of])
  BY <1>1, <1>2, <1>4, <1>5, RespOf DEF ServiceInv
<1>9. \A p \in Request :
        said'[p] \notin {"none", "ErrRequestTimeout", "ErrInternel"}
          => p \notin CoReqs' \cup Asking'
  BY <1>3, <1>4, <1>5 DEF ServiceInv
<1>10. DeviceTold'
  <2>1. ASSUME NEW p \in Request, p # r PROVE DeviceTold!(p)'
    BY <1>1, <1>5, <2>1 DEF ServiceInv, DeviceTold
  <2>2. DeviceTold!(r)'
    BY <1>1, <1>3, <1>5, ReportsSaid DEF error
  <2> QED  BY <2>1, <2>2 DEF DeviceTold
<1> QED  BY <1>6, <1>7, <1>8, <1>9, <1>10 DEF ServiceInv

LEMMA ServiceStep ==
  ASSUME TypeOK, ServiceInv, [Next]_vars
  PROVE  ServiceInv'
<1>1. Silent => ServiceInv'
  BY SilentStep
<1> QED
  BY <1>1, NextCases, OthersAreSilent, CallsStep, GivesUpStep, RefusesCoReqStep, AsksStep,
     AnswersStep, RespStep

-----------------------------------------------------------------------------
\* The inductive invariant.
IInv == TypeOK /\ UserInv /\ ServiceInv

LEMMA InitIInv == Init => IInv
<1> SUFFICES ASSUME Init PROVE IInv
  OBVIOUS
<1> USE DEF Init
<1>1. TypeOK
  <2>1. NoReq \in Req
    BY DEF NoReq, Req
  <2> QED  BY <2>1, QueueEmpty DEF TypeOK
<1>2. /\ Asked = {} /\ Answers = {} /\ Frames = {} /\ AsksOnce(toDevice)
      /\ CoReqs = {} /\ Resps = {} /\ CoReqsOnce(outgoing) /\ Asking = {}
  BY QueueEmpty DEF Asked, Answers, Frames, CoReqs, Resps, Asking
<1>3. \A u \in User : ~Sent(u) /\ req[u].method = "none" /\ req[u].session = 0
  BY DEF Sent, NoReq
<1>4. CallInv /\ IdInv /\ FlowInv /\ HeardInv /\ UserTold /\ CrossedIsStale
  BY <1>2, <1>3, NobodyAssumption
     DEF CallInv, IdInv, FlowInv, HeardInv, UserTold, CrossedIsStale
<1>5. ServiceInv
  BY <1>2 DEF ServiceInv, DeviceTold
<1> QED  BY <1>1, <1>4, <1>5 DEF IInv, UserInv

LEMMA NextIInv == IInv /\ [Next]_vars => IInv'
  BY TypeStep, UserStep, ServiceStep DEF IInv

\* The strengthening holds in every reachable state.
THEOREM Invariance == Spec => []IInv
  BY InitIInv, NextIInv, PTL DEF Spec

\* Every variable keeps its type.
THEOREM TypeCorrect == Spec => []TypeOK
<1>1. IInv => TypeOK
  BY DEF IInv
<1> QED  BY <1>1, Invariance, PTL

\* Every code that Get, Post and ObGet of the access server return lets the user
\* conclude what UserTold says: what has run on the device, and what never will.
THEOREM UsersAreTold == Spec => []UserTold
<1>1. IInv => UserTold
  BY DEF IInv, UserInv
<1> QED  BY <1>1, Invariance, PTL

\* Answers and notifications cross from one call to another only where a newer
\* session has counted its ids anew.
THEOREM CrossedAreStale == Spec => []CrossedIsStale
<1>1. IInv => CrossedIsStale
  BY DEF IInv, UserInv
<1> QED  BY <1>1, Invariance, PTL

\* An error of Get or Post of the device tells what the service has said.
THEOREM DevicesAreTold == Spec => []DeviceTold
<1>1. IInv => DeviceTold
  BY DEF IInv, ServiceInv
<1> QED  BY <1>1, Invariance, PTL

-----------------------------------------------------------------------------
(* What is settled stays settled.                                           *)

\* Only a handler whose request is still on its way can start.
LEMMA RunningStep ==
  ASSUME IInv, [Next]_vars, NEW u \in User, Done(u) \/ ~Sent(u), ran'[u] = "running"
  PROVE  ran[u] = "running"
<1> USE DEF IInv, TypeOK
<1>1. UNCHANGED ran \/ \E v \in User : DeviceHandles(v) \/ HandlerAnswers(v) \/ HandlerFails(v)
  BY NextCases DEF Registers, Connects, Disconnects, AnswerUnknown, UserFindsNobody,
         UserTooLarge, UserTooMany, UserLeavesRest, UserSends, UserTimesOut, StreamSessionDone,
         StreamLeaves, StreamReads, DeviceRefuses, ObserveNotifies, ObserveGivesUp,
         AnswerArrives, FrameArrives, FrameUnknown, DeviceCalls, DeviceGivesUp, ServerRefuses,
         ServerAsks, ServerAnswers, RespArrives, RespUnknown, vars
<1>2. ASSUME NEW v \in User, DeviceHandles(v) PROVE ran[u] = "running"
  <2>1. ran' = [ran EXCEPT ![v] = "running"]
    BY <1>2 DEF DeviceHandles
  <2>2. v \in Asked
    BY <1>2, QueueTail DEF DeviceHandles, DeviceHears, DeviceReads, Asked, AskedIn
  <2>3. u # v
    BY <2>2 DEF Done, UserInv, CallInv
  <2> QED  BY <2>1, <2>3
<1>3. ASSUME NEW v \in User, HandlerAnswers(v) \/ HandlerFails(v) PROVE ran[u] = "running"
  BY <1>3 DEF HandlerAnswers, HandlerFails
<1> QED  BY <1>1, <1>2, <1>3

\* Only a service that is being asked passes a verdict.
LEMMA VerdictStep ==
  ASSUME IInv, [Next]_vars, NEW r \in Request, r \notin Asking
  PROVE  verdict'[r] = verdict[r]
<1> USE DEF IInv, TypeOK
<1>1. \/ UNCHANGED verdict
      \/ \E a \in asking, outcome \in ServiceCode \cup {"failed"}, status \in StatusCode :
           ServerAnswers(a, outcome, status)
  BY NextCases, OthersAreSilent DEF Silent, services, DeviceCalls, DeviceGivesUp,
         ServerRefuses, ServerAsks, RespArrives
<1>2. ASSUME NEW a \in asking, NEW outcome, NEW status, ServerAnswers(a, outcome, status)
      PROVE  verdict'[r] = verdict[r]
  <2>1. a[1] # r /\ a[1] \in Request
    BY DEF Asking
  <2> QED  BY <1>2, <2>1 DEF ServerAnswers
<1> QED  BY <1>1, <1>2

LEMMA SettledStep ==
  ASSUME IInv, [Next]_vars
  PROVE  /\ \A u \in User :
              call[u] = "ended" /\ told[u] \notin {"RequestTimeout", "DeviceIDTimeout"}
                /\ heard[u] \in {u, Nobody} => (ran'[u] = "running" => ran[u] = "running")
         /\ \A r \in Request :
              said[r] \notin {"none", "ErrRequestTimeout", "ErrInternel"}
                => verdict'[r] = verdict[r]
<1>1. ASSUME NEW u \in User, call[u] = "ended",
             told[u] \notin {"RequestTimeout", "DeviceIDTimeout"},
             heard[u] \in {u, Nobody}, ran'[u] = "running"
      PROVE  ran[u] = "running"
  <2>1. Done(u) \/ ~Sent(u)
    BY <1>1 DEF IInv, UserInv, CallInv, HeardInv
  <2> QED  BY <1>1, <2>1, RunningStep
<1>2. ASSUME NEW r \in Request, said[r] \notin {"none", "ErrRequestTimeout", "ErrInternel"}
      PROVE  verdict'[r] = verdict[r]
  <2>1. r \notin Asking
    BY <1>2 DEF IInv, ServiceInv
  <2> QED  BY <2>1, VerdictStep
<1> QED  BY <1>1, <1>2

\* Whoever is told more than a timeout or a cancellation may rely on it: no
\* handler of the device starts for the call any more, no service is asked for it.
THEOREM SettledHolds == Spec => Settled
  BY SettledStep, Invariance, PTL DEF Spec, Settled
=============================================================================

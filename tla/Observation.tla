----------------------------- MODULE Observation -----------------------------
(***************************************************************************)
(* Observations: a user watches a resource of a device through the stream  *)
(* of ObGet (src/internal/deviceaccess/access_server: apprpc/apprpc.go     *)
(* ObGet and obGetNotifyServe, devicetcp/session.go CreateObserva,         *)
(* DestroyObserva, ObGetEstablish and receiveObNotifyReq; on the device    *)
(* src/internal/deviceaccess/access_client/devicesession/devicesession.go  *)
(* obGetReqHandler and observe).                                           *)
(*                                                                         *)
(* The ObGet handlers of one session share its tcpIncomming, which puts    *)
(* every notification into the NotifyChan of its observation, capacity 1,  *)
(* and blocks while this one is full.  The device sends the next           *)
(* notification of an observation when the last one has been answered.     *)
(*                                                                         *)
(* An observer is one call of ObGet and stands for its observation id:     *)
(* fewer than 2^16 observations are created on the session.  outgoingChan  *)
(* and the socket are one queue each way.  That of the server may clog:    *)
(* full, of the messages of other handlers too, with nobody to empty it.   *)
(* CoRequest tells what header ids may do.  When the server panics,        *)
(* everything ends here.                                                   *)
(***************************************************************************)
EXTENDS Naturals, Sequences, FiniteSets

CONSTANTS
  Observer,         \* calls of ObGet
  ObservationsMax,  \* OBGET_OBSERVATIONS_MAX: 256 in the code
  MaxFrame,         \* bound: data frames of an observation
  MayClog           \* bound: whether outgoingChan clogs in this instance

ASSUME ObserverAssumption == IsFiniteSet(Observer)
ASSUME ObservationsMaxAssumption == ObservationsMax \in Nat
ASSUME MaxFrameAssumption == MaxFrame \in Nat
ASSUME MayClogAssumption == MayClog \in BOOLEAN

Terminate == 0           \* the frame with StatusCode_Terminate
Failure == MaxFrame + 1  \* a last frame made by the server: OFFLINE, TIMEOUT, an error
Data == 1 .. MaxFrame    \* frames with StatusCode_Continue

VARIABLES
  session,       \* "up", "ranged" (the observers were told), "closed" (its socket)
  incoming,      \* tcpIncomming: "read", "notify" (NotifyChan <- req), "exit", or "hung"
                 \* with an answer before the clogged outgoingChan
  held,          \* the notification in this send: <<observer, frame>>
  panicked,      \* the server process has crashed
  clogged,       \* outgoingChan is full and nobody empties it any more
  observaCount,  \* Session.observaCount
  observaStore,  \* Session.observaStore
  notifyChan,    \* Observa.NotifyChan
  chanClosed,    \* observers whose NotifyChan is closed
  doneChan,      \* observers with a token in SessionDoneChan
  handler,       \* handler[o]: where ObGet is
  respChan,      \* respChan[o]: the answer to the establishment
  pending,       \* pending[o]: the frame in stream.Send
  frameID,       \* Observa.FrameID
  stream,        \* history: stream[o]: the frames sent to the user
  gone,          \* observers whose user has gone: the stream context is done
  toDevice,      \* messages on their way to the device: <<kind, observer>>
  toServer,      \* messages on their way to the server: <<kind, observer, frame>>
  establishing,  \* the device between go observe and the answer: the observers
  observe,       \* observe[o]: where the goroutine observe of the device is
  produced,      \* produced[o]: data frames the device has sent
  finished,      \* observers whose data channel on the device is closed
  broken         \* the device has closed its end of the connection

sessionVars == <<session, incoming, held, panicked, clogged>>
storeVars == <<observaCount, observaStore, chanClosed>>
userVars == <<handler, pending, frameID, stream>>
deviceVars == <<establishing, observe, produced, finished, broken>>
vars == <<sessionVars, storeVars, userVars, notifyChan, doneChan, respChan, gone,
          toDevice, toServer, deviceVars>>

Init ==
  /\ session = "up"
  /\ incoming = "read"
  /\ held = <<>>
  /\ panicked = FALSE
  /\ clogged = FALSE
  /\ observaCount = 0
  /\ observaStore = {}
  /\ notifyChan = [o \in Observer |-> <<>>]
  /\ chanClosed = {}
  /\ doneChan = {}
  /\ handler = [o \in Observer |-> "idle"]
  /\ respChan = [o \in Observer |-> "empty"]
  /\ pending = [o \in Observer |-> 0]
  /\ frameID = [o \in Observer |-> 0]
  /\ stream = [o \in Observer |-> <<>>]
  /\ gone = {}
  /\ toDevice = <<>>
  /\ toServer = <<>>
  /\ establishing = {}
  /\ observe = [o \in Observer |-> "none"]
  /\ produced = [o \in Observer |-> 0]
  /\ finished = {}
  /\ broken = FALSE

-----------------------------------------------------------------------------
(* ObGet.                                                                   *)

HandlerMoves(o, from, to) ==
  /\ ~panicked
  /\ handler[o] = from
  /\ handler' = [handler EXCEPT ![o] = to]
  /\ UNCHANGED <<sessionVars, toServer, gone, deviceVars>>

\* The stream gets frame f.
Sends(o, f) == pending' = [pending EXCEPT ![o] = f]

\* sessions.Get finds the session, and the data fit.
HandlerBegins(o) ==
  /\ HandlerMoves(o, "idle", "check")
  /\ session = "up"
  /\ UNCHANGED <<storeVars, pending, frameID, stream, notifyChan, doneChan, respChan,
                 toDevice>>

\* CreateObserva looks at observaCount; TooManyObservations ends the RPC.
HandlerChecks(o) ==
  /\ HandlerMoves(o, "check", IF observaCount >= ObservationsMax THEN "ended" ELSE "create")
  /\ UNCHANGED <<storeVars, pending, frameID, stream, notifyChan, doneChan, respChan,
                 toDevice>>

\* The rest of CreateObserva.  Nothing keeps the count it has looked at.
HandlerCreates(o) ==
  /\ HandlerMoves(o, "create", "establish")
  /\ observaStore' = observaStore \cup {o}
  /\ observaCount' = observaCount + 1
  /\ UNCHANGED <<chanClosed, pending, frameID, stream, notifyChan, doneChan, respChan,
                 toDevice>>

\* sendObEstabReq: s.outgoingChan <- buf, neither with a timeout nor with a context.
HandlerEstablishes(o) ==
  /\ ~clogged
  /\ HandlerMoves(o, "establish", "wait")
  /\ toDevice' = Append(toDevice, <<"estab", o>>)
  /\ UNCHANGED <<storeVars, pending, frameID, stream, notifyChan, doneChan, respChan>>

\* receiveObEstabResp gets the answer: on to obGetNotifyServe, or to an error.
HandlerGetsResp(o) ==
  /\ \/ respChan[o] = "continue" /\ HandlerMoves(o, "wait", "serve") /\ UNCHANGED pending
     \/ respChan[o] = "refused" /\ HandlerMoves(o, "wait", "send") /\ Sends(o, Failure)
  /\ respChan' = [respChan EXCEPT ![o] = "empty"]
  /\ UNCHANGED <<storeVars, frameID, stream, notifyChan, doneChan, toDevice>>

\* Mutant: the error path returns before the deferred call is set up.
HandlerTimesOut_NoDestroy(o) ==
  /\ HandlerMoves(o, "wait", "ended")
  /\ UNCHANGED <<storeVars, pending, frameID, stream, notifyChan, doneChan, respChan,
                 toDevice>>

\* After 20 s, an answer in the channel or not; the key of sendIDStore is deleted
\* and the channel forgotten.
HandlerTimesOut(o) ==
  /\ HandlerMoves(o, "wait", "send")
  /\ Sends(o, Failure)
  /\ respChan' = [respChan EXCEPT ![o] = "empty"]
  /\ UNCHANGED <<storeVars, frameID, stream, notifyChan, doneChan, toDevice>>

\* Mutant: the stream ends without a word.
ServeSessionDone_Silent(o) ==
  /\ HandlerMoves(o, "serve", "destroy")
  /\ o \in doneChan
  /\ doneChan' = doneChan \ {o}
  /\ UNCHANGED <<storeVars, pending, frameID, stream, notifyChan, respChan, toDevice>>

\* case <-ob.SessionDoneChan: the last frame says CODE_DEVICEID_OFFLINE.
ServeSessionDone(o) ==
  /\ HandlerMoves(o, "serve", "send")
  /\ o \in doneChan
  /\ doneChan' = doneChan \ {o}
  /\ Sends(o, Failure)
  /\ UNCHANGED <<storeVars, frameID, stream, notifyChan, respChan, toDevice>>

\* case <-stream.Context().Done()
ServeUserGone(o) ==
  /\ HandlerMoves(o, "serve", "destroy")
  /\ o \in gone
  /\ UNCHANGED <<storeVars, pending, frameID, stream, notifyChan, doneChan, respChan,
                 toDevice>>

\* case notifyReq, ok := <-ob.NotifyChan; only the handler itself closes it.
ServeNotify(o) ==
  /\ HandlerMoves(o, "serve", "send")
  /\ notifyChan[o] # <<>>
  /\ Sends(o, Head(notifyChan[o]))
  /\ notifyChan' = [notifyChan EXCEPT ![o] = Tail(@)]
  /\ UNCHANGED <<storeVars, frameID, stream, doneChan, respChan, toDevice>>

\* stream.Send returns, its error ignored; only a frame that continues goes on.
HandlerSent(o) ==
  LET f == pending[o] IN
  /\ HandlerMoves(o, "send", IF f \in Data THEN "serve" ELSE "destroy")
  /\ stream' = IF o \in gone THEN stream
               ELSE [stream EXCEPT ![o] = Append(@, <<frameID[o], f>>)]
  /\ frameID' = [frameID EXCEPT ![o] = IF f \in Data THEN @ + 1 ELSE @]
  /\ pending' = [pending EXCEPT ![o] = 0]
  /\ UNCHANGED <<storeVars, notifyChan, doneChan, respChan, toDevice>>

\* Mutant: NotifyChan stays open.
HandlerDestroys_NoClose(o) ==
  /\ HandlerMoves(o, "destroy", "ended")
  /\ observaStore' = observaStore \ {o}
  /\ observaCount' = observaCount - 1
  /\ UNCHANGED <<chanClosed, pending, frameID, stream, notifyChan, doneChan, respChan,
                 toDevice>>

\* The deferred DestroyObserva.  Nobody receives from the two channels any more.
HandlerDestroys(o) ==
  /\ HandlerMoves(o, "destroy", "ended")
  /\ observaStore' = observaStore \ {o}
  /\ chanClosed' = chanClosed \cup {o}
  /\ observaCount' = observaCount - 1
  /\ notifyChan' = [notifyChan EXCEPT ![o] = <<>>]
  /\ doneChan' = doneChan \ {o}
  /\ UNCHANGED <<pending, frameID, stream, respChan, toDevice>>

\* The user cancels the stream or goes away.  Who has gone earlier is noticed
\* here too.
UserGoes(o) ==
  /\ ~panicked
  /\ handler[o] \in {"serve", "send"}
  /\ o \notin gone
  /\ gone' = gone \cup {o}
  /\ UNCHANGED <<sessionVars, storeVars, userVars, notifyChan, doneChan, respChan,
                 toDevice, toServer, deviceVars>>

-----------------------------------------------------------------------------
(* The session: tcpIncomming, and the end of serve.                         *)

\* The message m = <<kind, observer, frame>> is read.
IncomingReads(kind, o, f) ==
  /\ ~panicked
  /\ incoming = "read"
  /\ session # "closed"
  /\ toServer # <<>>
  /\ Head(toServer) = <<kind, o, f>>
  /\ toServer' = Tail(toServer)
  /\ UNCHANGED <<session, panicked, clogged, storeVars, userVars, doneChan, gone, deviceVars>>

\* serverSendRespone finds the handler that waits, f tells what it gets.
IncomingEstabResp(o, f) ==
  /\ handler[o] = "wait"
  /\ IncomingReads("estab", o, f)
  /\ respChan' = [respChan EXCEPT ![o] = IF f = Terminate THEN "refused" ELSE "continue"]
  /\ UNCHANGED <<incoming, held, notifyChan, toDevice>>

\* The handler has given up: ErrHeaderIDNotExist.
IncomingEstabLate(o, f) ==
  /\ handler[o] # "wait"
  /\ IncomingReads("estab", o, f)
  /\ incoming' = "exit"
  /\ UNCHANGED <<held, respChan, notifyChan, toDevice>>

\* Mutant: the observation id of the message is not looked at.
IncomingNotify_Any(o, f) ==
  /\ o \in observaStore
  /\ IncomingReads("notify", o, f)
  /\ incoming' = "notify"
  /\ \E x \in observaStore : held' = <<x, f>>
  /\ UNCHANGED <<respChan, notifyChan, toDevice>>

\* receiveObNotifyReq loads the observation; its handler may still destroy it.
IncomingNotify(o, f) ==
  /\ o \in observaStore
  /\ IncomingReads("notify", o, f)
  /\ incoming' = "notify"
  /\ held' = <<o, f>>
  /\ UNCHANGED <<respChan, notifyChan, toDevice>>

\* sendObNotifyResp: s.outgoingChan <- buf
Replies(kind, o) ==
  IF clogged
  THEN incoming' = "hung" /\ UNCHANGED toDevice
  ELSE incoming' = "read" /\ toDevice' = Append(toDevice, <<kind, o>>)


\* No such observation: the answer is Terminate.
IncomingNotifyGone(o, f) ==
  /\ o \notin observaStore
  /\ IncomingReads("notify", o, f)
  /\ Replies("terminate", o)
  /\ UNCHANGED <<held, respChan, notifyChan>>

\* The observation of held gets queue q, and the device its answer.
Notifies(q) ==
  /\ ~panicked
  /\ incoming = "notify"
  /\ held[1] \notin chanClosed
  /\ notifyChan' = [notifyChan EXCEPT ![held[1]] = q]
  /\ Replies("continue", held[1])
  /\ held' = <<>>
  /\ UNCHANGED <<session, panicked, clogged, storeVars, userVars, doneChan, respChan, gone,
                 toServer, deviceVars>>

\* Mutant: a send that does not block and drops what finds no room.
IncomingNotified_Drops ==
  /\ held # <<>>
  /\ Notifies(IF notifyChan[held[1]] = <<>> THEN <<held[2]>> ELSE notifyChan[held[1]])

\* NotifyChan <- req goes through, and sendObNotifyResp says Continue.
IncomingNotified ==
  /\ held # <<>>
  /\ notifyChan[held[1]] = <<>>
  /\ Notifies(<<held[2]>>)

\* NotifyChan was closed since it was loaded: a send to it panics, the one that
\* is blocked in it too.
IncomingPanics ==
  /\ ~panicked
  /\ incoming = "notify"
  /\ held[1] \in chanClosed
  /\ panicked' = TRUE
  /\ UNCHANGED <<session, incoming, held, clogged, storeVars, userVars, notifyChan, doneChan,
                 respChan, gone, toDevice, toServer, deviceVars>>

\* outgoingChan is full, and tcpOutgoing has ended or is in a write that never does:
\* what is still in it does not get to the device.
OutgoingClogs ==
  /\ MayClog
  /\ ~panicked
  /\ ~clogged
  /\ clogged' = TRUE
  /\ \E n \in 0 .. Len(toDevice) : toDevice' = SubSeq(toDevice, 1, n)
  /\ UNCHANGED <<session, incoming, held, panicked, storeVars, userVars, notifyChan, doneChan,
                 respChan, gone, toServer, deviceVars>>

\* Mutant: the observers are not told.
SessionDone_NoRange ==
  /\ ~panicked
  /\ session = "up"
  /\ session' = "ranged"
  /\ UNCHANGED <<incoming, held, panicked, clogged, storeVars, userVars, notifyChan, doneChan,
                 respChan, gone, toDevice, toServer, deviceVars>>

\* serve returns for any reason: SessionDoneChan <- of every observation.
SessionDone ==
  /\ ~panicked
  /\ session = "up"
  /\ session' = "ranged"
  /\ doneChan' = doneChan \cup observaStore
  /\ UNCHANGED <<incoming, held, panicked, clogged, storeVars, userVars, notifyChan, respChan,
                 gone, toDevice, toServer, deviceVars>>

\* s.conn.Close(): what is under way is lost.
SessionCloses ==
  /\ ~panicked
  /\ session = "ranged"
  /\ session' = "closed"
  /\ toDevice' = <<>>
  /\ toServer' = <<>>
  /\ UNCHANGED <<incoming, held, panicked, clogged, storeVars, userVars, notifyChan, doneChan,
                 respChan, gone, deviceVars>>

-----------------------------------------------------------------------------
(* The device.                                                              *)

\* The device reads a message and may put one of its own on the way.
DeviceReads(kind, o, answers) ==
  /\ ~panicked
  /\ ~broken /\ session # "closed"
  /\ establishing = {}
  /\ toDevice # <<>>
  /\ Head(toDevice) = <<kind, o>>
  /\ toDevice' = Tail(toDevice)
  /\ toServer' = toServer \o answers
  /\ UNCHANGED <<sessionVars, storeVars, userVars, notifyChan, doneChan, respChan, gone>>

\* obGetReqHandler without a handler for the uri: StatusCode_NotFount.
DeviceRefuses(o) ==
  /\ DeviceReads("estab", o, <<<<"estab", o, Terminate>>>>)
  /\ UNCHANGED deviceVars

\* The registered handler fails: nothing is answered, the connection is closed.
DeviceFails(o) ==
  /\ DeviceReads("estab", o, <<>>)
  /\ broken' = TRUE
  /\ UNCHANGED <<establishing, observe, produced, finished>>

\* go s.observe(...), before the answer is queued.
DeviceObserves(o) ==
  /\ DeviceReads("estab", o, <<>>)
  /\ establishing' = {o}
  /\ observe' = [observe EXCEPT ![o] = "next"]
  /\ UNCHANGED <<produced, finished, broken>>

DevicePuts(messages) ==
  /\ ~panicked
  /\ toServer' = IF session = "closed" THEN toServer ELSE toServer \o messages
  /\ UNCHANGED <<sessionVars, storeVars, userVars, notifyChan, doneChan, respChan, gone,
                 toDevice, broken>>

\* s.outgoingChan <- respBuf: StatusCode_Continue.
DeviceEstablished(o) ==
  /\ o \in establishing
  /\ establishing' = {}
  /\ DevicePuts(<<<<"estab", o, 1>>>>)
  /\ UNCHANGED <<observe, produced, finished>>

\* observe takes the next data and sends it.  Frames nobody is there to count
\* any more are not numbered further.
ObserveSends(o) ==
  LET k == IF produced[o] < MaxFrame THEN produced[o] + 1 ELSE MaxFrame IN
  /\ observe[o] = "next"
  /\ o \notin finished
  /\ produced[o] < MaxFrame \/ handler[o] = "ended"
  /\ observe' = [observe EXCEPT ![o] = "wait"]
  /\ produced' = [produced EXCEPT ![o] = k]
  /\ DevicePuts(<<<<"notify", o, k>>>>)
  /\ UNCHANGED <<establishing, finished>>

\* The data channel is closed: sendObNotifyReqTerminate.
ObserveFinishes(o) ==
  /\ observe[o] = "next"
  /\ observe' = [observe EXCEPT ![o] = "wait"]
  /\ finished' = finished \cup {o}
  /\ DevicePuts(<<<<"notify", o, Terminate>>>>)
  /\ UNCHANGED <<establishing, produced>>

\* receiveObNotifyResp: Continue goes on to the next data, if there is any.
ObserveGetsResp(o, kind) ==
  /\ observe[o] = "wait"
  /\ DeviceReads(kind, o, <<>>)
  /\ observe' = [observe EXCEPT ![o] =
                   IF kind = "continue" /\ o \notin finished THEN "next" ELSE "ended"]
  /\ UNCHANGED <<establishing, produced, finished, broken>>

\* ... or nothing for 20 s: observe gives up.
ObserveTimesOut(o) ==
  /\ observe[o] = "wait"
  /\ observe' = [observe EXCEPT ![o] = "ended"]
  /\ DevicePuts(<<>>)
  /\ UNCHANGED <<establishing, produced, finished>>

\* An answer that comes later finds no header id, and ends the connection.
ObserveRespLate(o, kind) ==
  /\ observe[o] = "ended"
  /\ DeviceReads(kind, o, <<>>)
  /\ broken' = TRUE
  /\ UNCHANGED <<establishing, observe, produced, finished>>

-----------------------------------------------------------------------------
HandlerNext(o) ==
  \/ HandlerChecks(o) \/ HandlerCreates(o) \/ HandlerEstablishes(o)
  \/ HandlerGetsResp(o) \/ HandlerTimesOut(o)
  \/ ServeSessionDone(o) \/ ServeUserGone(o) \/ ServeNotify(o)
  \/ HandlerDestroys(o)

IncomingNext ==
  \/ \E o \in Observer, f \in Data \cup {Terminate} :
       \/ IncomingEstabResp(o, f) \/ IncomingEstabLate(o, f)
       \/ IncomingNotify(o, f) \/ IncomingNotifyGone(o, f)
  \/ IncomingNotified \/ IncomingPanics

ObserveNext(o) ==
  \/ ObserveSends(o) \/ ObserveFinishes(o) \/ ObserveTimesOut(o)
  \/ \E kind \in {"continue", "terminate"} :
       ObserveGetsResp(o, kind) \/ ObserveRespLate(o, kind)

DeviceNext(o) ==
  \/ DeviceRefuses(o) \/ DeviceFails(o) \/ DeviceObserves(o) \/ DeviceEstablished(o)
  \/ ObserveNext(o)

Next ==
  \/ IncomingNext \/ OutgoingClogs \/ SessionDone \/ SessionCloses
  \/ \E o \in Observer :
       HandlerBegins(o) \/ HandlerNext(o) \/ HandlerSent(o) \/ UserGoes(o) \/ DeviceNext(o)

Spec == Init /\ [][Next]_vars

\* Goroutines go on and timers fire.  stream.Send may block as long as its user is
\* there and does not read.  serve may wait before its errChan for ever, see Stuck of
\* SessionServe; once it has left its select it comes to the Close.  Data of the device
\* keep coming.
Fairness ==
  /\ \A o \in Observer :
       /\ WF_vars(HandlerNext(o))
       /\ WF_vars(o \in gone /\ HandlerSent(o))
       /\ WF_vars(ObserveNext(o))
       /\ WF_vars(DeviceEstablished(o))
  /\ WF_vars(IncomingNext)
  /\ WF_vars(SessionCloses)

FairSpec == Spec /\ Fairness

-----------------------------------------------------------------------------
(* Properties.                                                              *)

\* observaCount is the number of handlers between CreateObserva and
\* DestroyObserva: no path through ObGet keeps a place for ever.
CountExact ==
  observaCount = Cardinality({o \in Observer :
    handler[o] \in {"establish", "wait", "serve", "send", "destroy"}})

\* A user who has not gone away learns how the stream ended.
StreamFinished ==
  \A o \in Observer :
    handler[o] \in {"destroy", "ended"} /\ o \notin gone /\ o \in chanClosed \cup observaStore
      => stream[o] # <<>> /\ stream[o][Len(stream[o])][2] \notin Data

\* The stream is an ObservedStream: nothing is lost, doubled or reordered between
\* observe on the device and the user, and Terminate comes last.
Stream == INSTANCE ObservedStream WITH
  sent <- produced,
  got <- stream,
  over <- {o \in Observer : handler[o] \in {"destroy", "ended"}}

ImplementsStream == Stream!Spec

\* The user neither takes the frame nor goes away, for ever.
UserStalls(o) == [](handler[o] = "send" /\ o \notin gone)

\* sendObEstabReq never returns.
Hangs(o) == handler[o] = "establish" /\ clogged

\* When the session ends, its observers end; those created after serve had told
\* everyone are left out, those whose user stalls, and those that hang before the
\* clogged outgoingChan.
ObserversEnd ==
  \A o \in Observer :
    session = "up" /\ handler[o] \in {"establish", "wait", "serve", "send"}
      ~> handler[o] = "ended" \/ panicked \/ [](session = "up") \/ UserStalls(o)
           \/ Hangs(o)


\* tcpIncomming does not stay blocked on the NotifyChan of an observer, unless its user
\* stalls.
IncomingFreed ==
  \A o \in Observer :
    incoming = "notify" /\ held[1] = o ~> incoming # "notify" \/ panicked \/ UserStalls(o)

-----------------------------------------------------------------------------
(* What the comments say, and the code does not do.                         *)

\* "observation ID not found, means observer not interesting, terminate
\* observation" (receiveObNotifyReq): a notification whose observer has gone away
\* is answered with Terminate, it does not crash the server.
GoneIsTerminated == ~panicked
=============================================================================

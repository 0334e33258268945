-------------------------- MODULE ObservationProofs --------------------------
(***************************************************************************)
(* For any number of observers, places and frames: the count of the        *)
(* observations is exact, a user who stays learns how the stream ended, and *)
(* the streams are those of ObservedStream.                                *)
(*                                                                         *)
(* The argument for the streams has three parts.  CycleInv: of every       *)
(* observation one notification is under way at a time, to the server, in  *)
(* the hands of tcpIncomming, or answered and not yet seen by the device.  *)
(* ChainInv, which needs it: as long as the user is there, the frames of   *)
(* the stream, the one in stream.Send, the one in NotifyChan and the one   *)
(* under way are, in this order, those the device has sent.  Every step    *)
(* then is a step of ObservedStream or changes nothing it speaks of.       *)
(***************************************************************************)
EXTENDS Observation, FiniteSetTheorems, SequenceTheorems, TLAPS

(* Types, and who is in the store.                                          *)

ToServer == {"estab", "notify"} \X Observer \X Nat
ToDevice == {"estab", "continue", "terminate"} \X Observer

SessionTypes ==
  /\ session \in {"up", "ranged", "closed"}
  /\ incoming \in {"read", "notify", "exit", "hung"}
  /\ incoming = "notify" => held \in Observer \X Nat
  /\ toServer \in Seq(ToServer) /\ toDevice \in Seq(ToDevice)

HandlerTypes ==
  /\ handler \in [Observer -> {"idle", "check", "create", "establish", "wait", "serve",
                              "send", "destroy", "ended"}]
  /\ pending \in [Observer -> Nat] /\ frameID \in [Observer -> Nat]
  /\ stream \in [Observer -> Seq(Nat \X Nat)]
  /\ notifyChan \in [Observer -> Seq(Nat)]
  /\ \A o \in Observer : Len(notifyChan[o]) <= 1

DeviceTypes ==
  /\ observe \in [Observer -> {"none", "next", "wait", "ended"}]
  /\ produced \in [Observer -> 0 .. MaxFrame]

Types == SessionTypes /\ HandlerTypes /\ DeviceTypes

\* An observation is in the store between CreateObserva and DestroyObserva, and its
\* channel is closed after that.
Created == {"establish", "wait", "serve", "send", "destroy"}
StoreInv ==
  /\ observaStore = {o \in Observer : handler[o] \in Created}
  /\ chanClosed \subseteq {o \in Observer : handler[o] = "ended"}

\* The messages of the model have their types.
LEMMA QueueTypes ==
  ASSUME NEW S, NEW q \in Seq(S), q # <<>>
  PROVE  Tail(q) \in Seq(S) /\ Head(q) \in S
  OBVIOUS

LEMMA MovesTypes ==
  ASSUME Types, NEW o \in Observer,
         NEW to \in {"check", "create", "establish", "wait", "serve", "send", "destroy", "ended"},
         \E from : HandlerMoves(o, from, to)
  PROVE  /\ handler' \in [Observer -> {"idle", "check", "create", "establish", "wait", "serve",
                                      "send", "destroy", "ended"}]
         /\ UNCHANGED <<session, incoming, held, toServer, observe, produced>>
  BY DEF Types, HandlerTypes, HandlerMoves, sessionVars, deviceVars

LEMMA TypesMoved ==
  ASSUME Types, NEW o \in Observer,
         NEW to \in {"check", "create", "establish", "wait", "serve", "send", "destroy", "ended"},
         \E from : HandlerMoves(o, from, to),
         pending' \in [Observer -> Nat], frameID' \in [Observer -> Nat],
         stream' \in [Observer -> Seq(Nat \X Nat)],
         notifyChan' \in [Observer -> Seq(Nat)], \A x \in Observer : Len(notifyChan'[x]) <= 1,
         toDevice' \in Seq(ToDevice)
  PROVE  Types'
<1>1. /\ handler' \in [Observer -> {"idle", "check", "create", "establish", "wait", "serve",
                                   "send", "destroy", "ended"}]
      /\ UNCHANGED <<session, incoming, held, toServer, observe, produced>>
  BY MovesTypes
<1>2. SessionTypes' /\ DeviceTypes'
  BY <1>1 DEF Types, SessionTypes, DeviceTypes
<1>3. HandlerTypes'
  BY <1>1 DEF HandlerTypes
<1>4. QED BY <1>2, <1>3 DEF Types

LEMMA TypesHandler ==
  ASSUME Types, NEW o \in Observer,
         HandlerBegins(o) \/ HandlerNext(o) \/ HandlerSent(o) \/ UserGoes(o)
  PROVE  Types'
<1>a. /\ pending \in [Observer -> Nat] /\ frameID \in [Observer -> Nat]
      /\ stream \in [Observer -> Seq(Nat \X Nat)]
      /\ notifyChan \in [Observer -> Seq(Nat)] /\ \A x \in Observer : Len(notifyChan[x]) <= 1
      /\ toDevice \in Seq(ToDevice)
  BY DEF Types, SessionTypes, HandlerTypes
<1>1. CASE HandlerBegins(o) \/ HandlerCreates(o) \/ ServeUserGone(o) \/ HandlerDestroys(o)
  <2>1. PICK to \in {"check", "establish", "destroy", "ended"} : \E from : HandlerMoves(o, from, to)
    BY <1>1, Zenon DEF HandlerBegins, HandlerCreates, ServeUserGone, HandlerDestroys
  <2>2. /\ UNCHANGED <<pending, frameID, stream, toDevice>>
        /\ notifyChan' = notifyChan \/ notifyChan' = [notifyChan EXCEPT ![o] = <<>>]
    BY <1>1, Zenon DEF HandlerBegins, HandlerCreates, ServeUserGone, HandlerDestroys
  <2>3. notifyChan' \in [Observer -> Seq(Nat)] /\ \A x \in Observer : Len(notifyChan'[x]) <= 1
    <3>1. CASE notifyChan' = notifyChan
      BY <1>a, <3>1
    <3>2. CASE notifyChan' = [notifyChan EXCEPT ![o] = <<>>]
      <4>1. <<>> \in Seq(Nat) /\ Len(<<>>) = 0
        OBVIOUS
      <4>2. QED BY <1>a, <3>2, <4>1
    <3>3. QED BY <2>2, <3>1, <3>2
  <2>4. QED BY <1>a, <2>1, <2>2, <2>3, TypesMoved
<1>2. CASE HandlerChecks(o)
  <2>1. PICK to \in {"ended", "create"} : \E from : HandlerMoves(o, from, to)
    BY <1>2, Zenon DEF HandlerChecks
  <2>2. UNCHANGED <<pending, frameID, stream, toDevice, notifyChan>>
    BY <1>2 DEF HandlerChecks
  <2>3. QED BY <1>a, <2>1, <2>2, TypesMoved
<1>3. CASE HandlerEstablishes(o)
  <2>1. <<"estab", o>> \in ToDevice
    BY DEF ToDevice
  <2>2. \E from : HandlerMoves(o, from, "wait")
    BY <1>3, Zenon DEF HandlerEstablishes
  <2>3. /\ UNCHANGED <<pending, frameID, stream, notifyChan>>
        /\ toDevice' = Append(toDevice, <<"estab", o>>)
    BY <1>3 DEF HandlerEstablishes
  <2>4. toDevice' \in Seq(ToDevice)
    BY <1>a, <2>1, <2>3
  <2>5. QED BY <1>a, <2>2, <2>3, <2>4, TypesMoved
<1>4. CASE HandlerGetsResp(o) \/ HandlerTimesOut(o) \/ ServeSessionDone(o)
  <2>1. PICK to \in {"serve", "send"} : \E from : HandlerMoves(o, from, to)
    BY <1>4, Zenon DEF HandlerGetsResp, HandlerTimesOut, ServeSessionDone
  <2>2. /\ UNCHANGED <<frameID, stream, toDevice, notifyChan>>
        /\ pending' = pending \/ pending' = [pending EXCEPT ![o] = Failure]
    BY <1>4, Zenon DEF HandlerGetsResp, HandlerTimesOut, ServeSessionDone, Sends
  <2>3. Failure \in Nat
    BY MaxFrameAssumption DEF Failure
  <2>4. pending' \in [Observer -> Nat]
    BY <1>a, <2>2, <2>3
  <2>5. QED BY <1>a, <2>1, <2>2, <2>4, TypesMoved
<1>5. CASE ServeNotify(o)
  <2>1. \E from : HandlerMoves(o, from, "send")
    BY <1>5, Zenon DEF ServeNotify
  <2>2. notifyChan[o] # <<>> /\ notifyChan[o] \in Seq(Nat) /\ Len(notifyChan[o]) <= 1
    BY <1>5, <1>a DEF ServeNotify
  <2>3. /\ Head(notifyChan[o]) \in Nat /\ Tail(notifyChan[o]) \in Seq(Nat)
        /\ Len(Tail(notifyChan[o])) <= 1
    BY <2>2
  <2>4. /\ pending' = [pending EXCEPT ![o] = Head(notifyChan[o])]
        /\ notifyChan' = [notifyChan EXCEPT ![o] = Tail(notifyChan[o])]
        /\ UNCHANGED <<frameID, stream, toDevice>>
    BY <1>5 DEF ServeNotify, Sends
  <2>5. pending' \in [Observer -> Nat]
    BY <1>a, <2>3, <2>4
  <2>6. notifyChan' \in [Observer -> Seq(Nat)] /\ \A x \in Observer : Len(notifyChan'[x]) <= 1
    BY <1>a, <2>3, <2>4
  <2>7. QED BY <1>a, <2>1, <2>4, <2>5, <2>6, TypesMoved
<1>6. CASE HandlerSent(o)
  <2>1. PICK to \in {"serve", "destroy"} : \E from : HandlerMoves(o, from, to)
    BY <1>6, Zenon DEF HandlerSent
  <2>2. Append(stream[o], <<frameID[o], pending[o]>>) \in Seq(Nat \X Nat)
    BY <1>a
  <2>3. PICK n : /\ n = IF pending[o] \in Data THEN frameID[o] + 1 ELSE frameID[o]
                 /\ frameID' = [frameID EXCEPT ![o] = n]
    BY <1>6 DEF HandlerSent
  <2>4. /\ stream' = stream
           \/ stream' = [stream EXCEPT ![o] = Append(stream[o], <<frameID[o], pending[o]>>)]
        /\ pending' = [pending EXCEPT ![o] = 0] /\ UNCHANGED <<notifyChan, toDevice>>
    BY <1>6 DEF HandlerSent
  <2>5. stream' \in [Observer -> Seq(Nat \X Nat)]
    BY <1>a, <2>2, <2>4
  <2>6. n \in Nat
    BY <1>a, <2>3
  <2>7. frameID' \in [Observer -> Nat] /\ pending' \in [Observer -> Nat]
    BY <1>a, <2>3, <2>4, <2>6
  <2>8. /\ notifyChan' \in [Observer -> Seq(Nat)] /\ \A x \in Observer : Len(notifyChan'[x]) <= 1
        /\ toDevice' \in Seq(ToDevice)
    BY <1>a, <2>4
  <2>9. QED BY <2>1, <2>5, <2>7, <2>8, TypesMoved, Zenon
<1>7. CASE UserGoes(o)
  BY <1>7 DEF UserGoes, sessionVars, storeVars, userVars, deviceVars, Types, SessionTypes,
     HandlerTypes, DeviceTypes
<1>8. QED
  BY <1>1, <1>2, <1>3, <1>4, <1>5, <1>6, <1>7, Zenon DEF HandlerNext

\* tcpIncomming goes on or hangs with its answer.
LEMMA ReplyPuts ==
  ASSUME NEW kind, NEW o, Replies(kind, o)
  PROVE  /\ incoming' \in {"read", "hung"}
         /\ toDevice' = toDevice \/ toDevice' = Append(toDevice, <<kind, o>>)
  BY DEF Replies

LEMMA PrefixAt ==
  ASSUME NEW S, NEW q \in Seq(S), NEW n \in 0 .. Len(q)
  PROVE  /\ SubSeq(q, 1, n) \in Seq(S) /\ Len(SubSeq(q, 1, n)) = n
         /\ \A i \in 1 .. n : SubSeq(q, 1, n)[i] = q[i]
  OBVIOUS

LEMMA TypesIncoming ==
  ASSUME Types, IncomingNext \/ OutgoingClogs \/ SessionDone \/ SessionCloses
  PROVE  Types'
<1>1. SUFFICES SessionTypes' /\ HandlerTypes' /\ DeviceTypes'
  BY DEF Types
<1>2. CASE \E o \in Observer, f \in Data \cup {Terminate} :
             \/ IncomingEstabResp(o, f) \/ IncomingEstabLate(o, f)
             \/ IncomingNotify(o, f) \/ IncomingNotifyGone(o, f)
  <2>1. PICK o \in Observer, f \in Data \cup {Terminate} :
             \/ IncomingEstabResp(o, f) \/ IncomingEstabLate(o, f)
             \/ IncomingNotify(o, f) \/ IncomingNotifyGone(o, f)
    BY <1>2
  <2>2. PICK kind : IncomingReads(kind, o, f)
    BY <2>1, Zenon DEF IncomingEstabResp, IncomingEstabLate, IncomingNotify, IncomingNotifyGone
  <2>3. /\ UNCHANGED <<session, handler, pending, frameID, stream, observe, produced>>
        /\ toServer # <<>> /\ toServer' = Tail(toServer)
    BY <2>2 DEF IncomingReads, userVars, deviceVars
  <2>4. toServer' \in Seq(ToServer)
    BY <2>3, QueueTypes DEF Types, SessionTypes
  <2>5. o \in Observer /\ f \in Nat
    BY <2>1, MaxFrameAssumption DEF Data, Terminate
  <2>6. <<o, f>> \in Observer \X Nat /\ <<"terminate", o>> \in ToDevice
    BY <2>5 DEF ToDevice
  <2>7. /\ notifyChan' = notifyChan
        /\ \/ incoming' = incoming /\ held' = held
           \/ incoming' = "exit"
           \/ incoming' \in {"read", "hung"}
           \/ incoming' = "notify" /\ held' = <<o, f>>
        /\ toDevice' = toDevice \/ toDevice' = Append(toDevice, <<"terminate", o>>)
    BY <2>1, ReplyPuts, Zenon DEF IncomingEstabResp, IncomingEstabLate, IncomingNotify,
       IncomingNotifyGone
  <2>a. toDevice' \in Seq(ToDevice)
    <3>1. toDevice \in Seq(ToDevice)
      BY DEF Types, SessionTypes
    <3>2. Append(toDevice, <<"terminate", o>>) \in Seq(ToDevice)
      BY <2>6, <3>1
    <3>3. QED BY <2>7, <3>1, <3>2
  <2>b. incoming' \in {"read", "notify", "exit", "hung"} /\ (incoming' = "notify" => held' \in Observer \X Nat)
    BY <2>6, <2>7 DEF Types, SessionTypes
  <2>8. SessionTypes'
    BY <2>3, <2>4, <2>a, <2>b DEF Types, SessionTypes
  <2>9. QED BY <2>3, <2>7, <2>8 DEF Types, HandlerTypes, DeviceTypes
<1>3. CASE IncomingNotified
  <2>1. /\ UNCHANGED <<session, toServer, handler, pending, frameID, stream, observe, produced>>
        /\ incoming = "notify" /\ incoming' \in {"read", "hung"}
        /\ notifyChan' = [notifyChan EXCEPT ![held[1]] = <<held[2]>>]
        /\ toDevice' = toDevice \/ toDevice' = Append(toDevice, <<"continue", held[1]>>)
    BY <1>3, ReplyPuts DEF IncomingNotified, Notifies, userVars, deviceVars
  <2>2. held \in Observer \X Nat
    BY <2>1 DEF Types, SessionTypes
  <2> DEFINE q == <<held[2]>>
  <2>3. <<"continue", held[1]>> \in ToDevice /\ q \in Seq(Nat) /\ Len(q) <= 1
    BY <2>2 DEF ToDevice
  <2>a. notifyChan' = [notifyChan EXCEPT ![held[1]] = q]
    BY <2>1
  <2> HIDE DEF q
  <2>b. toDevice' \in Seq(ToDevice)
    <3>1. toDevice \in Seq(ToDevice)
      BY DEF Types, SessionTypes
    <3>2. Append(toDevice, <<"continue", held[1]>>) \in Seq(ToDevice)
      BY <2>3, <3>1
    <3>3. QED BY <2>1, <3>1, <3>2
  <2>4. SessionTypes'
    BY <2>1, <2>b DEF Types, SessionTypes
  <2>5. notifyChan' \in [Observer -> Seq(Nat)] /\ \A x \in Observer : Len(notifyChan'[x]) <= 1
    BY <2>a, <2>3 DEF Types, HandlerTypes
  <2>6. QED BY <2>1, <2>4, <2>5 DEF Types, HandlerTypes, DeviceTypes
<1>4. CASE IncomingPanics \/ SessionDone
  BY <1>4 DEF IncomingPanics, SessionDone, storeVars, userVars, deviceVars, Types, SessionTypes,
     HandlerTypes, DeviceTypes
<1>5. CASE SessionCloses
  BY <1>5 DEF SessionCloses, storeVars, userVars, deviceVars, Types, SessionTypes,
     HandlerTypes, DeviceTypes
<1>6. CASE OutgoingClogs
  <2>1. PICK n \in 0 .. Len(toDevice) : toDevice' = SubSeq(toDevice, 1, n)
    BY <1>6 DEF OutgoingClogs
  <2>2. toDevice' \in Seq(ToDevice)
    BY <2>1, PrefixAt DEF Types, SessionTypes
  <2>3. UNCHANGED <<session, incoming, held, toServer, userVars, notifyChan, deviceVars>>
    BY <1>6 DEF OutgoingClogs
  <2>4. QED BY <2>2, <2>3 DEF userVars, deviceVars, Types, SessionTypes, HandlerTypes, DeviceTypes
<1>7. QED BY <1>2, <1>3, <1>4, <1>5, <1>6, Zenon DEF IncomingNext

\* What a step of the device leaves alone, and what it puts on its way.
DeviceMoves(messages) ==
  /\ UNCHANGED <<session, incoming, held, handler, pending, frameID, stream, notifyChan, gone,
                 observaStore, observaCount, chanClosed>>
  /\ toDevice' = toDevice \/ (toDevice # <<>> /\ toDevice' = Tail(toDevice))
  /\ toServer' = toServer \/ toServer' = toServer \o messages

LEMMA PutsMove ==
  ASSUME NEW messages, DevicePuts(messages)
  PROVE  DeviceMoves(messages)
<1>1. /\ UNCHANGED <<session, incoming, held, handler, pending, frameID, stream, notifyChan, gone,
                     observaStore, observaCount, chanClosed>>
      /\ toDevice' = toDevice
  BY DEF DevicePuts, sessionVars, storeVars, userVars
<1>2. toServer' = toServer \/ toServer' = toServer \o messages
  BY Zenon DEF DevicePuts
<1>3. QED BY <1>1, <1>2, Zenon DEF DeviceMoves

LEMMA DeviceMovesTypes ==
  ASSUME Types, NEW messages \in Seq(ToServer), DeviceMoves(messages),
         observe' \in [Observer -> {"none", "next", "wait", "ended"}],
         produced' \in [Observer -> 0 .. MaxFrame]
  PROVE  Types'
<1>a. toServer \in Seq(ToServer) /\ toDevice \in Seq(ToDevice)
  BY DEF Types, SessionTypes
<1>b. toServer' \in Seq(ToServer)
  <2>1. toServer \o messages \in Seq(ToServer)
    BY <1>a
  <2>2. QED BY <1>a, <2>1 DEF DeviceMoves
<1>c. toDevice' \in Seq(ToDevice)
  BY <1>a, QueueTypes DEF DeviceMoves
<1>1. toServer' \in Seq(ToServer) /\ toDevice' \in Seq(ToDevice)
  BY <1>b, <1>c
<1>2. SessionTypes'
  BY <1>1 DEF DeviceMoves, Types, SessionTypes
<1>3. HandlerTypes' /\ DeviceTypes'
  BY DEF DeviceMoves, Types, HandlerTypes, DeviceTypes
<1>4. QED BY <1>2, <1>3 DEF Types

LEMMA TypesDevice ==
  ASSUME Types, NEW o \in Observer, DeviceNext(o)
  PROVE  Types'
<1>a. /\ observe \in [Observer -> {"none", "next", "wait", "ended"}]
      /\ produced \in [Observer -> 0 .. MaxFrame]
  BY DEF Types, DeviceTypes
<1>b. /\ <<>> \in Seq(ToServer) /\ <<<<"estab", o, Terminate>>>> \in Seq(ToServer)
      /\ <<<<"estab", o, 1>>>> \in Seq(ToServer) /\ <<<<"notify", o, Terminate>>>> \in Seq(ToServer)
  BY DEF ToServer, Terminate
<1>1. CASE DeviceRefuses(o)
  <2>1. DeviceMoves(<<<<"estab", o, Terminate>>>>) /\ UNCHANGED <<observe, produced>>
    BY <1>1 DEF DeviceRefuses, DeviceReads, DeviceMoves, sessionVars, storeVars, userVars, deviceVars
  <2>2. QED BY <1>a, <1>b, <2>1, DeviceMovesTypes
<1>2. CASE DeviceFails(o) \/ DeviceObserves(o)
  <2>1. DeviceMoves(<<>>) /\ produced' = produced
    BY <1>2 DEF DeviceFails, DeviceObserves, DeviceReads, DeviceMoves, sessionVars, storeVars, userVars
  <2>2. observe' = observe \/ observe' = [observe EXCEPT ![o] = "next"]
    BY <1>2 DEF DeviceFails, DeviceObserves
  <2>3. QED BY <1>a, <1>b, <2>1, <2>2, DeviceMovesTypes
<1>3. CASE DeviceEstablished(o)
  <2>1. DeviceMoves(<<<<"estab", o, 1>>>>) /\ UNCHANGED <<observe, produced>>
    BY <1>3, PutsMove DEF DeviceEstablished
  <2>2. QED BY <1>a, <1>b, <2>1, DeviceMovesTypes
<1>4. CASE ObserveSends(o)
  <2>1. PICK k : /\ k = IF produced[o] < MaxFrame THEN produced[o] + 1 ELSE MaxFrame
                 /\ DevicePuts(<<<<"notify", o, k>>>>)
                 /\ produced' = [produced EXCEPT ![o] = k]
                 /\ observe' = [observe EXCEPT ![o] = "wait"]
    BY <1>4 DEF ObserveSends
  <2>2. k \in 0 .. MaxFrame
    BY <1>a, <2>1, MaxFrameAssumption
  <2>3. <<<<"notify", o, k>>>> \in Seq(ToServer)
    BY <2>2, MaxFrameAssumption DEF ToServer
  <2>4. DeviceMoves(<<<<"notify", o, k>>>>)
    BY <2>1, PutsMove
  <2>5. /\ observe' \in [Observer -> {"none", "next", "wait", "ended"}]
        /\ produced' \in [Observer -> 0 .. MaxFrame]
    BY <1>a, <2>1, <2>2
  <2>6. QED BY <2>3, <2>4, <2>5, DeviceMovesTypes
<1>5. CASE ObserveFinishes(o)
  <2>1. DeviceMoves(<<<<"notify", o, Terminate>>>>) /\ produced' = produced
    BY <1>5, PutsMove DEF ObserveFinishes
  <2>2. observe' = [observe EXCEPT ![o] = "wait"]
    BY <1>5 DEF ObserveFinishes
  <2>3. QED BY <1>a, <1>b, <2>1, <2>2, DeviceMovesTypes
<1>6. CASE ObserveTimesOut(o)
  <2>1. DeviceMoves(<<>>) /\ produced' = produced
    BY <1>6, PutsMove DEF ObserveTimesOut
  <2>2. observe' = [observe EXCEPT ![o] = "ended"]
    BY <1>6 DEF ObserveTimesOut
  <2>3. QED BY <1>a, <1>b, <2>1, <2>2, DeviceMovesTypes
<1>7. CASE \E kind \in {"continue", "terminate"} : ObserveGetsResp(o, kind) \/ ObserveRespLate(o, kind)
  <2>1. PICK kind : ObserveGetsResp(o, kind) \/ ObserveRespLate(o, kind)
    BY <1>7
  <2>2. DeviceReads(kind, o, <<>>) /\ produced' = produced
    BY <2>1 DEF ObserveGetsResp, ObserveRespLate
  <2>3. DeviceMoves(<<>>)
    BY <2>2 DEF DeviceReads, DeviceMoves, sessionVars, storeVars, userVars
  <2>4. observe' = observe \/ \E to \in {"next", "ended"} : observe' = [observe EXCEPT ![o] = to]
    BY <2>1 DEF ObserveGetsResp, ObserveRespLate
  <2>5. observe' \in [Observer -> {"none", "next", "wait", "ended"}]
    BY <1>a, <2>4
  <2>6. QED BY <1>a, <1>b, <2>2, <2>3, <2>5, DeviceMovesTypes
<1>8. QED BY <1>1, <1>2, <1>3, <1>4, <1>5, <1>6, <1>7, Zenon DEF DeviceNext, ObserveNext

LEMMA TypesStep == Types /\ [Next]_vars => Types'
<1>1. ASSUME Types, UNCHANGED vars PROVE Types'
  BY <1>1 DEF vars, sessionVars, userVars, deviceVars, Types, SessionTypes, HandlerTypes,
     DeviceTypes
<1>2. QED BY <1>1, TypesHandler, TypesIncoming, TypesDevice, Zenon DEF Next

-----------------------------------------------------------------------------
(* The store, its count, and how a stream ends.                             *)

CountInv == observaCount = Cardinality(observaStore)

StoreKept == UNCHANGED <<handler, observaCount, observaStore, chanClosed, stream, gone>>

LEMMA OthersKeepStore ==
  ASSUME IncomingNext \/ OutgoingClogs \/ SessionDone \/ SessionCloses \/ (\E o \in Observer : DeviceNext(o))
  PROVE  StoreKept
<1> USE DEF StoreKept
<1>1. CASE \E o \in Observer, f \in Data \cup {Terminate} :
             \/ IncomingEstabResp(o, f) \/ IncomingEstabLate(o, f)
             \/ IncomingNotify(o, f) \/ IncomingNotifyGone(o, f)
  <2>1. PICK kind, o, f : IncomingReads(kind, o, f)
    BY <1>1, Zenon DEF IncomingEstabResp, IncomingEstabLate, IncomingNotify, IncomingNotifyGone
  <2>2. QED BY <2>1 DEF IncomingReads, storeVars, userVars
<1>2. CASE IncomingNotified \/ IncomingPanics
  BY <1>2 DEF IncomingNotified, Notifies, IncomingPanics, storeVars, userVars
<1>3. CASE OutgoingClogs \/ SessionDone \/ SessionCloses
  BY <1>3 DEF OutgoingClogs, SessionDone, SessionCloses, storeVars, userVars
<1>4. CASE \E o \in Observer : DeviceNext(o)
  <2>1. ASSUME NEW kind, NEW o, NEW answers, DeviceReads(kind, o, answers) PROVE StoreKept
    BY <2>1 DEF DeviceReads, storeVars, userVars
  <2>2. ASSUME NEW messages, DevicePuts(messages) PROVE StoreKept
    BY <2>2 DEF DevicePuts, storeVars, userVars
  <2> HIDE DEF StoreKept
  <2>3. QED
    BY <1>4, <2>1, <2>2, Zenon DEF DeviceNext, ObserveNext, DeviceRefuses, DeviceFails, DeviceObserves,
       DeviceEstablished, ObserveSends, ObserveFinishes, ObserveTimesOut, ObserveGetsResp,
       ObserveRespLate
<1>5. QED BY <1>1, <1>2, <1>3, <1>4, Zenon DEF IncomingNext

\* A handler that goes on between CreateObserva and DestroyObserva, or outside.
LEMMA MovesKeepStore ==
  ASSUME Types, StoreInv, NEW o \in Observer, NEW from, NEW to, HandlerMoves(o, from, to),
         UNCHANGED storeVars, from \in Created <=> to \in Created, from # "ended"
  PROVE  StoreInv'
<1>1. /\ handler \in [Observer -> {"idle", "check", "create", "establish", "wait", "serve",
                                  "send", "destroy", "ended"}]
      /\ handler[o] = from /\ handler' = [handler EXCEPT ![o] = to]
      /\ observaStore' = observaStore /\ chanClosed' = chanClosed
  BY DEF HandlerMoves, storeVars, Types, HandlerTypes
<1>2. \A x \in Observer : handler'[x] = IF x = o THEN to ELSE handler[x]
  BY <1>1
<1>3. {x \in Observer : handler'[x] \in Created} = {x \in Observer : handler[x] \in Created}
  BY <1>1, <1>2
<1>4. chanClosed' \subseteq {x \in Observer : handler'[x] = "ended"}
  BY <1>1, <1>2 DEF StoreInv
<1>5. QED BY <1>1, <1>3, <1>4 DEF StoreInv

LEMMA StoreStep ==
  ASSUME Types, StoreInv, CountInv, [Next]_vars
  PROVE  StoreInv' /\ CountInv'
<1>a. handler \in [Observer -> {"idle", "check", "create", "establish", "wait", "serve",
                                "send", "destroy", "ended"}]
  BY DEF Types, HandlerTypes
<1>b. IsFiniteSet(observaStore)
  BY ObserverAssumption, FS_Subset DEF StoreInv
<1>1. ASSUME NEW o \in Observer, HandlerCreates(o) PROVE StoreInv' /\ CountInv'
  <2>1. /\ handler[o] = "create" /\ handler' = [handler EXCEPT ![o] = "establish"]
        /\ observaStore' = observaStore \cup {o} /\ observaCount' = observaCount + 1
        /\ chanClosed' = chanClosed
    BY <1>1 DEF HandlerCreates, HandlerMoves
  <2>2. \A x \in Observer : handler'[x] = IF x = o THEN "establish" ELSE handler[x]
    BY <1>a, <2>1
  <2>3. o \notin observaStore
    BY <2>1 DEF StoreInv, Created
  <2>4. {x \in Observer : handler'[x] \in Created} = observaStore \cup {o}
    BY <2>2 DEF StoreInv, Created
  <2>5. chanClosed' \subseteq {x \in Observer : handler'[x] = "ended"}
    BY <2>1, <2>2 DEF StoreInv
  <2>6. Cardinality(observaStore \cup {o}) = Cardinality(observaStore) + 1
    BY <1>b, <2>3, FS_AddElement
  <2>7. QED BY <2>1, <2>4, <2>5, <2>6 DEF StoreInv, CountInv
<1>2. ASSUME NEW o \in Observer, HandlerDestroys(o) PROVE StoreInv' /\ CountInv'
  <2>1. /\ handler[o] = "destroy" /\ handler' = [handler EXCEPT ![o] = "ended"]
        /\ observaStore' = observaStore \ {o} /\ observaCount' = observaCount - 1
        /\ chanClosed' = chanClosed \cup {o}
    BY <1>2 DEF HandlerDestroys, HandlerMoves
  <2>2. \A x \in Observer : handler'[x] = IF x = o THEN "ended" ELSE handler[x]
    BY <1>a, <2>1
  <2>3. o \in observaStore
    BY <2>1 DEF StoreInv, Created
  <2>4. {x \in Observer : handler'[x] \in Created} = observaStore \ {o}
    BY <2>2 DEF StoreInv, Created
  <2>5. chanClosed' \subseteq {x \in Observer : handler'[x] = "ended"}
    BY <2>1, <2>2 DEF StoreInv
  <2>6. Cardinality(observaStore \ {o}) = Cardinality(observaStore) - 1
    BY <1>b, <2>3, FS_RemoveElement
  <2>7. QED BY <2>1, <2>4, <2>5, <2>6 DEF StoreInv, CountInv
<1>3. ASSUME NEW o \in Observer, NEW from, NEW to, HandlerMoves(o, from, to), UNCHANGED storeVars,
             from \in Created <=> to \in Created, from # "ended"
      PROVE  StoreInv' /\ CountInv'
  <2>1. CountInv'
    BY <1>3 DEF storeVars, CountInv
  <2>2. QED BY <1>3, <2>1, MovesKeepStore
<1>4. ASSUME NEW o \in Observer, HandlerBegins(o) PROVE StoreInv' /\ CountInv'
  BY <1>3, <1>4 DEF HandlerBegins, Created
<1>5. ASSUME NEW o \in Observer, HandlerChecks(o) PROVE StoreInv' /\ CountInv'
  <2>1. PICK to \in {"ended", "create"} : HandlerMoves(o, "check", to)
    BY <1>5, Zenon DEF HandlerChecks
  <2>2. UNCHANGED storeVars
    BY <1>5 DEF HandlerChecks
  <2>3. QED BY <1>3, <2>1, <2>2 DEF Created
<1>6. ASSUME NEW o \in Observer, HandlerEstablishes(o) \/ HandlerTimesOut(o) \/ HandlerGetsResp(o)
      PROVE  StoreInv' /\ CountInv'
  <2>1. PICK from \in {"establish", "wait"}, to \in {"wait", "serve", "send"} :
          HandlerMoves(o, from, to)
    BY <1>6 DEF HandlerEstablishes, HandlerTimesOut, HandlerGetsResp
  <2>2. UNCHANGED storeVars
    BY <1>6 DEF HandlerEstablishes, HandlerTimesOut, HandlerGetsResp
  <2>3. QED BY <1>3, <2>1, <2>2 DEF Created
<1>7. ASSUME NEW o \in Observer,
             ServeSessionDone(o) \/ ServeUserGone(o) \/ ServeNotify(o) \/ HandlerSent(o)
      PROVE  StoreInv' /\ CountInv'
  <2>1. PICK from \in {"serve", "send"}, to \in {"serve", "send", "destroy"} :
          HandlerMoves(o, from, to)
    BY <1>7 DEF ServeSessionDone, ServeUserGone, ServeNotify, HandlerSent
  <2>2. UNCHANGED storeVars
    BY <1>7 DEF ServeSessionDone, ServeUserGone, ServeNotify, HandlerSent
  <2>3. QED BY <1>3, <2>1, <2>2 DEF Created
<1>8. ASSUME NEW o \in Observer, UserGoes(o) PROVE StoreInv' /\ CountInv'
  BY <1>8 DEF UserGoes, storeVars, userVars, StoreInv, CountInv
<1>9. CASE IncomingNext \/ OutgoingClogs \/ SessionDone \/ SessionCloses \/ (\E o \in Observer : DeviceNext(o))
  BY <1>9, OthersKeepStore DEF StoreKept, StoreInv, CountInv
<1>10. CASE UNCHANGED vars
  BY <1>10 DEF vars, storeVars, userVars, StoreInv, CountInv
<1>11. QED
  BY <1>1, <1>2, <1>4, <1>5, <1>6, <1>7, <1>8, <1>9, <1>10, Zenon DEF Next, HandlerNext

LEMMA CountHolds ==
  ASSUME StoreInv, CountInv
  PROVE  CountExact
<1>1. {o \in Observer : handler[o] \in {"establish", "wait", "serve", "send", "destroy"}} = observaStore
  BY DEF StoreInv, Created
<1>2. QED BY <1>1, Zenon DEF CountExact, CountInv

LEMMA InitTypes == Init => Types /\ StoreInv /\ CountInv
<1> SUFFICES ASSUME Init PROVE Types /\ StoreInv /\ CountInv
  OBVIOUS
<1>1. SessionTypes
  BY DEF Init, SessionTypes
<1>2. HandlerTypes
  BY DEF Init, HandlerTypes
<1>3. DeviceTypes
  BY MaxFrameAssumption DEF Init, DeviceTypes
<1>4. StoreInv
  BY DEF Init, StoreInv, Created
<1>5. CountInv
  BY FS_EmptySet DEF Init, CountInv
<1>6. QED BY <1>1, <1>2, <1>3, <1>4, <1>5 DEF Types

LEMMA TypesAlways == Spec => [](Types /\ StoreInv /\ CountInv)
  BY InitTypes, TypesStep, StoreStep, PTL DEF Spec

\* For any number of observers: observaCount of the session is the number of calls of
\* ObGet between CreateObserva and DestroyObserva, on every path through ObGet.
THEOREM CountIsExact == Spec => []CountExact
<1>1. Types /\ StoreInv /\ CountInv => CountExact
  BY CountHolds
<1>2. QED BY <1>1, TypesAlways, PTL

LEMMA OnlyOne ==
  ASSUME NEW q \in Seq(Nat), q # <<>>, Len(q) <= 1
  PROVE  Len(q) = 1 /\ Tail(q) = <<>> /\ Head(q) = q[1]
<1>1. Len(q) \in Nat \ {0}
  BY EmptySeq
<1>2. \A n \in Nat \ {0} : n <= 1 => n = 1
  OBVIOUS
<1>3. Len(q) = 1
  BY <1>1, <1>2
<1>4. Tail(q) \in Seq(Nat) /\ Len(Tail(q)) = 0
  BY <1>3
<1>5. Tail(q) = <<>>
  BY <1>4, EmptySeq
<1>6. Head(q) = q[1]
  OBVIOUS
<1>7. QED BY <1>3, <1>5, <1>6

LEMMA AppendLast ==
  ASSUME NEW S, NEW q \in Seq(S), NEW m \in S
  PROVE  /\ Len(q) \in Nat /\ Len(Append(q, m)) = Len(q) + 1 /\ Append(q, m) # <<>>
         /\ Append(q, m)[Len(q) + 1] = m
  OBVIOUS

\* The last frame of the stream is not one that continues.
LEMMA EndStep ==
  ASSUME Types, StoreInv, StreamFinished, [Next]_vars
  PROVE  StreamFinished'
<1> SUFFICES ASSUME NEW x \in Observer,
                    handler'[x] \in {"destroy", "ended"}, x \notin gone',
                    x \in chanClosed' \cup observaStore'
             PROVE  stream'[x] # <<>> /\ stream'[x][Len(stream'[x])][2] \notin Data
  BY DEF StreamFinished
<1>a. handler \in [Observer -> {"idle", "check", "create", "establish", "wait", "serve",
                                "send", "destroy", "ended"}]
      /\ stream \in [Observer -> Seq(Nat \X Nat)]
  BY DEF Types, HandlerTypes
<1>b. handler[x] \in {"destroy", "ended"} /\ x \notin gone /\ x \in chanClosed \cup observaStore
        => stream[x] # <<>> /\ stream[x][Len(stream[x])][2] \notin Data
  BY DEF StreamFinished
<1>1. ASSUME handler'[x] = handler[x], x \notin gone, stream'[x] = stream[x],
             x \in chanClosed \cup observaStore
      PROVE  stream'[x] # <<>> /\ stream'[x][Len(stream'[x])][2] \notin Data
  BY <1>1, <1>b
<1>2. ASSUME NEW o \in Observer, HandlerBegins(o) \/ HandlerNext(o)
      PROVE  stream'[x] # <<>> /\ stream'[x][Len(stream'[x])][2] \notin Data
  <2>1. stream' = stream /\ gone' = gone /\ \E from, to : HandlerMoves(o, from, to)
    BY <1>2 DEF HandlerBegins, HandlerNext, HandlerChecks, HandlerCreates, HandlerEstablishes,
       HandlerGetsResp, HandlerTimesOut, ServeSessionDone, ServeUserGone, ServeNotify,
       HandlerDestroys, HandlerMoves
  <2>2. handler'[x] # handler[x] => x = o
    BY <1>a, <2>1 DEF HandlerMoves
  <2>3. CASE HandlerDestroys(o)
    <3>1. /\ handler[o] = "destroy" /\ observaStore' = observaStore \ {o}
          /\ chanClosed' = chanClosed \cup {o}
      BY <2>3 DEF HandlerDestroys, HandlerMoves
    <3>2. o \in observaStore
      BY <3>1 DEF StoreInv, Created
    <3>3. handler[x] \in {"destroy", "ended"} /\ x \in chanClosed \cup observaStore
      BY <2>2, <3>1, <3>2
    <3>4. QED BY <1>b, <2>1, <3>3
  <2>4. CASE HandlerChecks(o)
    <3>1. handler[o] = "check" /\ UNCHANGED <<observaStore, chanClosed>>
      BY <2>4 DEF HandlerChecks, HandlerMoves, storeVars
    <3>2. x # o
      BY <3>1 DEF StoreInv, Created
    <3>3. QED BY <1>b, <2>1, <2>2, <3>1, <3>2
  <2>5. CASE ServeUserGone(o)
    <3>1. o \in gone /\ UNCHANGED <<observaStore, chanClosed>>
      BY <2>5 DEF ServeUserGone, storeVars
    <3>2. x # o
      BY <2>1, <3>1
    <3>3. QED BY <1>b, <2>1, <2>2, <3>1, <3>2
  <2>6. CASE HandlerBegins(o) \/ HandlerCreates(o) \/ HandlerEstablishes(o) \/ HandlerGetsResp(o)
             \/ HandlerTimesOut(o) \/ ServeSessionDone(o) \/ ServeNotify(o)
    <3>1. PICK from, to : /\ HandlerMoves(o, from, to)
                          /\ to \in {"check", "establish", "wait", "serve", "send"}
      BY <2>6 DEF HandlerBegins, HandlerCreates, HandlerEstablishes, HandlerGetsResp,
         HandlerTimesOut, ServeSessionDone, ServeNotify
    <3>2. x # o
      BY <1>a, <3>1 DEF HandlerMoves
    <3>3. x \in chanClosed \cup observaStore
      BY <2>6, <3>2 DEF HandlerBegins, HandlerCreates, HandlerEstablishes, HandlerGetsResp,
         HandlerTimesOut, ServeSessionDone, ServeNotify, storeVars
    <3>4. QED BY <1>b, <2>1, <2>2, <3>2, <3>3
  <2>7. QED BY <1>2, <2>3, <2>4, <2>5, <2>6, Zenon DEF HandlerNext
<1>3. ASSUME NEW o \in Observer, HandlerSent(o)
      PROVE  stream'[x] # <<>> /\ stream'[x][Len(stream'[x])][2] \notin Data
  <2>1. /\ handler[o] = "send" /\ gone' = gone /\ UNCHANGED <<observaStore, chanClosed>>
        /\ handler' = [handler EXCEPT ![o] = IF pending[o] \in Data THEN "serve" ELSE "destroy"]
        /\ stream' = IF o \in gone THEN stream
                     ELSE [stream EXCEPT ![o] = Append(stream[o], <<frameID[o], pending[o]>>)]
    BY <1>3 DEF HandlerSent, HandlerMoves, storeVars
  <2>2. CASE x # o
    BY <1>a, <1>b, <2>1, <2>2
  <2>3. CASE x = o
    <3>1. pending[o] \notin Data /\ stream'[o] = Append(stream[o], <<frameID[o], pending[o]>>)
      BY <1>a, <2>1, <2>3
    <3>2. stream[o] \in Seq(Nat \X Nat) /\ <<frameID[o], pending[o]>> \in Nat \X Nat
      BY <1>a DEF Types, HandlerTypes
    <3>3. /\ Len(stream'[o]) = Len(stream[o]) + 1
          /\ stream'[o][Len(stream[o]) + 1] = <<frameID[o], pending[o]>>
          /\ stream'[o] # <<>>
      BY <3>1, <3>2, AppendLast, SMTT(30)
    <3>4. <<frameID[o], pending[o]>>[2] = pending[o]
      OBVIOUS
    <3>5. QED BY <2>3, <3>1, <3>3, <3>4
  <2>4. QED BY <2>2, <2>3
<1>4. ASSUME NEW o \in Observer, UserGoes(o)
      PROVE  stream'[x] # <<>> /\ stream'[x][Len(stream'[x])][2] \notin Data
  <2>1. UNCHANGED <<handler, stream, observaStore, chanClosed>> /\ gone' = gone \cup {o}
    BY <1>4 DEF UserGoes, storeVars, userVars
  <2>2. QED BY <1>b, <2>1
<1>5. ASSUME StoreKept
      PROVE  stream'[x] # <<>> /\ stream'[x][Len(stream'[x])][2] \notin Data
  BY <1>5, <1>b DEF StoreKept
<1>6. CASE UNCHANGED vars
  <2>1. StoreKept
    BY <1>6 DEF vars, storeVars, userVars, StoreKept
  <2>2. QED BY <1>5, <2>1
<1>7. QED BY <1>2, <1>3, <1>4, <1>5, <1>6, OthersKeepStore, Zenon DEF Next

\* A user who stays learns how the stream ended: its last frame is Terminate or an error,
\* whatever ends the observation.
THEOREM StreamIsFinished == Spec => []StreamFinished
<1>1. Init => StreamFinished
  BY DEF Init, StreamFinished
<1>2. QED BY <1>1, EndStep, TypesAlways, PTL DEF Spec

-----------------------------------------------------------------------------
(* One notification of an observation is under way at a time: to the server, in the
   hands of tcpIncomming, or answered.                                      *)

\* Message i of queue q is one of these kinds, for observer o.
At(q, i, kinds, o) == q[i][1] \in kinds /\ q[i][2] = o
Has(q, kinds, o) == \E i \in 1 .. Len(q) : At(q, i, kinds, o)
One(q, kinds, o) ==
  \A i, j \in 1 .. Len(q) : At(q, i, kinds, o) /\ At(q, j, kinds, o) => i = j

Coming(o) == Has(toServer, {"notify"}, o)
Holding(o) == incoming = "notify" /\ held[1] = o
Answered(o) == Has(toDevice, {"continue", "terminate"}, o)

Cycle(o) ==
  /\ ~(Coming(o) /\ Holding(o)) /\ ~(Coming(o) /\ Answered(o)) /\ ~(Holding(o) /\ Answered(o))
  /\ One(toServer, {"notify"}, o) /\ One(toDevice, {"continue", "terminate"}, o)
  /\ Coming(o) \/ Holding(o) \/ Answered(o) => observe[o] \in {"wait", "ended"}
  /\ observe[o] \in {"none", "next"} => o \notin finished

\* The device is asked once to observe.
Early == {"idle", "check", "create", "establish"}
Asked(o) ==
  /\ One(toDevice, {"estab"}, o)
  /\ Has(toDevice, {"estab"}, o) => observe[o] = "none" /\ handler[o] \notin Early
  /\ handler[o] \in Early =>
       /\ observe[o] = "none" /\ produced[o] = 0 /\ o \notin finished
       /\ notifyChan[o] = <<>> /\ stream[o] = <<>> /\ frameID[o] = 0

LEMMA AppendAt ==
  ASSUME NEW S, NEW q \in Seq(S), NEW m \in S, NEW K, NEW o
  PROVE  /\ Has(Append(q, m), K, o) <=> Has(q, K, o) \/ (m[1] \in K /\ m[2] = o)
         /\ One(q, K, o) /\ ~(Has(q, K, o) /\ m[1] \in K /\ m[2] = o) => One(Append(q, m), K, o)
<1> DEFINE p == Append(q, m)
<1>1. Len(q) \in Nat /\ Len(p) = Len(q) + 1 /\ p[Len(q) + 1] = m
  OBVIOUS
<1>2. \A i \in 1 .. Len(q) : p[i] = q[i]
  OBVIOUS
<1> HIDE DEF p
<1>3. Has(p, K, o) <=> Has(q, K, o) \/ (m[1] \in K /\ m[2] = o)
  BY <1>1, <1>2 DEF Has, At
<1>4. ASSUME One(q, K, o), ~(Has(q, K, o) /\ m[1] \in K /\ m[2] = o)
      PROVE  One(p, K, o)
  <2> SUFFICES ASSUME NEW i \in 1 .. Len(p), NEW j \in 1 .. Len(p), At(p, i, K, o), At(p, j, K, o)
               PROVE  i = j
    BY DEF One
  <2>1. CASE i \in 1 .. Len(q) /\ j \in 1 .. Len(q)
    BY <1>2, <1>4, <2>1 DEF One, At
  <2>2. CASE i = Len(q) + 1 /\ j = Len(q) + 1
    BY <2>2
  <2>3. CASE i = Len(q) + 1 /\ j \in 1 .. Len(q)
    BY <1>1, <1>2, <1>4, <2>3 DEF Has, At
  <2>4. CASE j = Len(q) + 1 /\ i \in 1 .. Len(q)
    BY <1>1, <1>2, <1>4, <2>4 DEF Has, At
  <2>5. QED BY <1>1, <2>1, <2>2, <2>3, <2>4
<1>5. QED BY <1>3, <1>4 DEF p

LEMMA TailAt ==
  ASSUME NEW S, NEW q \in Seq(S), q # <<>>, NEW K, NEW o
  PROVE  /\ Has(Tail(q), K, o) => Has(q, K, o)
         /\ One(q, K, o) => One(Tail(q), K, o)
         /\ Head(q)[1] \in K /\ Head(q)[2] = o => Has(q, K, o)
         /\ One(q, K, o) /\ Head(q)[1] \in K /\ Head(q)[2] = o => ~Has(Tail(q), K, o)
         /\ Has(q, K, o) /\ ~(Head(q)[1] \in K /\ Head(q)[2] = o) => Has(Tail(q), K, o)
<1> DEFINE p == Tail(q)
<1>1. Len(q) \in Nat \ {0} /\ Len(p) = Len(q) - 1 /\ Head(q) = q[1]
  OBVIOUS
<1>2. \A i \in 1 .. Len(p) : p[i] = q[i + 1]
  OBVIOUS
<1> HIDE DEF p
<1>3. \A i \in 1 .. Len(p) : (At(p, i, K, o) <=> At(q, i + 1, K, o)) /\ i + 1 \in 1 .. Len(q)
  BY <1>1, <1>2 DEF At
<1>4. Has(p, K, o) => Has(q, K, o)
  BY <1>3 DEF Has
<1>5. One(q, K, o) => One(p, K, o)
  <2> SUFFICES ASSUME One(q, K, o), NEW i \in 1 .. Len(p), NEW j \in 1 .. Len(p),
                      At(p, i, K, o), At(p, j, K, o)
               PROVE  i = j
    BY DEF One
  <2>1. i + 1 = j + 1
    BY <1>3 DEF One
  <2>2. QED BY <2>1
<1>6. Head(q)[1] \in K /\ Head(q)[2] = o => At(q, 1, K, o) /\ 1 \in 1 .. Len(q)
  BY <1>1 DEF At
<1>7. ASSUME One(q, K, o), Head(q)[1] \in K, Head(q)[2] = o, Has(p, K, o) PROVE FALSE
  <2>1. PICK i \in 1 .. Len(p) : At(p, i, K, o)
    BY <1>7 DEF Has
  <2>2. i + 1 = 1
    BY <1>3, <1>6, <1>7, <2>1 DEF One
  <2>3. QED BY <2>2
<1>8. ASSUME Has(q, K, o), ~(Head(q)[1] \in K /\ Head(q)[2] = o) PROVE Has(p, K, o)
  <2>1. PICK i \in 1 .. Len(q) : At(q, i, K, o)
    BY <1>8 DEF Has
  <2>2. i # 1
    BY <1>1, <1>8, <2>1 DEF At
  <2>3. i - 1 \in 1 .. Len(p) /\ (i - 1) + 1 = i
    BY <1>1, <2>1, <2>2
  <2>4. At(p, i - 1, K, o)
    BY <1>3, <2>1, <2>3
  <2>5. QED BY <2>3, <2>4 DEF Has
<1>9. QED BY <1>4, <1>5, <1>6, <1>7, <1>8 DEF Has, p

LEMMA FirstAt ==
  ASSUME NEW S, NEW q \in Seq(S), q # <<>>, NEW K, NEW o, Head(q)[1] \in K, Head(q)[2] = o,
         One(q, K, o)
  PROVE  Has(q, K, o) /\ ~Has(Tail(q), K, o)
  BY TailAt

LEMMA FirstOfQueues ==
  ASSUME Types, NEW K, NEW o
  PROVE  /\ toServer # <<>> /\ Head(toServer)[1] \in K /\ Head(toServer)[2] = o /\ One(toServer, K, o)
              => Has(toServer, K, o) /\ ~Has(Tail(toServer), K, o)
         /\ toDevice # <<>> /\ Head(toDevice)[1] \in K /\ Head(toDevice)[2] = o /\ One(toDevice, K, o)
              => Has(toDevice, K, o) /\ ~Has(Tail(toDevice), K, o)
  BY FirstAt DEF Types, SessionTypes

LEMMA ConcatOne ==
  ASSUME NEW S, NEW q \in Seq(S)
  PROVE  /\ q \o <<>> = q
         /\ \A m \in S : q \o <<m>> = Append(q, m)
  OBVIOUS

\* Queue p has no new message of these kinds.
Thinner(q, p, K, o) == (Has(p, K, o) => Has(q, K, o)) /\ (One(q, K, o) => One(p, K, o))

LEMMA Thins ==
  ASSUME NEW S, NEW q \in Seq(S), NEW K, NEW o
  PROVE  /\ Thinner(q, q, K, o) /\ Thinner(q, <<>>, K, o)
         /\ q # <<>> => Thinner(q, Tail(q), K, o)
         /\ \A m \in S : ~(m[1] \in K /\ m[2] = o) => Thinner(q, Append(q, m), K, o)
<1>1. Thinner(q, q, K, o)
  BY DEF Thinner
<1>2. Thinner(q, <<>>, K, o)
  BY DEF Thinner, Has, One
<1>3. q # <<>> => Thinner(q, Tail(q), K, o)
  BY TailAt DEF Thinner
<1>4. \A m \in S : ~(m[1] \in K /\ m[2] = o) => Thinner(q, Append(q, m), K, o)
  BY AppendAt DEF Thinner
<1>5. QED BY <1>1, <1>2, <1>3, <1>4

LEMMA PrefixThins ==
  ASSUME NEW S, NEW q \in Seq(S), NEW n \in 0 .. Len(q), NEW K, NEW o
  PROVE  Thinner(q, SubSeq(q, 1, n), K, o)
<1> DEFINE p == SubSeq(q, 1, n)
<1>1. Len(p) = n /\ n \in Nat /\ n <= Len(q) /\ Len(q) \in Nat /\ \A i \in 1 .. n : p[i] = q[i]
  BY PrefixAt
<1> HIDE DEF p
<1>2. \A i \in 1 .. Len(p) : i \in 1 .. Len(q) /\ (At(p, i, K, o) <=> At(q, i, K, o))
  BY <1>1 DEF At
<1>3. Thinner(q, p, K, o)
  BY <1>2 DEF Thinner, Has, One
<1>4. QED BY <1>3 DEF p

CycleInv == \A o \in Observer : Cycle(o) /\ Asked(o)

\* A step that leaves the notifications of an observer as they are.
Quiet(x) ==
  /\ Thinner(toServer, toServer', {"notify"}, x)
  /\ Thinner(toDevice, toDevice', {"continue", "terminate"}, x)
  /\ Thinner(toDevice, toDevice', {"estab"}, x)
  /\ incoming' = "notify" /\ held'[1] = x => Holding(x)
  /\ observe'[x] = observe[x] /\ produced'[x] = produced[x]
  /\ x \in finished' <=> x \in finished
Later(x) ==
  /\ handler'[x] \in Early =>
       /\ handler[x] \in Early /\ notifyChan'[x] = notifyChan[x]
       /\ stream'[x] = stream[x] /\ frameID'[x] = frameID[x]
  /\ handler[x] \notin Early => handler'[x] \notin Early

LEMMA QuietCycle ==
  ASSUME NEW x \in Observer, Cycle(x), Asked(x), Quiet(x), Later(x)
  PROVE  Cycle(x)' /\ Asked(x)'
<1>1. /\ Coming(x)' => Coming(x)
      /\ Answered(x)' => Answered(x)
      /\ Holding(x)' => Holding(x)
      /\ Has(toDevice', {"estab"}, x) => Has(toDevice, {"estab"}, x)
      /\ One(toServer', {"notify"}, x) /\ One(toDevice', {"continue", "terminate"}, x)
      /\ One(toDevice', {"estab"}, x)
  BY DEF Quiet, Thinner, Coming, Answered, Holding, Cycle, Asked
<1>2. Cycle(x)'
  BY <1>1 DEF Cycle, Quiet
<1>3. Asked(x)'
  BY <1>1 DEF Asked, Quiet, Later
<1>4. QED BY <1>2, <1>3

\* A step of the handlers: the messages stay, but for the question of HandlerEstablishes.
LEMMA CycleHandler ==
  ASSUME Types, NEW x \in Observer, Cycle(x), Asked(x), NEW o \in Observer,
         HandlerBegins(o) \/ HandlerNext(o) \/ HandlerSent(o) \/ UserGoes(o)
  PROVE  Cycle(x)' /\ Asked(x)'
<1>a. /\ handler \in [Observer -> {"idle", "check", "create", "establish", "wait", "serve",
                                   "send", "destroy", "ended"}]
      /\ toServer \in Seq(ToServer) /\ toDevice \in Seq(ToDevice)
      /\ stream \in [Observer -> Seq(Nat \X Nat)] /\ frameID \in [Observer -> Nat]
      /\ notifyChan \in [Observer -> Seq(Nat)]
  BY DEF Types, SessionTypes, HandlerTypes
<1>b. UNCHANGED <<toServer, incoming, held, observe, produced, finished>>
  <2>1. CASE UserGoes(o)
    BY <2>1 DEF UserGoes, sessionVars, deviceVars
  <2>2. CASE \E from, to : HandlerMoves(o, from, to)
    BY <2>2 DEF HandlerMoves, sessionVars, deviceVars
  <2>3. QED BY <2>1, <2>2, Zenon DEF HandlerBegins, HandlerNext, HandlerChecks, HandlerCreates,
       HandlerEstablishes, HandlerGetsResp, HandlerTimesOut, ServeSessionDone, ServeUserGone,
       ServeNotify, HandlerDestroys, HandlerSent
<1>c. ASSUME toDevice' = toDevice PROVE Quiet(x)
  <2>1. Thinner(toServer, toServer', {"notify"}, x)
    BY <1>a, <1>b, Thins, Zenon
  <2>2. /\ Thinner(toDevice, toDevice', {"continue", "terminate"}, x)
        /\ Thinner(toDevice, toDevice', {"estab"}, x)
    BY <1>a, <1>c, Thins, Zenon
  <2>3. QED BY <1>b, <2>1, <2>2 DEF Quiet, Holding
<1>1. CASE HandlerEstablishes(o)
  <2>1. /\ handler[o] = "establish" /\ handler' = [handler EXCEPT ![o] = "wait"]
        /\ toDevice' = Append(toDevice, <<"estab", o>>)
        /\ UNCHANGED <<stream, frameID, notifyChan>>
    BY <1>1 DEF HandlerEstablishes, HandlerMoves
  <2>2. <<"estab", o>> \in ToDevice /\ <<"estab", o>>[1] = "estab" /\ <<"estab", o>>[2] = o
    BY DEF ToDevice
  <2> DEFINE m == <<"estab", o>>
  <2>3. m \in ToDevice /\ m[1] = "estab" /\ m[2] = o /\ toDevice' = Append(toDevice, m)
    BY <2>1, <2>2
  <2> HIDE DEF m
  <2>4. Thinner(toServer, toServer', {"notify"}, x)
    BY <1>a, <1>b, Thins, Zenon
  <2>5. Thinner(toDevice, toDevice', {"continue", "terminate"}, x)
    <3>1. ~(m[1] \in {"continue", "terminate"} /\ m[2] = x)
      BY <2>3
    <3>2. QED BY <1>a, <2>3, <3>1, Thins, Zenon
  <2>6. CASE x # o
    <3>1. Thinner(toDevice, toDevice', {"estab"}, x)
      BY <1>a, <2>3, <2>6, Thins, Zenon
    <3>2. Quiet(x)
      BY <1>b, <2>4, <2>5, <3>1 DEF Quiet, Holding
    <3>3. Later(x)
      BY <1>a, <2>1, <2>6 DEF Later
    <3>4. QED BY <3>2, <3>3, QuietCycle
  <2>7. CASE x = o
    <3>1. handler[x] \in Early /\ observe[x] = "none" /\ handler'[x] = "wait"
      BY <1>a, <2>1, <2>7 DEF Early, Asked
    <3>2. ~Has(toDevice, {"estab"}, x)
      BY <3>1 DEF Asked
    <3>3. One(toDevice', {"estab"}, x)
      BY <1>a, <2>3, <3>2, AppendAt DEF Asked
    <3>4. Asked(x)'
      BY <1>b, <3>1, <3>3 DEF Asked, Early
    <3>5. Cycle(x)'
      BY <1>b, <2>4, <2>5 DEF Cycle, Thinner, Coming, Holding, Answered
    <3>6. QED BY <3>4, <3>5
  <2>8. QED BY <2>6, <2>7
<1>2. CASE ~HandlerEstablishes(o)
  <2>1. toDevice' = toDevice
    BY <1>2, Zenon DEF HandlerBegins, HandlerNext, HandlerChecks, HandlerCreates,
       HandlerGetsResp, HandlerTimesOut, ServeSessionDone, ServeUserGone,
       ServeNotify, HandlerDestroys, HandlerSent, UserGoes
  <2>2. Later(x)
    <3>1. CASE HandlerBegins(o) \/ HandlerChecks(o) \/ HandlerCreates(o)
      <4>1. PICK from \in Early, to \in {"check", "create", "establish", "ended"} :
              HandlerMoves(o, from, to)
        BY <3>1 DEF HandlerBegins, HandlerChecks, HandlerCreates, Early
      <4>2. UNCHANGED <<stream, frameID, notifyChan>>
        BY <3>1 DEF HandlerBegins, HandlerChecks, HandlerCreates
      <4>3. handler[o] \in Early /\ handler' = [handler EXCEPT ![o] = to]
        BY <4>1 DEF HandlerMoves
      <4>4. QED BY <1>a, <4>2, <4>3 DEF Later
    <3>2. CASE HandlerGetsResp(o) \/ HandlerTimesOut(o) \/ ServeSessionDone(o) \/ ServeUserGone(o)
               \/ ServeNotify(o) \/ HandlerSent(o) \/ HandlerDestroys(o)
      <4>1. PICK from \in {"wait", "serve", "send", "destroy"},
                 to \in {"serve", "send", "destroy", "ended"} : HandlerMoves(o, from, to)
        BY <3>2, Zenon DEF HandlerGetsResp, HandlerTimesOut, ServeSessionDone, ServeUserGone,
           ServeNotify, HandlerSent, HandlerDestroys
      <4>2. handler'[o] \notin Early /\ \A z \in Observer \ {o} : handler'[z] = handler[z]
        BY <1>a, <4>1 DEF HandlerMoves, Early
      <4>3. x # o => UNCHANGED <<stream[x], frameID[x], notifyChan[x]>>
        BY <1>a, <3>2 DEF HandlerGetsResp, HandlerTimesOut, ServeSessionDone, ServeUserGone,
           ServeNotify, HandlerSent, HandlerDestroys
      <4>4. handler[o] \notin Early
        BY <4>1 DEF HandlerMoves, Early
      <4>5. QED BY <4>2, <4>3, <4>4 DEF Later
    <3>3. CASE UserGoes(o)
      BY <3>3 DEF UserGoes, userVars, Later
    <3>4. QED BY <1>2, <3>1, <3>2, <3>3, Zenon DEF HandlerNext
  <2>3. QED BY <1>c, <2>1, <2>2, QuietCycle
<1>3. QED BY <1>1, <1>2

\* A step of tcpIncomming or of the end of serve.
LEMMA CycleIncoming ==
  ASSUME Types, NEW x \in Observer, Cycle(x), Asked(x),
         IncomingNext \/ OutgoingClogs \/ SessionDone \/ SessionCloses
  PROVE  Cycle(x)' /\ Asked(x)'
<1>a. /\ toServer \in Seq(ToServer) /\ toDevice \in Seq(ToDevice)
      /\ notifyChan \in [Observer -> Seq(Nat)]
  BY DEF Types, SessionTypes, HandlerTypes
<1>1. ASSUME NEW o \in Observer, NEW f \in Data \cup {Terminate},
             IncomingEstabResp(o, f) \/ IncomingEstabLate(o, f)
      PROVE  Cycle(x)' /\ Asked(x)'
  <2>1. /\ toServer # <<>> /\ toServer' = Tail(toServer) /\ toDevice' = toDevice /\ held' = held
        /\ incoming' = incoming \/ incoming' = "exit"
        /\ UNCHANGED <<observe, produced, finished, handler, stream, frameID, notifyChan>>
    BY <1>1 DEF IncomingEstabResp, IncomingEstabLate, IncomingReads, userVars, deviceVars
  <2>2. Thinner(toServer, toServer', {"notify"}, x)
    BY <1>a, <2>1, Thins, Zenon
  <2>3. /\ Thinner(toDevice, toDevice', {"continue", "terminate"}, x)
        /\ Thinner(toDevice, toDevice', {"estab"}, x)
    BY <1>a, <2>1, Thins, Zenon
  <2>4. Quiet(x)
    BY <2>1, <2>2, <2>3 DEF Quiet, Holding
  <2>5. Later(x)
    BY <2>1 DEF Later
  <2>6. QED BY <2>4, <2>5, QuietCycle
<1>2. ASSUME NEW o \in Observer, NEW f \in Data \cup {Terminate},
             IncomingNotify(o, f) \/ IncomingNotifyGone(o, f)
      PROVE  Cycle(x)' /\ Asked(x)'
  <2>1. /\ toServer # <<>> /\ toServer' = Tail(toServer) /\ Head(toServer) = <<"notify", o, f>>
        /\ UNCHANGED <<observe, produced, finished, handler, stream, frameID, notifyChan>>
        /\ incoming = "read"
    BY <1>2 DEF IncomingNotify, IncomingNotifyGone, IncomingReads, userVars, deviceVars
  <2>2. Head(toServer)[1] = "notify" /\ Head(toServer)[2] = o
    BY <2>1
  <2>3. Thinner(toServer, toServer', {"notify"}, x)
    BY <1>a, <2>1, Thins, Zenon
  <2>4. Later(x)
    BY <2>1 DEF Later
  <2>5. x = o => Coming(x) /\ ~Coming(x)'
    <3>1. Head(toServer)[1] \in {"notify"}
      BY <2>2
    <3>2. One(toServer, {"notify"}, o) => Has(toServer, {"notify"}, o)
                                           /\ ~Has(Tail(toServer), {"notify"}, o)
      BY <2>1, <2>2, <3>1, FirstOfQueues
    <3>3. QED BY <2>1, <3>2 DEF Coming, Cycle
  <2>6. CASE IncomingNotify(o, f)
    <3>1. toDevice' = toDevice /\ incoming' = "notify" /\ held' = <<o, f>>
      BY <2>6 DEF IncomingNotify
    <3>2. /\ Thinner(toDevice, toDevice', {"continue", "terminate"}, x)
          /\ Thinner(toDevice, toDevice', {"estab"}, x)
      BY <1>a, <3>1, Thins, Zenon
    <3>3. held'[1] = o
      BY <3>1
    <3>4. CASE x # o
      <4>1. Quiet(x)
        BY <2>1, <2>3, <3>2, <3>3, <3>4 DEF Quiet
      <4>2. QED BY <2>4, <4>1, QuietCycle
    <3>5. CASE x = o
      <4>1. Cycle(x)'
        BY <2>1, <2>3, <2>5, <3>1, <3>2, <3>5 DEF Cycle, Thinner, Coming, Answered
      <4>2. Asked(x)'
        BY <2>1, <3>1 DEF Asked
      <4>3. QED BY <4>1, <4>2
    <3>6. QED BY <3>4, <3>5
  <2>7. CASE IncomingNotifyGone(o, f)
    <3> DEFINE m == <<"terminate", o>>
    <3>1. /\ toDevice' = toDevice \/ toDevice' = Append(toDevice, m)
          /\ incoming' # "notify" /\ held' = held
      BY <2>7, ReplyPuts DEF IncomingNotifyGone
    <3>2. m \in ToDevice /\ m[1] = "terminate" /\ m[2] = o
      BY DEF ToDevice
    <3> HIDE DEF m
    <3>3. Thinner(toDevice, toDevice', {"estab"}, x)
      <4>1. ~(m[1] \in {"estab"} /\ m[2] = x)
        BY <3>2
      <4>2. QED BY <1>a, <3>1, <3>2, <4>1, Thins, Zenon
    <3>4. CASE x # o
      <4>1. Thinner(toDevice, toDevice', {"continue", "terminate"}, x)
        BY <1>a, <3>1, <3>2, <3>4, Thins, Zenon
      <4>2. Quiet(x)
        BY <2>1, <2>3, <3>1, <3>3, <4>1 DEF Quiet
      <4>3. QED BY <2>4, <4>2, QuietCycle
    <3>5. CASE x = o
      <4>1. One(toDevice', {"continue", "terminate"}, x)
        BY <1>a, <2>5, <3>1, <3>2, <3>5, AppendAt DEF Cycle, Answered
      <4>2. Cycle(x)'
        BY <2>1, <2>3, <2>5, <3>1, <3>5, <4>1 DEF Cycle, Thinner, Coming, Holding
      <4>3. Asked(x)'
        BY <2>1, <3>3 DEF Asked, Thinner
      <4>4. QED BY <4>2, <4>3
    <3>6. QED BY <3>4, <3>5
  <2>8. QED BY <1>2, <2>6, <2>7
<1>3. CASE IncomingNotified
  <2>1. /\ UNCHANGED <<toServer, observe, produced, finished, handler, stream, frameID>>
        /\ incoming = "notify" /\ incoming' \in {"read", "hung"}
        /\ notifyChan' = [notifyChan EXCEPT ![held[1]] = <<held[2]>>]
        /\ toDevice' = toDevice \/ toDevice' = Append(toDevice, <<"continue", held[1]>>)
    BY <1>3, ReplyPuts DEF IncomingNotified, Notifies, userVars, deviceVars
  <2>2. held[1] \in Observer
    BY <2>1 DEF Types, SessionTypes
  <2> DEFINE m == <<"continue", held[1]>>
  <2>3. /\ m \in ToDevice /\ m[1] = "continue" /\ m[2] = held[1]
        /\ toDevice' = toDevice \/ toDevice' = Append(toDevice, m)
    BY <2>1, <2>2 DEF ToDevice
  <2>4. x # held[1] => notifyChan'[x] = notifyChan[x]
    BY <1>a, <2>1
  <2> HIDE DEF m
  <2>5. Thinner(toServer, toServer', {"notify"}, x)
    BY <1>a, <2>1, Thins, Zenon
  <2>6. Thinner(toDevice, toDevice', {"estab"}, x)
    <3>1. ~(m[1] \in {"estab"} /\ m[2] = x)
      BY <2>3
    <3>2. QED BY <1>a, <2>3, <3>1, Thins, Zenon
  <2>7. CASE x # held[1]
    <3>1. Thinner(toDevice, toDevice', {"continue", "terminate"}, x)
      BY <1>a, <2>3, <2>7, Thins, Zenon
    <3>2. Quiet(x)
      BY <2>1, <2>5, <2>6, <3>1 DEF Quiet
    <3>3. Later(x)
      BY <2>1, <2>4, <2>7 DEF Later
    <3>4. QED BY <3>2, <3>3, QuietCycle
  <2>8. CASE x = held[1]
    <3>1. Holding(x) /\ ~Holding(x)'
      BY <2>1, <2>8 DEF Holding
    <3>a. One(toDevice, {"continue", "terminate"}, x) /\ ~Has(toDevice, {"continue", "terminate"}, x)
      BY <3>1 DEF Cycle, Answered
    <3>b. One(Append(toDevice, m), {"continue", "terminate"}, x)
      BY <1>a, <2>3, <3>a, AppendAt
    <3>2. One(toDevice', {"continue", "terminate"}, x)
      BY <2>3, <3>a, <3>b
    <3>3. Cycle(x)'
      BY <2>1, <2>5, <3>1, <3>2 DEF Cycle, Thinner, Coming
    <3>4. observe[x] \in {"wait", "ended"}
      BY <3>1 DEF Cycle
    <3>5. Asked(x)'
      BY <2>1, <2>6, <3>4 DEF Asked, Thinner
    <3>6. QED BY <3>3, <3>5
  <2>9. QED BY <2>7, <2>8
<1>4. CASE IncomingPanics \/ SessionDone \/ SessionCloses
  <2>1. /\ UNCHANGED <<incoming, held, observe, produced, finished, handler, stream, frameID,
                       notifyChan>>
        /\ toServer' = toServer \/ toServer' = <<>>
        /\ toDevice' = toDevice \/ toDevice' = <<>>
    BY <1>4 DEF IncomingPanics, SessionDone, SessionCloses, userVars, deviceVars
  <2>2. Thinner(toServer, toServer', {"notify"}, x)
    BY <1>a, <2>1, Thins, Zenon
  <2>3. /\ Thinner(toDevice, toDevice', {"continue", "terminate"}, x)
        /\ Thinner(toDevice, toDevice', {"estab"}, x)
    BY <1>a, <2>1, Thins, Zenon
  <2>4. Quiet(x) /\ Later(x)
    BY <2>1, <2>2, <2>3 DEF Quiet, Later, Holding
  <2>5. QED BY <2>4, QuietCycle
<1>5. CASE OutgoingClogs
  <2>1. PICK n \in 0 .. Len(toDevice) : toDevice' = SubSeq(toDevice, 1, n)
    BY <1>5 DEF OutgoingClogs
  <2>2. UNCHANGED <<toServer, incoming, held, observe, produced, finished, handler, stream,
                    frameID, notifyChan>>
    BY <1>5 DEF OutgoingClogs, userVars, deviceVars
  <2>3. Thinner(toServer, toServer', {"notify"}, x)
    BY <1>a, <2>2, Thins, Zenon
  <2>4. /\ Thinner(toDevice, toDevice', {"continue", "terminate"}, x)
        /\ Thinner(toDevice, toDevice', {"estab"}, x)
    BY <1>a, <2>1, PrefixThins, Zenon
  <2>5. Quiet(x) /\ Later(x)
    BY <2>2, <2>3, <2>4 DEF Quiet, Later, Holding
  <2>6. QED BY <2>5, QuietCycle
<1>6. QED BY <1>1, <1>2, <1>3, <1>4, <1>5, Zenon DEF IncomingNext

LEMMA PutsQueue ==
  ASSUME Types, NEW m \in ToServer, DevicePuts(<<m>>)
  PROVE  /\ toServer' = toServer \/ toServer' = Append(toServer, m)
         /\ session # "closed" => toServer' = Append(toServer, m)
<1>1. toServer \o <<m>> = Append(toServer, m)
  BY ConcatOne DEF Types, SessionTypes
<1>2. QED BY <1>1 DEF DevicePuts

LEMMA ReadsQueue ==
  ASSUME Types, NEW kind, NEW o \in Observer, NEW answers, DeviceReads(kind, o, answers)
  PROVE  /\ toDevice # <<>> /\ toDevice' = Tail(toDevice)
         /\ Head(toDevice)[1] = kind /\ Head(toDevice)[2] = o
         /\ answers = <<>> => toServer' = toServer
<1>1. toServer \o <<>> = toServer
  BY ConcatOne DEF Types, SessionTypes
<1>2. answers = <<>> => toServer' = toServer
  BY <1>1 DEF DeviceReads
<1>3. Head(toDevice) = <<kind, o>> /\ toDevice # <<>> /\ toDevice' = Tail(toDevice)
  BY DEF DeviceReads
<1>4. QED BY <1>2, <1>3

\* A step of the device.
LEMMA CycleDevice ==
  ASSUME Types, NEW x \in Observer, Cycle(x), Asked(x), NEW o \in Observer, DeviceNext(o)
  PROVE  Cycle(x)' /\ Asked(x)'
<1>a. /\ toServer \in Seq(ToServer) /\ toDevice \in Seq(ToDevice)
      /\ observe \in [Observer -> {"none", "next", "wait", "ended"}]
      /\ produced \in [Observer -> 0 .. MaxFrame]
  BY DEF Types, SessionTypes, DeviceTypes
<1>b. /\ UNCHANGED <<incoming, held, handler, stream, frameID, notifyChan>>
  <2>1. ASSUME NEW kind, NEW answers, DeviceReads(kind, o, answers)
        PROVE  UNCHANGED <<incoming, held, handler, stream, frameID, notifyChan>>
    BY <2>1 DEF DeviceReads, sessionVars, userVars
  <2>2. ASSUME NEW messages, DevicePuts(messages)
        PROVE  UNCHANGED <<incoming, held, handler, stream, frameID, notifyChan>>
    BY <2>2 DEF DevicePuts, sessionVars, userVars
  <2>3. QED
    BY <2>1, <2>2, Zenon DEF DeviceNext, ObserveNext, DeviceRefuses, DeviceFails, DeviceObserves,
       DeviceEstablished, ObserveSends, ObserveFinishes, ObserveTimesOut, ObserveGetsResp,
       ObserveRespLate
<1>c. Later(x)
  BY <1>b DEF Later
<1>d. ASSUME toServer' = toServer \/ \E m \in ToServer : m[1] = "estab" /\ toServer' = Append(toServer, m)
      PROVE  Thinner(toServer, toServer', {"notify"}, x)
  <2>1. CASE toServer' = toServer
    BY <1>a, <2>1, Thins, Zenon
  <2>2. CASE \E m \in ToServer : m[1] = "estab" /\ toServer' = Append(toServer, m)
    <3>1. PICK m \in ToServer : m[1] = "estab" /\ toServer' = Append(toServer, m)
      BY <2>2
    <3>2. ~(m[1] \in {"notify"} /\ m[2] = x)
      BY <3>1
    <3>3. QED BY <1>a, <3>1, <3>2, Thins, Zenon
  <2>3. QED BY <1>d, <2>1, <2>2
<1>e. ASSUME toDevice' = toDevice \/ (toDevice # <<>> /\ toDevice' = Tail(toDevice))
      PROVE  /\ Thinner(toDevice, toDevice', {"continue", "terminate"}, x)
             /\ Thinner(toDevice, toDevice', {"estab"}, x)
  BY <1>a, <1>e, Thins, Zenon
<1>f. /\ <<"estab", o, Terminate>> \in ToServer /\ <<"estab", o, 1>> \in ToServer
      /\ <<"estab", o, Terminate>>[1] = "estab" /\ <<"estab", o, 1>>[1] = "estab"
      /\ <<"notify", o, Terminate>> \in ToServer
  BY DEF ToServer, Terminate
<1>1. CASE DeviceRefuses(o) \/ DeviceFails(o) \/ DeviceEstablished(o)
           \/ \E kind \in {"continue", "terminate"} : ObserveRespLate(o, kind)
  <2>1. UNCHANGED <<observe, produced, finished>>
    BY <1>1 DEF DeviceRefuses, DeviceFails, DeviceEstablished, ObserveRespLate, deviceVars
  <2>2. toServer' = toServer \/ \E m \in ToServer : m[1] = "estab" /\ toServer' = Append(toServer, m)
    <3>1. CASE DeviceRefuses(o)
      <4> DEFINE m == <<"estab", o, Terminate>>
      <4>1. toServer' = toServer \o <<m>>
        BY <3>1 DEF DeviceRefuses, DeviceReads
      <4>2. m \in ToServer /\ m[1] = "estab"
        BY <1>f
      <4> HIDE DEF m
      <4>3. QED BY <1>a, <4>1, <4>2, ConcatOne
    <3>2. CASE DeviceEstablished(o)
      BY <1>f, <3>2, PutsQueue, Zenon DEF DeviceEstablished
    <3>3. CASE DeviceFails(o) \/ \E kind \in {"continue", "terminate"} : ObserveRespLate(o, kind)
      BY <3>3, ReadsQueue, Zenon DEF DeviceFails, ObserveRespLate
    <3>4. QED BY <1>1, <3>1, <3>2, <3>3
  <2>3. toDevice' = toDevice \/ (toDevice # <<>> /\ toDevice' = Tail(toDevice))
    <3>1. CASE DeviceEstablished(o)
      BY <3>1 DEF DeviceEstablished, DevicePuts
    <3>2. CASE \E kind, answers : DeviceReads(kind, o, answers)
      BY <3>2 DEF DeviceReads
    <3>3. QED BY <1>1, <3>1, <3>2, Zenon DEF DeviceRefuses, DeviceFails, ObserveRespLate
  <2>4. Quiet(x)
    BY <1>b, <1>d, <1>e, <2>1, <2>2, <2>3 DEF Quiet, Holding
  <2>5. QED BY <1>c, <2>4, QuietCycle
<1>2. CASE DeviceObserves(o)
  <2>1. /\ toDevice # <<>> /\ toDevice' = Tail(toDevice) /\ toServer' = toServer
        /\ Head(toDevice)[1] = "estab" /\ Head(toDevice)[2] = o
        /\ observe' = [observe EXCEPT ![o] = "next"] /\ UNCHANGED <<produced, finished>>
    BY <1>2, ReadsQueue DEF DeviceObserves
  <2>2. CASE x # o
    <3>1. Quiet(x)
      BY <1>a, <1>b, <1>d, <1>e, <2>1, <2>2 DEF Quiet, Holding
    <3>2. QED BY <1>c, <3>1, QuietCycle
  <2>3. CASE x = o
    <3>1. Has(toDevice, {"estab"}, x) /\ ~Has(toDevice', {"estab"}, x)
      <4>1. Head(toDevice)[1] \in {"estab"}
        BY <2>1
      <4>2. One(toDevice, {"estab"}, o) => Has(toDevice, {"estab"}, o)
                                            /\ ~Has(Tail(toDevice), {"estab"}, o)
        BY <2>1, <4>1, FirstOfQueues
      <4>3. QED BY <2>1, <2>3, <4>2 DEF Asked
    <3>2. observe[x] = "none" /\ handler[x] \notin Early /\ observe'[x] = "next"
      BY <1>a, <2>1, <2>3, <3>1 DEF Asked
    <3>3. Asked(x)'
      BY <1>b, <1>e, <2>1, <3>1, <3>2 DEF Asked, Thinner
    <3>4. Cycle(x)'
      BY <1>b, <1>d, <1>e, <2>1, <3>2 DEF Cycle, Thinner, Coming, Holding, Answered
    <3>5. QED BY <3>3, <3>4
  <2>4. QED BY <2>2, <2>3
<1>3. ASSUME NEW f \in Nat, DevicePuts(<<<<"notify", o, f>>>>), observe[o] = "next",
             observe' = [observe EXCEPT ![o] = "wait"],
             x # o => produced'[x] = produced[x] /\ (x \in finished' <=> x \in finished)
      PROVE  Cycle(x)' /\ Asked(x)'
  <2> DEFINE m == <<"notify", o, f>>
  <2>1. m \in ToServer /\ m[1] = "notify" /\ m[2] = o /\ DevicePuts(<<m>>)
    BY <1>3 DEF ToServer
  <2>2. toDevice' = toDevice
    BY <1>3 DEF DevicePuts
  <2> HIDE DEF m
  <2>3. toServer' = toServer \/ toServer' = Append(toServer, m)
    BY <2>1, PutsQueue
  <2>4. CASE x # o
    <3>1. Thinner(toServer, toServer', {"notify"}, x)
      <4>1. Thinner(toServer, toServer, {"notify"}, x)
        BY <1>a, Thins
      <4>2. ~(m[1] \in {"notify"} /\ m[2] = x)
        BY <2>1, <2>4
      <4>3. Thinner(toServer, Append(toServer, m), {"notify"}, x)
        BY <1>a, <2>1, <4>2, Thins
      <4>4. QED BY <2>3, <4>1, <4>3
    <3>2. Quiet(x)
      BY <1>3, <1>a, <1>b, <1>e, <2>2, <2>4, <3>1 DEF Quiet, Holding
    <3>3. QED BY <1>c, <3>2, QuietCycle
  <2>5. CASE x = o
    <3>1. ~Coming(x) /\ ~Holding(x) /\ ~Answered(x) /\ observe'[x] = "wait"
      BY <1>3, <1>a, <2>5 DEF Cycle
    <3>2. One(toServer', {"notify"}, x)
      <4>1. One(Append(toServer, m), {"notify"}, x)
        BY <1>a, <2>1, <3>1, AppendAt DEF Cycle, Coming
      <4>2. QED BY <2>3, <4>1 DEF Cycle
    <3>3. Cycle(x)'
      BY <1>b, <1>e, <2>2, <3>1, <3>2 DEF Cycle, Holding, Answered
    <3>4. Asked(x)'
      BY <1>3, <1>b, <1>e, <2>2, <2>5, <3>1 DEF Asked, Thinner
    <3>5. QED BY <3>3, <3>4
  <2>6. QED BY <2>4, <2>5
<1>4. CASE ObserveSends(o)
  <2>1. PICK k : /\ k = IF produced[o] < MaxFrame THEN produced[o] + 1 ELSE MaxFrame
                 /\ DevicePuts(<<<<"notify", o, k>>>>)
                 /\ produced' = [produced EXCEPT ![o] = k]
    BY <1>4 DEF ObserveSends
  <2>2. /\ observe[o] = "next" /\ observe' = [observe EXCEPT ![o] = "wait"]
        /\ finished' = finished
    BY <1>4 DEF ObserveSends
  <2>3. k \in Nat
    BY <1>a, <2>1, MaxFrameAssumption
  <2>4. x # o => produced'[x] = produced[x]
    BY <1>a, <2>1
  <2>5. QED BY <1>3, <2>1, <2>2, <2>3, <2>4
<1>5. CASE ObserveFinishes(o)
  <2>1. /\ observe[o] = "next" /\ observe' = [observe EXCEPT ![o] = "wait"]
        /\ finished' = finished \cup {o} /\ produced' = produced
        /\ DevicePuts(<<<<"notify", o, Terminate>>>>) /\ Terminate \in Nat
    BY <1>5 DEF ObserveFinishes, Terminate
  <2>2. x # o => produced'[x] = produced[x] /\ (x \in finished' <=> x \in finished)
    BY <2>1
  <2>3. QED BY <1>3, <2>1, <2>2
<1>6. CASE ObserveTimesOut(o)
  <2>1. /\ observe[o] = "wait" /\ observe' = [observe EXCEPT ![o] = "ended"]
        /\ UNCHANGED <<produced, finished, toDevice>> /\ toServer' = toServer
    <3>1. toServer \o <<>> = toServer
      BY <1>a, ConcatOne
    <3>2. QED BY <1>6, <3>1 DEF ObserveTimesOut, DevicePuts
  <2>2. observe'[x] = observe[x] \/ (observe[x] = "wait" /\ observe'[x] = "ended")
    BY <1>a, <2>1
  <2>3. QED BY <1>b, <2>1, <2>2 DEF Cycle, Asked, Coming, Holding, Answered
<1>7. CASE \E kind \in {"continue", "terminate"} : ObserveGetsResp(o, kind)
  <2>1. PICK kind \in {"continue", "terminate"} : ObserveGetsResp(o, kind)
    BY <1>7
  <2>2. PICK to : /\ observe' = [observe EXCEPT ![o] = to]
                  /\ to = IF kind = "continue" /\ o \notin finished THEN "next" ELSE "ended"
    BY <2>1 DEF ObserveGetsResp
  <2>3. /\ toDevice # <<>> /\ toDevice' = Tail(toDevice) /\ toServer' = toServer
        /\ Head(toDevice)[1] \in {"continue", "terminate"} /\ Head(toDevice)[2] = o
        /\ UNCHANGED <<produced, finished>> /\ observe[o] = "wait"
    BY <2>1, ReadsQueue DEF ObserveGetsResp
  <2>4. CASE x # o
    <3>1. Quiet(x)
      BY <1>a, <1>b, <1>d, <1>e, <2>2, <2>3, <2>4 DEF Quiet, Holding
    <3>2. QED BY <1>c, <3>1, QuietCycle
  <2>5. CASE x = o
    <3>1. Answered(x) /\ ~Answered(x)'
      <4>1. One(toDevice, {"continue", "terminate"}, o)
              => /\ Has(toDevice, {"continue", "terminate"}, o)
                 /\ ~Has(Tail(toDevice), {"continue", "terminate"}, o)
        BY <2>3, FirstOfQueues
      <4>2. QED BY <2>3, <2>5, <4>1 DEF Answered, Cycle
    <3>2. /\ observe'[x] \in {"next", "ended"} /\ (observe'[x] = "next" => x \notin finished)
          /\ observe[x] = "wait"
      BY <1>a, <2>2, <2>3, <2>5
    <3>3. ~Coming(x)' /\ ~Holding(x)'
      BY <1>b, <2>3, <3>1 DEF Cycle, Coming, Holding
    <3>4. Cycle(x)'
      BY <1>d, <1>e, <2>3, <3>1, <3>2, <3>3 DEF Cycle, Thinner
    <3>5. Asked(x)'
      BY <1>b, <1>e, <2>3, <3>2 DEF Asked, Thinner
    <3>6. QED BY <3>4, <3>5
  <2>6. QED BY <2>4, <2>5
<1>8. QED
  BY <1>1, <1>2, <1>4, <1>5, <1>6, <1>7, Zenon DEF DeviceNext, ObserveNext

LEMMA CycleStep ==
  ASSUME Types, CycleInv, [Next]_vars
  PROVE  CycleInv'
<1> SUFFICES ASSUME NEW x \in Observer PROVE Cycle(x)' /\ Asked(x)'
  BY DEF CycleInv
<1>1. Cycle(x) /\ Asked(x)
  BY DEF CycleInv
<1>2. CASE UNCHANGED vars
  BY <1>1, <1>2 DEF vars, sessionVars, userVars, deviceVars, Cycle, Asked, Coming, Holding,
     Answered
<1>3. QED BY <1>1, <1>2, CycleHandler, CycleIncoming, CycleDevice, Zenon DEF Next

-----------------------------------------------------------------------------
(* The frames of an observation in their order: those of the stream, the one in
   stream.Send, the one in NotifyChan and the one under way.                *)

\* Frame f is the p-th that the device has sent.
Placed(o, f, p) ==
  IF f = Terminate THEN o \in finished /\ p = produced[o] + 1 ELSE f = p /\ p <= produced[o]

\* How many frames the device has sent, have come to stream.Send, and further to NotifyChan.
Sent(o) == produced[o] + (IF o \in finished THEN 1 ELSE 0)
Base(o) == frameID[o] + (IF handler[o] = "send" THEN 1 ELSE 0)
Got(o) == Base(o) + Len(notifyChan[o])

\* The user is there and the stream goes on.
Live(o) ==
  /\ o \notin gone
  /\ \/ handler[o] \in {"wait", "serve"}
     \/ handler[o] = "send" /\ pending[o] # Failure

Carries(q, o, f) == \E i \in 1 .. Len(q) : q[i] = <<"notify", o, f>>

Numbered(o) ==
  o \notin gone /\ handler[o] \in {"wait", "serve", "send"} => Len(stream[o]) = frameID[o]

Chain(o) ==
  Live(o) =>
    /\ handler[o] = "send" => Placed(o, pending[o], Base(o))
    /\ notifyChan[o] # <<>> => Placed(o, notifyChan[o][1], Base(o) + 1)
    /\ Holding(o) => Placed(o, held[2], Got(o) + 1)
    /\ \A f \in Nat : Carries(toServer, o, f) => Placed(o, f, Got(o) + 1)
    /\ session # "closed" => Sent(o) = Got(o) + (IF Coming(o) \/ Holding(o) THEN 1 ELSE 0)

ChainInv == \A o \in Observer : Numbered(o) /\ Chain(o)

LEMMA CarriesHas ==
  ASSUME NEW q, NEW o, NEW f, Carries(q, o, f)
  PROVE  Has(q, {"notify"}, o)
<1>1. <<"notify", o, f>>[1] = "notify" /\ <<"notify", o, f>>[2] = o
  OBVIOUS
<1>2. QED BY <1>1 DEF Carries, Has, At

LEMMA CarriesTail ==
  ASSUME NEW S, NEW q \in Seq(S), q # <<>>, NEW o, NEW f, Carries(Tail(q), o, f)
  PROVE  Carries(q, o, f)
<1>1. PICK i \in 1 .. Len(Tail(q)) : Tail(q)[i] = <<"notify", o, f>>
  BY DEF Carries
<1>2. Tail(q)[i] = q[i + 1] /\ i + 1 \in 1 .. Len(q)
  OBVIOUS
<1>3. QED BY <1>1, <1>2 DEF Carries

LEMMA CarriesHead ==
  ASSUME NEW S, NEW q \in Seq(S), q # <<>>, NEW o, NEW f, Head(q) = <<"notify", o, f>>
  PROVE  Carries(q, o, f)
<1>1. Head(q) = q[1] /\ 1 \in 1 .. Len(q)
  OBVIOUS
<1>2. QED BY <1>1 DEF Carries

LEMMA CarriesAppend ==
  ASSUME NEW S, NEW q \in Seq(S), NEW m \in S, NEW o, NEW f, Carries(Append(q, m), o, f)
  PROVE  Carries(q, o, f) \/ m = <<"notify", o, f>>
<1>1. PICK i \in 1 .. Len(Append(q, m)) : Append(q, m)[i] = <<"notify", o, f>>
  BY DEF Carries
<1>2. (Append(q, m)[i] = q[i] /\ i \in 1 .. Len(q)) \/ Append(q, m)[i] = m
  OBVIOUS
<1>3. QED BY <1>1, <1>2 DEF Carries

\* The step leaves what the device has sent to observer x, and all of it that has not
\* come to NotifyChan is still under way.
Net(x) ==
  /\ \A f \in Nat : Carries(toServer', x, f) => Carries(toServer, x, f)
  /\ Holding(x)' => \/ Holding(x) /\ held'[2] = held[2]
                    \/ held'[2] \in Nat /\ Carries(toServer, x, held'[2])
  /\ session' # "closed" =>
       session # "closed" /\ (Coming(x)' \/ Holding(x)' <=> Coming(x) \/ Holding(x))
  /\ produced'[x] = produced[x]
  /\ x \in finished' <=> x \in finished

\* The step leaves what has come for x.
Hand(x) ==
  Live(x)' =>
    /\ Live(x)
    /\ notifyChan'[x] = notifyChan[x]
    /\ Base(x)' = Base(x)
    /\ handler'[x] = "send" => handler[x] = "send" /\ pending'[x] = pending[x]

LEMMA PlacedKept ==
  ASSUME NEW x, produced'[x] = produced[x], x \in finished' <=> x \in finished
  PROVE  \A f, p : Placed(x, f, p)' <=> Placed(x, f, p)
  BY DEF Placed

LEMMA ChainKept ==
  ASSUME Types, NEW x \in Observer, Chain(x), Net(x), Hand(x)
  PROVE  Chain(x)'
<1> SUFFICES ASSUME Live(x)'
             PROVE  /\ handler'[x] = "send" => Placed(x, pending[x], Base(x))'
                    /\ notifyChan'[x] # <<>> => Placed(x, notifyChan[x][1], Base(x) + 1)'
                    /\ Holding(x)' => Placed(x, held[2], Got(x) + 1)'
                    /\ \A f \in Nat : Carries(toServer', x, f) => Placed(x, f, Got(x) + 1)'
                    /\ session' # "closed" =>
                         Sent(x)' = Got(x)' + (IF Coming(x)' \/ Holding(x)' THEN 1 ELSE 0)
  BY DEF Chain
<1>1. /\ Live(x) /\ notifyChan'[x] = notifyChan[x] /\ Base(x)' = Base(x) /\ Got(x)' = Got(x)
      /\ handler'[x] = "send" => handler[x] = "send" /\ pending'[x] = pending[x]
  BY DEF Hand, Got
<1>2. \A f, p : Placed(x, f, p)' <=> Placed(x, f, p)
  BY DEF Placed, Net
<1>3. Sent(x)' = Sent(x)
  BY DEF Sent, Net
<1>4. handler'[x] = "send" => Placed(x, pending[x], Base(x))'
  BY <1>1, <1>2 DEF Chain, Placed
<1>5. QED BY <1>1, <1>2, <1>3, <1>4 DEF Chain, Net

\* Handlers, users: nothing moves between the server and the device but the question.
LEMMA NetOfHandlers ==
  ASSUME NEW o \in Observer, NEW x \in Observer,
         HandlerBegins(o) \/ HandlerNext(o) \/ HandlerSent(o) \/ UserGoes(o)
  PROVE  Net(x)
<1>1. UNCHANGED <<session, toServer, incoming, held, produced, finished>>
  <2>1. CASE UserGoes(o)
    BY <2>1 DEF UserGoes, sessionVars, deviceVars
  <2>2. CASE \E from, to : HandlerMoves(o, from, to)
    BY <2>2 DEF HandlerMoves, sessionVars, deviceVars
  <2>3. QED BY <2>1, <2>2, Zenon DEF HandlerBegins, HandlerNext, HandlerChecks, HandlerCreates,
       HandlerEstablishes, HandlerGetsResp, HandlerTimesOut, ServeSessionDone, ServeUserGone,
       ServeNotify, HandlerDestroys, HandlerSent
<1>2. QED BY <1>1 DEF Net, Holding, Coming

LEMMA ChainHandler ==
  ASSUME Types, NEW x \in Observer, Cycle(x), Asked(x), Numbered(x), Chain(x),
         NEW o \in Observer,
         HandlerBegins(o) \/ HandlerNext(o) \/ HandlerSent(o) \/ UserGoes(o)
  PROVE  Numbered(x)' /\ Chain(x)'
<1>a. /\ handler \in [Observer -> {"idle", "check", "create", "establish", "wait", "serve",
                                   "send", "destroy", "ended"}]
      /\ pending \in [Observer -> Nat] /\ frameID \in [Observer -> Nat]
      /\ stream \in [Observer -> Seq(Nat \X Nat)]
      /\ notifyChan \in [Observer -> Seq(Nat)] /\ Len(notifyChan[x]) <= 1
  BY DEF Types, HandlerTypes
<1>b. Net(x)
  BY NetOfHandlers
<1>1. ASSUME UNCHANGED <<handler[x], pending[x], frameID[x], stream[x], notifyChan[x]>>,
             x \in gone => x \in gone'
      PROVE  Numbered(x)' /\ Chain(x)'
  <2>1. Hand(x)
    BY <1>1 DEF Hand, Live, Base
  <2>2. QED BY <1>1, <1>b, <2>1, ChainKept DEF Numbered
<1>2. CASE UserGoes(o)
  BY <1>1, <1>2 DEF UserGoes, userVars
<1>3. CASE x # o /\ ~UserGoes(o)
  <2>1. gone' = gone /\ handler'[x] = handler[x]
    <3>1. CASE \E from, to : HandlerMoves(o, from, to)
      BY <1>a, <1>3, <3>1 DEF HandlerMoves
    <3>2. QED BY <1>3, <3>1, Zenon DEF HandlerBegins, HandlerNext, HandlerChecks, HandlerCreates,
         HandlerEstablishes, HandlerGetsResp, HandlerTimesOut, ServeSessionDone, ServeUserGone,
         ServeNotify, HandlerDestroys, HandlerSent
  <2>2. UNCHANGED <<pending[x], frameID[x], stream[x], notifyChan[x]>>
    <3>1. CASE HandlerBegins(o) \/ HandlerChecks(o) \/ HandlerCreates(o) \/ HandlerEstablishes(o)
               \/ HandlerDestroys(o) \/ ServeUserGone(o)
      BY <1>a, <1>3, <3>1 DEF HandlerBegins, HandlerChecks, HandlerCreates, HandlerEstablishes,
         HandlerDestroys, ServeUserGone
    <3>2. CASE HandlerGetsResp(o) \/ HandlerTimesOut(o) \/ ServeSessionDone(o) \/ ServeNotify(o)
      BY <1>a, <1>3, <3>2 DEF HandlerGetsResp, HandlerTimesOut, ServeSessionDone, ServeNotify, Sends
    <3>3. CASE HandlerSent(o)
      BY <1>a, <1>3, <3>3 DEF HandlerSent
    <3>4. QED BY <1>3, <3>1, <3>2, <3>3, Zenon DEF HandlerNext
  <2>3. QED BY <1>1, <2>1, <2>2
<1>4. ASSUME x = o, HandlerBegins(x) \/ HandlerChecks(x) \/ HandlerCreates(x)
                    \/ HandlerDestroys(x) \/ ServeUserGone(x)
      PROVE  Numbered(x)' /\ Chain(x)'
  <2>1. handler'[x] \in {"check", "create", "establish", "destroy", "ended"}
    BY <1>a, <1>4 DEF HandlerBegins, HandlerChecks, HandlerCreates, HandlerDestroys, ServeUserGone,
       HandlerMoves
  <2>2. QED BY <2>1 DEF Numbered, Chain, Live
<1>5. ASSUME HandlerTimesOut(x) \/ ServeSessionDone(x) \/ HandlerGetsResp(x)
      PROVE  Numbered(x)' /\ Chain(x)'
  <2>1. /\ UNCHANGED <<gone, frameID, stream, notifyChan>>
        /\ handler[x] \in {"wait", "serve"}
        /\ \/ handler'[x] = "send" /\ pending'[x] = Failure
           \/ handler'[x] = "serve"
    BY <1>a, <1>5 DEF HandlerTimesOut, ServeSessionDone, HandlerGetsResp, HandlerMoves, Sends
  <2>2. Hand(x)
    BY <2>1 DEF Hand, Live, Base
  <2>3. QED BY <1>b, <2>1, <2>2, ChainKept DEF Numbered
<1>6. ASSUME HandlerEstablishes(x)
      PROVE  Numbered(x)' /\ Chain(x)'
  <2>1. /\ UNCHANGED <<gone, frameID, stream, notifyChan, session>>
        /\ handler[x] = "establish" /\ handler'[x] = "wait"
    BY <1>a, <1>6 DEF HandlerEstablishes, HandlerMoves, sessionVars
  <2>2. /\ observe[x] = "none" /\ produced[x] = 0 /\ x \notin finished
        /\ notifyChan[x] = <<>> /\ stream[x] = <<>> /\ frameID[x] = 0
    BY <2>1 DEF Asked, Early
  <2>3. ~Coming(x) /\ ~Holding(x)
    BY <2>2 DEF Cycle
  <2>4. UNCHANGED <<toServer, incoming, held, produced, finished>>
    BY <1>6 DEF HandlerEstablishes, HandlerMoves, sessionVars, deviceVars
  <2>5. ~Coming(x)' /\ ~Holding(x)' /\ \A f \in Nat : ~Carries(toServer', x, f)
    BY <2>3, <2>4, CarriesHas DEF Coming, Holding
  <2>6. Sent(x)' = 0 /\ Base(x)' = 0 /\ Got(x)' = 0
    BY <2>1, <2>2, <2>4 DEF Sent, Base, Got
  <2>7. Chain(x)'
    BY <2>1, <2>2, <2>5, <2>6 DEF Chain
  <2>8. Numbered(x)'
    BY <2>1, <2>2 DEF Numbered
  <2>9. QED BY <2>7, <2>8
<1>7. ASSUME ServeNotify(x)
      PROVE  Numbered(x)' /\ Chain(x)'
  <2>1. /\ UNCHANGED <<gone, frameID, stream>>
        /\ handler[x] = "serve" /\ handler'[x] = "send"
        /\ notifyChan[x] # <<>> /\ pending'[x] = Head(notifyChan[x])
        /\ notifyChan'[x] = Tail(notifyChan[x])
    BY <1>a, <1>7 DEF ServeNotify, HandlerMoves, Sends
  <2>2. /\ Len(notifyChan[x]) = 1 /\ notifyChan'[x] = <<>> /\ pending'[x] = notifyChan[x][1]
    <3>1. notifyChan[x] \in Seq(Nat)
      BY <1>a
    <3>2. QED BY <1>a, <2>1, <3>1, OnlyOne
  <2>3. Numbered(x)'
    BY <2>1 DEF Numbered
  <2>4. ASSUME Live(x)' PROVE Chain(x)'
    <3>1. Live(x)
      BY <2>1, <2>4 DEF Live
    <3>2. Base(x)' = Base(x) + 1 /\ Got(x)' = Got(x) /\ Sent(x)' = Sent(x)
      BY <1>a, <1>b, <2>1, <2>2 DEF Base, Got, Sent, Net
    <3>3. \A f, p : Placed(x, f, p)' <=> Placed(x, f, p)
      BY <1>b DEF Placed, Net
    <3>4. Placed(x, pending[x], Base(x))'
      BY <2>1, <2>2, <3>1, <3>2, <3>3 DEF Chain, Placed
    <3>5. notifyChan'[x] = <<>>
      BY <2>2
    <3>6. Holding(x)' => Placed(x, held[2], Got(x) + 1)'
      BY <1>b, <3>1, <3>2, <3>3 DEF Chain, Net
    <3>7. \A f \in Nat : Carries(toServer', x, f) => Placed(x, f, Got(x) + 1)'
      BY <1>b, <3>1, <3>2, <3>3 DEF Chain, Net
    <3>8. session' # "closed" => Sent(x)' = Got(x)' + (IF Coming(x)' \/ Holding(x)' THEN 1 ELSE 0)
      BY <1>b, <3>1, <3>2 DEF Chain, Net
    <3>9. QED BY <3>4, <3>5, <3>6, <3>7, <3>8 DEF Chain
  <2>5. QED BY <2>3, <2>4 DEF Chain
<1>8. ASSUME HandlerSent(x)
      PROVE  Numbered(x)' /\ Chain(x)'
  <2>1. /\ handler[x] = "send" /\ handler'[x] = IF pending[x] \in Data THEN "serve" ELSE "destroy"
        /\ UNCHANGED <<gone, notifyChan>>
        /\ frameID'[x] = IF pending[x] \in Data THEN frameID[x] + 1 ELSE frameID[x]
        /\ x \notin gone => stream'[x] = Append(stream[x], <<frameID[x], pending[x]>>)
    BY <1>a, <1>8 DEF HandlerSent, HandlerMoves
  <2>2. CASE pending[x] \notin Data
    BY <2>1, <2>2 DEF Numbered, Chain, Live
  <2>3. CASE pending[x] \in Data
    <3>1. pending[x] # Failure
      BY <2>3, MaxFrameAssumption DEF Data, Failure
    <3>2. Hand(x)
      BY <1>a, <2>1, <2>3, <3>1 DEF Hand, Live, Base
    <3>3. x \notin gone => Len(stream'[x]) = Len(stream[x]) + 1
      <4>1. stream[x] \in Seq(Nat \X Nat) /\ <<frameID[x], pending[x]>> \in Nat \X Nat
        BY <1>a
      <4>2. QED BY <2>1, <4>1, AppendLast
    <3>4. Numbered(x)'
      BY <2>1, <2>3, <3>3 DEF Numbered
    <3>5. QED BY <1>b, <3>2, <3>4, ChainKept
  <2>4. QED BY <2>2, <2>3
<1>9. QED
  BY <1>2, <1>3, <1>4, <1>5, <1>6, <1>7, <1>8, Zenon DEF HandlerNext

\* A message from the device goes, and none comes.
LEMMA NetOfReads ==
  ASSUME Types, NEW x, toServer # <<>>, toServer' = Tail(toServer)
  PROVE  /\ \A f \in Nat : Carries(toServer', x, f) => Carries(toServer, x, f)
         /\ ~(Head(toServer)[1] = "notify" /\ Head(toServer)[2] = x) => (Coming(x)' <=> Coming(x))
         /\ \A f : Head(toServer) = <<"notify", x, f>> => Carries(toServer, x, f)
<1>a. toServer \in Seq(ToServer)
  BY DEF Types, SessionTypes
<1>1. \A f \in Nat : Carries(toServer', x, f) => Carries(toServer, x, f)
  BY <1>a, CarriesTail
<1>2. ~(Head(toServer)[1] = "notify" /\ Head(toServer)[2] = x) => (Coming(x)' <=> Coming(x))
  <2> DEFINE K == {"notify"}
  <2>1. Head(toServer)[1] \in K <=> Head(toServer)[1] = "notify"
    OBVIOUS
  <2>2. Coming(x)' = Has(toServer', K, x) /\ Coming(x) = Has(toServer, K, x)
    BY DEF Coming
  <2> HIDE DEF K
  <2>3. Has(toServer', K, x) => Has(toServer, K, x)
    BY <1>a, TailAt
  <2>4. ~(Head(toServer)[1] \in K /\ Head(toServer)[2] = x) /\ Has(toServer, K, x) => Has(toServer', K, x)
    BY <1>a, TailAt
  <2>5. QED BY <2>1, <2>2, <2>3, <2>4
<1>3. \A f : Head(toServer) = <<"notify", x, f>> => Carries(toServer, x, f)
  BY <1>a, CarriesHead
<1>4. QED BY <1>1, <1>2, <1>3

\* What a step of tcpIncomming or of the device does for observers in other calls.
LEMMA HandOfOthers ==
  ASSUME Types, NEW x \in Observer,
         UNCHANGED <<handler, pending, frameID, stream, gone>>,
         notifyChan'[x] = notifyChan[x]
  PROVE  Hand(x) /\ (Numbered(x) => Numbered(x)')
  BY DEF Hand, Live, Base, Numbered

LEMMA ChainIncoming ==
  ASSUME Types, StoreInv, NEW x \in Observer, Cycle(x), Asked(x), Numbered(x), Chain(x),
         IncomingNext \/ OutgoingClogs \/ SessionDone \/ SessionCloses
  PROVE  Numbered(x)' /\ Chain(x)'
<1>a. /\ toServer \in Seq(ToServer)
      /\ notifyChan \in [Observer -> Seq(Nat)] /\ frameID \in [Observer -> Nat]
  BY DEF Types, SessionTypes, HandlerTypes
<1>1. ASSUME NEW o \in Observer, NEW f \in Data \cup {Terminate},
             IncomingEstabResp(o, f) \/ IncomingEstabLate(o, f)
      PROVE  Numbered(x)' /\ Chain(x)'
  <2>1. /\ toServer # <<>> /\ toServer' = Tail(toServer) /\ Head(toServer) = <<"estab", o, f>>
        /\ incoming = "read" /\ incoming' \in {"read", "exit"} /\ held' = held
        /\ UNCHANGED <<session, produced, finished, notifyChan>>
        /\ UNCHANGED <<handler, pending, frameID, stream, gone>>
    BY <1>1 DEF IncomingEstabResp, IncomingEstabLate, IncomingReads, userVars, deviceVars
  <2>2. Net(x)
    BY <2>1, NetOfReads DEF Net, Holding
  <2>3. QED BY <2>1, <2>2, HandOfOthers, ChainKept
<1>2. ASSUME NEW o \in Observer, NEW f \in Data \cup {Terminate}, IncomingNotify(o, f)
      PROVE  Numbered(x)' /\ Chain(x)'
  <2>1. /\ toServer # <<>> /\ toServer' = Tail(toServer) /\ Head(toServer) = <<"notify", o, f>>
        /\ incoming = "read" /\ incoming' = "notify" /\ held' = <<o, f>>
        /\ UNCHANGED <<session, produced, finished, notifyChan>>
        /\ UNCHANGED <<handler, pending, frameID, stream, gone>>
    BY <1>2 DEF IncomingNotify, IncomingReads, userVars, deviceVars
  <2>2. f \in Nat
    BY MaxFrameAssumption DEF Data, Terminate
  <2>3. CASE x = o
    <3>1. Carries(toServer, x, f) /\ held'[2] = f /\ Holding(x)'
      BY <2>1, <2>3, NetOfReads DEF Holding
    <3>2. Coming(x)
      BY <3>1, CarriesHas DEF Coming
    <3>3. Net(x)
      BY <2>1, <2>2, <3>1, <3>2, NetOfReads DEF Net
    <3>4. QED BY <2>1, <3>3, HandOfOthers, ChainKept
  <2>4. CASE x # o
    <3>1. ~Holding(x) /\ ~Holding(x)'
      BY <2>1, <2>4 DEF Holding
    <3>2. Coming(x)' <=> Coming(x)
      BY <2>1, <2>4, NetOfReads
    <3>3. Net(x)
      BY <2>1, <3>1, <3>2, NetOfReads DEF Net
    <3>4. QED BY <2>1, <3>3, HandOfOthers, ChainKept
  <2>5. QED BY <2>3, <2>4
<1>3. ASSUME NEW o \in Observer, NEW f \in Data \cup {Terminate}, IncomingNotifyGone(o, f)
      PROVE  Numbered(x)' /\ Chain(x)'
  <2>1. /\ toServer # <<>> /\ toServer' = Tail(toServer) /\ Head(toServer) = <<"notify", o, f>>
        /\ incoming = "read" /\ incoming' # "notify" /\ held' = held
        /\ UNCHANGED <<session, produced, finished, notifyChan>>
        /\ UNCHANGED <<handler, pending, frameID, stream, gone>>
        /\ o \notin observaStore
    BY <1>3, ReplyPuts DEF IncomingNotifyGone, IncomingReads, userVars, deviceVars
  <2>2. CASE x = o
    <3>1. handler'[x] \notin Created
      BY <2>1, <2>2 DEF StoreInv
    <3>2. QED BY <3>1 DEF Created, Numbered, Chain, Live
  <2>3. CASE x # o
    <3>1. ~Holding(x) /\ ~Holding(x)'
      BY <2>1 DEF Holding
    <3>2. Coming(x)' <=> Coming(x)
      BY <2>1, <2>3, NetOfReads
    <3>3. Net(x)
      BY <2>1, <3>1, <3>2, NetOfReads DEF Net
    <3>4. QED BY <2>1, <3>3, HandOfOthers, ChainKept
  <2>4. QED BY <2>2, <2>3
<1>4. CASE IncomingNotified
  <2>1. /\ UNCHANGED <<session, toServer, produced, finished>>
        /\ UNCHANGED <<handler, pending, frameID, stream, gone>>
        /\ incoming = "notify" /\ incoming' # "notify"
        /\ notifyChan[held[1]] = <<>> /\ notifyChan' = [notifyChan EXCEPT ![held[1]] = <<held[2]>>]
    BY <1>4, ReplyPuts DEF IncomingNotified, Notifies, userVars, deviceVars
  <2>2. held[1] \in Observer /\ ~Holding(x)'
    BY <2>1 DEF Types, SessionTypes, Holding
  <2>3. CASE x # held[1]
    <3>1. notifyChan'[x] = notifyChan[x]
      BY <1>a, <2>1, <2>3
    <3>2. Net(x)
      BY <2>1, <2>2, <2>3 DEF Net, Coming, Holding
    <3>3. QED BY <2>1, <3>1, <3>2, HandOfOthers, ChainKept
  <2>4. CASE x = held[1]
    <3>1. Holding(x) /\ ~Coming(x)
      BY <2>1, <2>4 DEF Cycle, Holding
    <3>2. ~Coming(x)' /\ \A f \in Nat : ~Carries(toServer', x, f)
      BY <2>1, <3>1, CarriesHas DEF Coming
    <3>3. notifyChan[x] = <<>> /\ notifyChan'[x] = <<held[2]>>
      BY <1>a, <2>1, <2>4
    <3>4. Base(x)' = Base(x) /\ Base(x) \in Nat /\ Sent(x)' = Sent(x)
      BY <1>a, <2>1 DEF Base, Sent
    <3>5. Got(x) = Base(x) /\ Got(x)' = Base(x) + 1
      BY <3>3, <3>4 DEF Got
    <3>6. \A f, p : Placed(x, f, p)' <=> Placed(x, f, p)
      BY <2>1 DEF Placed
    <3>7. ASSUME Live(x)' PROVE Chain(x)'
      <4>1. Live(x)
        BY <2>1, <3>7 DEF Live
      <4>2. handler'[x] = "send" => Placed(x, pending[x], Base(x))'
        BY <2>1, <3>4, <3>6, <4>1 DEF Chain, Placed
      <4>3. Placed(x, held[2], Base(x) + 1)
        BY <3>1, <3>5, <4>1 DEF Chain
      <4>4. notifyChan'[x][1] = held[2]
        BY <3>3
      <4>5. Placed(x, notifyChan[x][1], Base(x) + 1)'
        BY <2>1, <3>4, <4>3, <4>4 DEF Placed
      <4>6. session' # "closed" => Sent(x)' = Got(x)'
        BY <2>1, <3>1, <3>4, <3>5, <4>1 DEF Chain
      <4>7. Got(x)' \in Nat
        BY <3>4, <3>5
      <4>8. QED BY <2>2, <3>2, <4>2, <4>5, <4>6, <4>7 DEF Chain
    <3>8. Numbered(x)'
      BY <2>1 DEF Numbered
    <3>9. QED BY <3>7, <3>8 DEF Chain
  <2>5. QED BY <2>3, <2>4
<1>5. CASE IncomingPanics \/ OutgoingClogs \/ SessionDone
  <2>1. /\ UNCHANGED <<toServer, produced, finished, incoming, held, notifyChan>>
        /\ UNCHANGED <<handler, pending, frameID, stream, gone>>
        /\ session' # "closed" => session # "closed"
    BY <1>5 DEF IncomingPanics, OutgoingClogs, SessionDone, userVars, deviceVars
  <2>2. Net(x)
    BY <2>1 DEF Net, Coming, Holding
  <2>3. QED BY <2>1, <2>2, HandOfOthers, ChainKept
<1>6. CASE SessionCloses
  <2>1. /\ UNCHANGED <<produced, finished, incoming, held, notifyChan>>
        /\ UNCHANGED <<handler, pending, frameID, stream, gone>>
        /\ session' = "closed" /\ toServer' = <<>>
    BY <1>6 DEF SessionCloses, userVars, deviceVars
  <2>2. \A f \in Nat : ~Carries(toServer', x, f)
    BY <2>1 DEF Carries
  <2>3. Net(x)
    BY <2>1, <2>2 DEF Net, Holding
  <2>4. QED BY <2>1, <2>3, HandOfOthers, ChainKept
<1>7. QED BY <1>1, <1>2, <1>3, <1>4, <1>5, <1>6, Zenon DEF IncomingNext

LEMMA ChainDevice ==
  ASSUME Types, StoreInv, NEW x \in Observer, Cycle(x), Asked(x), Numbered(x), Chain(x),
         NEW o \in Observer, DeviceNext(o)
  PROVE  Numbered(x)' /\ Chain(x)'
<1>a. /\ toServer \in Seq(ToServer) /\ frameID \in [Observer -> Nat]
      /\ pending \in [Observer -> Nat]
      /\ notifyChan \in [Observer -> Seq(Nat)] /\ produced \in [Observer -> 0 .. MaxFrame]
      /\ observe \in [Observer -> {"none", "next", "wait", "ended"}]
      /\ MaxFrame \in Nat
  BY MaxFrameAssumption DEF Types, SessionTypes, HandlerTypes, DeviceTypes
<1>b. /\ UNCHANGED <<session, incoming, held, notifyChan>>
      /\ UNCHANGED <<handler, pending, frameID, stream, gone>>
  <2>1. ASSUME NEW kind, NEW answers, DeviceReads(kind, o, answers)
        PROVE  /\ UNCHANGED <<session, incoming, held, notifyChan>>
               /\ UNCHANGED <<handler, pending, frameID, stream, gone>>
    BY <2>1 DEF DeviceReads, sessionVars, userVars
  <2>2. ASSUME NEW messages, DevicePuts(messages)
        PROVE  /\ UNCHANGED <<session, incoming, held, notifyChan>>
               /\ UNCHANGED <<handler, pending, frameID, stream, gone>>
    BY <2>2 DEF DevicePuts, sessionVars, userVars
  <2>3. QED
    BY <2>1, <2>2, Zenon DEF DeviceNext, ObserveNext, DeviceRefuses, DeviceFails, DeviceObserves,
       DeviceEstablished, ObserveSends, ObserveFinishes, ObserveTimesOut, ObserveGetsResp,
       ObserveRespLate
<1>c. Hand(x) /\ Numbered(x)'
  BY <1>b, HandOfOthers
<1> SUFFICES Chain(x)'
  BY <1>c
<1>d. ASSUME NEW m \in ToServer, ~(m[1] = "notify" /\ m[2] = x),
             toServer' = toServer \/ toServer' = Append(toServer, m),
             produced'[x] = produced[x], x \in finished' <=> x \in finished
      PROVE  Chain(x)'
  <2>1. \A f \in Nat : Carries(toServer', x, f) => Carries(toServer, x, f)
    <3>1. \A f \in Nat : m # <<"notify", x, f>>
      BY <1>d
    <3>2. \A f \in Nat : Carries(Append(toServer, m), x, f) => Carries(toServer, x, f)
      BY <1>a, <1>d, <3>1, CarriesAppend
    <3>3. QED BY <1>d, <3>2
  <2>2. Coming(x)' <=> Coming(x)
    <3>1. ~(m[1] \in {"notify"} /\ m[2] = x)
      BY <1>d
    <3>2. Has(Append(toServer, m), {"notify"}, x) <=> Has(toServer, {"notify"}, x)
      BY <1>a, <3>1, AppendAt
    <3>3. QED BY <1>d, <3>2 DEF Coming
  <2>3. Net(x)
    BY <1>b, <1>d, <2>1, <2>2 DEF Net, Holding
  <2>4. QED BY <1>c, <2>3, ChainKept
<1>e. ASSUME toServer' = toServer, UNCHANGED <<produced, finished>> PROVE Chain(x)'
  <2>1. Net(x)
    BY <1>b, <1>e DEF Net, Holding, Coming
  <2>2. QED BY <1>c, <2>1, ChainKept
<1>1. CASE DeviceRefuses(o) \/ DeviceEstablished(o)
  <2>1. UNCHANGED <<produced, finished>>
    BY <1>1 DEF DeviceRefuses, DeviceEstablished, deviceVars
  <2>2. \E m \in ToServer : /\ ~(m[1] = "notify" /\ m[2] = x)
                            /\ toServer' = toServer \/ toServer' = Append(toServer, m)
    <3>1. CASE DeviceRefuses(o)
      <4> DEFINE m == <<"estab", o, Terminate>>
      <4>1. toServer' = toServer \o <<m>>
        BY <3>1 DEF DeviceRefuses, DeviceReads
      <4>2. m \in ToServer /\ ~(m[1] = "notify" /\ m[2] = x)
        BY DEF ToServer, Terminate
      <4> HIDE DEF m
      <4>3. QED BY <1>a, <4>1, <4>2, ConcatOne
    <3>2. CASE DeviceEstablished(o)
      <4> DEFINE m == <<"estab", o, 1>>
      <4>1. DevicePuts(<<m>>)
        BY <3>2 DEF DeviceEstablished
      <4>2. m \in ToServer /\ ~(m[1] = "notify" /\ m[2] = x)
        BY DEF ToServer
      <4> HIDE DEF m
      <4>3. QED BY <4>1, <4>2, PutsQueue
    <3>3. QED BY <1>1, <3>1, <3>2
  <2>3. QED BY <1>d, <2>1, <2>2
<1>2. CASE DeviceFails(o) \/ DeviceObserves(o) \/ ObserveTimesOut(o)
           \/ \E kind \in {"continue", "terminate"} : ObserveGetsResp(o, kind) \/ ObserveRespLate(o, kind)
  <2>1. UNCHANGED <<produced, finished>>
    BY <1>2 DEF DeviceFails, DeviceObserves, ObserveTimesOut, ObserveGetsResp, ObserveRespLate
  <2>2. toServer' = toServer
    <3>1. CASE ObserveTimesOut(o)
      <4>1. toServer \o <<>> = toServer
        BY <1>a, ConcatOne
      <4>2. QED BY <3>1, <4>1 DEF ObserveTimesOut, DevicePuts
    <3>2. CASE \E kind : DeviceReads(kind, o, <<>>)
      BY <3>2, ReadsQueue
    <3>3. QED BY <1>2, <3>1, <3>2, Zenon DEF DeviceFails, DeviceObserves, ObserveGetsResp,
         ObserveRespLate
  <2>3. QED BY <1>e, <2>1, <2>2
<1>3. ASSUME NEW f \in Nat, x = o, DevicePuts(<<<<"notify", o, f>>>>), observe[x] = "next",
             Sent(x)' = Sent(x) + 1,
             Live(x) => \A g, p \in Nat : Placed(x, g, p) => Placed(x, g, p)',
             Live(x) => Placed(x, f, Sent(x))'
      PROVE  Chain(x)'
  <2> SUFFICES ASSUME Live(x)' PROVE Chain(x)'
    BY DEF Chain
  <2> DEFINE m == <<"notify", o, f>>
  <2>1. /\ m \in ToServer /\ m[1] \in {"notify"} /\ m[2] = o /\ DevicePuts(<<m>>)
        /\ \A g : m = <<"notify", x, g>> => g = f
    BY <1>3 DEF ToServer
  <2> HIDE DEF m
  <2>2. /\ toServer' = toServer \/ toServer' = Append(toServer, m)
        /\ session # "closed" => toServer' = Append(toServer, m)
    BY <2>1, PutsQueue
  <2>3. ~Coming(x) /\ ~Holding(x)
    BY <1>3 DEF Cycle
  <2>4. Live(x) /\ Base(x)' = Base(x) /\ Got(x)' = Got(x)
    BY <1>b DEF Live, Base, Got
  <2>5. session # "closed" => Sent(x) = Got(x)
    <3>1. Got(x) \in Nat
      BY <1>a DEF Got, Base
    <3>2. QED BY <2>3, <2>4, <3>1 DEF Chain
  <2>6. session # "closed" => Coming(x)'
    <3>1. Has(Append(toServer, m), {"notify"}, x)
      BY <1>3, <1>a, <2>1, AppendAt
    <3>2. QED BY <2>2, <3>1 DEF Coming
  <2>7. ASSUME NEW g \in Nat, Carries(toServer', x, g) PROVE Placed(x, g, Got(x) + 1)'
    <3>1. ~Carries(toServer, x, g)
      BY <2>3, CarriesHas DEF Coming
    <3>2. toServer' = Append(toServer, m)
      BY <2>2, <2>7, <3>1
    <3>3. g = f
      BY <1>a, <2>1, <2>7, <3>1, <3>2, CarriesAppend
    <3>4. session # "closed"
      <4>1. toServer # Append(toServer, m)
        <5>1. Len(Append(toServer, m)) = Len(toServer) + 1 /\ Len(toServer) \in Nat
          BY <1>a, <2>1
        <5>2. QED BY <5>1
      <4>2. QED BY <1>3, <3>2, <4>1 DEF DevicePuts
    <3>5. Sent(x)' = Got(x)' + 1
      BY <1>3, <2>4, <2>5, <3>4
    <3>6. QED BY <1>3, <2>4, <3>3, <3>5 DEF Placed
  <2>a. pending[x] \in Nat /\ Base(x) \in Nat /\ (notifyChan[x] # <<>> => notifyChan[x][1] \in Nat)
    BY <1>a, SMTT(30) DEF Base
  <2>8. handler'[x] = "send" => Placed(x, pending[x], Base(x))'
    BY <1>3, <1>b, <2>4, <2>a DEF Chain, Placed
  <2>9. notifyChan'[x] # <<>> => Placed(x, notifyChan[x][1], Base(x) + 1)'
    BY <1>3, <1>b, <2>4, <2>a DEF Chain, Placed
  <2>10. ~Holding(x)'
    BY <1>b, <2>3 DEF Holding
  <2>11. session' # "closed" => Sent(x)' = Got(x)' + (IF Coming(x)' \/ Holding(x)' THEN 1 ELSE 0)
    BY <1>3, <1>b, <2>4, <2>5, <2>6
  <2>12. QED BY <2>7, <2>8, <2>9, <2>10, <2>11 DEF Chain
<1>4. CASE ObserveSends(o)
  <2>1. PICK k : /\ k = IF produced[o] < MaxFrame THEN produced[o] + 1 ELSE MaxFrame
                 /\ DevicePuts(<<<<"notify", o, k>>>>)
                 /\ produced' = [produced EXCEPT ![o] = k]
    BY <1>4 DEF ObserveSends
  <2>2. /\ observe[o] = "next" /\ o \notin finished /\ finished' = finished
        /\ produced[o] < MaxFrame \/ handler[o] = "ended"
    BY <1>4 DEF ObserveSends
  <2>3. k \in Nat /\ produced'[o] = k
    BY <1>a, <2>1
  <2>4. CASE x # o
    <3> DEFINE m == <<"notify", o, k>>
    <3>1. m \in ToServer /\ m[2] = o /\ DevicePuts(<<m>>)
      BY <2>1, <2>3 DEF ToServer
    <3> HIDE DEF m
    <3>2. produced'[x] = produced[x]
      BY <1>a, <2>1, <2>4
    <3>3. toServer' = toServer \/ toServer' = Append(toServer, m)
      BY <3>1, PutsQueue
    <3>4. QED BY <1>d, <2>2, <2>4, <3>1, <3>2, <3>3
  <2>5. CASE x = o /\ handler[o] = "ended"
    BY <1>b, <2>5 DEF Chain, Live
  <2>6. CASE x = o /\ handler[o] # "ended"
    <3>1. produced'[x] = produced[x] + 1 /\ k = produced[x] + 1 /\ produced[x] \in Nat
      BY <1>a, <2>1, <2>2, <2>3, <2>6
    <3>2. Sent(x) = produced[x] /\ Sent(x)' = Sent(x) + 1
      BY <2>2, <2>6, <3>1 DEF Sent
    <3>3. ASSUME NEW g \in Nat, NEW p \in Nat, Placed(x, g, p) PROVE Placed(x, g, p)'
      BY <2>2, <2>6, <3>1, <3>3 DEF Placed
    <3>4. Placed(x, k, Sent(x))'
      BY <3>1, <3>2 DEF Placed, Terminate
    <3>5. QED BY <1>3, <2>1, <2>2, <2>3, <2>6, <3>2, <3>3, <3>4
  <2>7. QED BY <2>4, <2>5, <2>6
<1>5. CASE ObserveFinishes(o)
  <2>1. /\ observe[o] = "next" /\ finished' = finished \cup {o} /\ produced' = produced
        /\ DevicePuts(<<<<"notify", o, Terminate>>>>) /\ Terminate \in Nat
    BY <1>5 DEF ObserveFinishes, Terminate
  <2>2. CASE x # o
    <3> DEFINE m == <<"notify", o, Terminate>>
    <3>1. m \in ToServer /\ m[2] = o /\ DevicePuts(<<m>>)
      BY <2>1 DEF ToServer
    <3> HIDE DEF m
    <3>2. x \in finished' <=> x \in finished
      BY <2>1, <2>2
    <3>3. toServer' = toServer \/ toServer' = Append(toServer, m)
      BY <3>1, PutsQueue
    <3>4. QED BY <1>d, <2>1, <2>2, <3>1, <3>2, <3>3
  <2>3. CASE x = o
    <3>1. x \notin finished /\ produced[x] \in Nat
      BY <1>a, <2>1, <2>3 DEF Cycle
    <3>2. Sent(x) = produced[x] /\ Sent(x)' = Sent(x) + 1
      BY <2>1, <2>3, <3>1 DEF Sent
    <3>3. ASSUME NEW g \in Nat, NEW p \in Nat, Placed(x, g, p) PROVE Placed(x, g, p)'
      BY <2>1, <3>1, <3>3 DEF Placed
    <3>4. Placed(x, Terminate, Sent(x))'
      BY <2>1, <2>3, <3>2 DEF Placed
    <3>5. QED BY <1>3, <2>1, <2>3, <3>2, <3>3, <3>4
  <2>4. QED BY <2>2, <2>3
<1>6. QED
  BY <1>c, <1>1, <1>2, <1>4, <1>5, Zenon DEF DeviceNext, ObserveNext

LEMMA ChainStep ==
  ASSUME Types, StoreInv, CycleInv, ChainInv, [Next]_vars
  PROVE  ChainInv'
<1> SUFFICES ASSUME NEW x \in Observer PROVE Numbered(x)' /\ Chain(x)'
  BY DEF ChainInv
<1>1. Cycle(x) /\ Asked(x) /\ Numbered(x) /\ Chain(x)
  BY DEF CycleInv, ChainInv
<1>2. CASE UNCHANGED vars
  BY <1>1, <1>2 DEF vars, sessionVars, userVars, deviceVars, Numbered, Chain, Live, Placed, Sent,
     Base, Got, Coming, Holding
<1>3. QED BY <1>1, <1>2, ChainHandler, ChainIncoming, ChainDevice, Zenon DEF Next

LEMMA InitChain == Init => CycleInv /\ ChainInv
<1> SUFFICES ASSUME Init, NEW o \in Observer PROVE Cycle(o) /\ Asked(o) /\ Numbered(o) /\ Chain(o)
  BY DEF CycleInv, ChainInv
<1>1. Cycle(o) /\ Asked(o)
  BY DEF Init, Cycle, Asked, Has, One, Coming, Holding, Answered
<1>2. Numbered(o) /\ Chain(o)
  BY DEF Init, Numbered, Chain, Live
<1>3. QED BY <1>1, <1>2

FrameInv == Types /\ StoreInv /\ CycleInv /\ ChainInv

LEMMA FramesAlways == Spec => []FrameInv
<1>1. Init => FrameInv
  BY InitTypes, InitChain DEF FrameInv
<1>2. FrameInv /\ Types' /\ StoreInv' /\ [Next]_vars => FrameInv'
  BY CycleStep, ChainStep DEF FrameInv
<1>3. QED BY <1>1, <1>2, TypesAlways, PTL DEF Spec

-----------------------------------------------------------------------------
(* Every step of the observations is one of the stream, or none.           *)

over == {o \in Observer : handler[o] \in {"destroy", "ended"}}
StreamStays == UNCHANGED <<produced, finished, stream, over>>
StreamMoves == Stream!Next \/ StreamStays

LEMMA SendRefines ==
  ASSUME FrameInv, NEW o \in Observer, HandlerSent(o)
  PROVE  StreamMoves
<1>a. /\ handler \in [Observer -> {"idle", "check", "create", "establish", "wait", "serve",
                                   "send", "destroy", "ended"}]
      /\ pending[o] \in Nat /\ frameID[o] \in Nat /\ produced[o] \in 0 .. MaxFrame
      /\ stream \in [Observer -> Seq(Nat \X Nat)]
  BY DEF FrameInv, Types, HandlerTypes, DeviceTypes
<1>1. /\ handler[o] = "send" /\ UNCHANGED <<produced, finished, gone>>
      /\ handler' = [handler EXCEPT ![o] = IF pending[o] \in Data THEN "serve" ELSE "destroy"]
      /\ o \in gone => stream' = stream
      /\ o \notin gone =>
           stream' = [stream EXCEPT ![o] = Append(stream[o], <<frameID[o], pending[o]>>)]
  BY DEF HandlerSent, HandlerMoves, deviceVars
<1>2. pending[o] \in Data => over' = over
  BY <1>a, <1>1 DEF over
<1>3. pending[o] \notin Data => over' = over \cup {o}
  BY <1>a, <1>1 DEF over
<1>4. CASE o \in gone
  <2>1. pending[o] \notin Data => Stream!UserLeaves(o)
    BY <1>1, <1>3, <1>4 DEF Stream!UserLeaves, over
  <2>2. pending[o] \in Data => StreamStays
    BY <1>1, <1>2, <1>4 DEF StreamStays
  <2>3. QED BY <2>1, <2>2 DEF StreamMoves, Stream!Next
<1>5. CASE o \notin gone
  <2>1. Len(stream[o]) = frameID[o] /\ o \notin over
    BY <1>1, <1>5 DEF FrameInv, ChainInv, Numbered, over
  <2>2. Stream!Receive(o, pending[o])
    BY <1>1, <1>5, <2>1 DEF Stream!Receive, over
  <2>3. CASE pending[o] = Failure
    <3>1. pending[o] \notin Data
      BY <2>3, MaxFrameAssumption DEF Failure, Data
    <3>2. Stream!Break(o)
      BY <1>3, <2>2, <2>3, <3>1 DEF Stream!Break, over
    <3>3. QED BY <3>2 DEF StreamMoves, Stream!Next
  <2>4. CASE pending[o] # Failure
    <3>1. Live(o)
      BY <1>1, <1>5, <2>4 DEF Live
    <3>2. Placed(o, pending[o], frameID[o] + 1)
      BY <1>1, <3>1 DEF FrameInv, ChainInv, Chain, Base
    <3>3. CASE pending[o] = Terminate
      <4>1. o \in finished /\ Len(stream[o]) = produced[o] /\ pending[o] \notin Data
        BY <1>a, <2>1, <3>2, <3>3, MaxFrameAssumption DEF Placed, Data, Terminate
      <4>2. Stream!Complete(o)
        BY <1>3, <2>2, <3>3, <4>1 DEF Stream!Complete, over
      <4>3. QED BY <4>2 DEF StreamMoves, Stream!Next
    <3>4. CASE pending[o] # Terminate
      <4>1. pending[o] = Len(stream[o]) + 1 /\ Len(stream[o]) < produced[o] /\ pending[o] \in Data
        BY <1>a, <2>1, <3>2, <3>4, MaxFrameAssumption DEF Placed, Data
      <4>2. Stream!Deliver(o)
        BY <1>2, <2>2, <4>1 DEF Stream!Deliver, over
      <4>3. QED BY <4>2 DEF StreamMoves, Stream!Next
    <3>5. QED BY <3>3, <3>4
  <2>5. QED BY <2>3, <2>4
<1>6. QED BY <1>4, <1>5

LEMMA HandlerRefines ==
  ASSUME FrameInv, NEW o \in Observer, HandlerBegins(o) \/ HandlerNext(o) \/ UserGoes(o)
  PROVE  StreamMoves
<1>a. handler \in [Observer -> {"idle", "check", "create", "establish", "wait", "serve",
                                "send", "destroy", "ended"}]
  BY DEF FrameInv, Types, HandlerTypes
<1>1. UNCHANGED <<stream, produced, finished>>
  <2>1. CASE UserGoes(o)
    BY <2>1 DEF UserGoes, userVars, deviceVars
  <2>2. CASE \E from, to : HandlerMoves(o, from, to) /\ stream' = stream
    BY <2>2 DEF HandlerMoves, deviceVars
  <2>3. QED BY <2>1, <2>2, Zenon DEF HandlerBegins, HandlerNext, HandlerChecks, HandlerCreates,
       HandlerEstablishes, HandlerGetsResp, HandlerTimesOut, ServeSessionDone, ServeUserGone,
       ServeNotify, HandlerDestroys
<1>2. ASSUME NEW from, NEW to, HandlerMoves(o, from, to),
             from \in {"destroy", "ended"} <=> to \in {"destroy", "ended"}
      PROVE  StreamMoves
  <2>1. handler[o] = from /\ handler' = [handler EXCEPT ![o] = to]
    BY <1>2 DEF HandlerMoves
  <2>2. \A z \in Observer : handler'[z] = IF z = o THEN to ELSE handler[z]
    BY <1>a, <2>1
  <2>3. over' = over
    BY <1>2, <2>1, <2>2 DEF over
  <2>4. QED BY <1>1, <2>3 DEF StreamMoves, StreamStays
<1>3. ASSUME NEW from, NEW to \in {"destroy", "ended"}, HandlerMoves(o, from, to)
      PROVE  StreamMoves
  <2>1. handler' = [handler EXCEPT ![o] = to]
    BY <1>3 DEF HandlerMoves
  <2>2. \A z \in Observer : handler'[z] = IF z = o THEN to ELSE handler[z]
    BY <1>a, <2>1
  <2>3. over' = over \cup {o}
    BY <2>2 DEF over
  <2>4. Stream!UserLeaves(o)
    BY <1>1, <2>3 DEF Stream!UserLeaves, over
  <2>5. QED BY <2>4 DEF StreamMoves, Stream!Next
<1>4. CASE HandlerBegins(o) \/ HandlerCreates(o) \/ HandlerEstablishes(o) \/ HandlerGetsResp(o)
           \/ HandlerTimesOut(o) \/ ServeSessionDone(o) \/ ServeNotify(o)
  <2>1. PICK from \in {"idle", "create", "establish", "wait", "serve"},
             to \in {"check", "establish", "wait", "serve", "send"} : HandlerMoves(o, from, to)
    BY <1>4 DEF HandlerBegins, HandlerCreates, HandlerEstablishes, HandlerGetsResp,
       HandlerTimesOut, ServeSessionDone, ServeNotify
  <2>2. QED BY <1>2, <2>1
<1>5. CASE ServeUserGone(o) \/ HandlerDestroys(o)
  BY <1>3, <1>5 DEF ServeUserGone, HandlerDestroys
<1>6. CASE HandlerChecks(o)
  <2>1. HandlerMoves(o, "check", "ended") \/ HandlerMoves(o, "check", "create")
    BY <1>6 DEF HandlerChecks
  <2>2. QED BY <1>2, <1>3, <2>1
<1>7. CASE UserGoes(o)
  BY <1>1, <1>7 DEF UserGoes, userVars, StreamMoves, StreamStays, over
<1>8. QED BY <1>4, <1>5, <1>6, <1>7, Zenon DEF HandlerNext

LEMMA OthersRefine ==
  ASSUME FrameInv,
         IncomingNext \/ OutgoingClogs \/ SessionDone \/ SessionCloses \/ (\E o \in Observer : DeviceNext(o))
  PROVE  StreamMoves
<1>1. handler' = handler /\ stream' = stream /\ over' = over
  BY OthersKeepStore DEF StoreKept, over
<1>2. ASSUME UNCHANGED <<produced, finished>> PROVE StreamMoves
  BY <1>1, <1>2 DEF StreamMoves, StreamStays
<1>3. CASE IncomingNext \/ OutgoingClogs \/ SessionDone \/ SessionCloses
  <2>1. UNCHANGED deviceVars
    <3>1. ASSUME NEW kind, NEW o, NEW f, IncomingReads(kind, o, f) PROVE UNCHANGED deviceVars
      BY <3>1 DEF IncomingReads
    <3>2. CASE IncomingNotified \/ IncomingPanics \/ OutgoingClogs \/ SessionDone \/ SessionCloses
      BY <3>2 DEF IncomingNotified, Notifies, IncomingPanics, OutgoingClogs, SessionDone,
         SessionCloses
    <3>3. QED BY <1>3, <3>1, <3>2, Zenon DEF IncomingNext, IncomingEstabResp, IncomingEstabLate,
         IncomingNotify, IncomingNotifyGone
  <2>2. QED BY <1>2, <2>1 DEF deviceVars
<1>4. ASSUME NEW o \in Observer, DeviceNext(o) PROVE StreamMoves
  <2>1. CASE ObserveSends(o)
    <3>1. produced[o] \in 0 .. MaxFrame /\ produced \in [Observer -> 0 .. MaxFrame]
      BY DEF FrameInv, Types, DeviceTypes
    <3>2. /\ o \notin finished /\ finished' = finished
          /\ produced[o] < MaxFrame => produced' = [produced EXCEPT ![o] = produced[o] + 1]
          /\ ~(produced[o] < MaxFrame) => produced' = [produced EXCEPT ![o] = MaxFrame]
      BY <2>1 DEF ObserveSends
    <3>3. CASE produced[o] < MaxFrame
      <4>1. Stream!Produce(o)
        BY <1>1, <3>2, <3>3 DEF Stream!Produce, over
      <4>2. QED BY <4>1 DEF StreamMoves, Stream!Next
    <3>4. CASE ~(produced[o] < MaxFrame)
      <4>1. produced[o] = MaxFrame
        BY <3>1, <3>4, MaxFrameAssumption
      <4>2. produced' = produced
        BY <3>1, <3>2, <3>4, <4>1
      <4>3. QED BY <1>2, <3>2, <4>2
    <3>5. QED BY <3>3, <3>4
  <2>2. CASE ObserveFinishes(o)
    <3>1. finished' = finished \cup {o} /\ produced' = produced
      BY <2>2 DEF ObserveFinishes
    <3>2. Stream!Finish(o)
      BY <1>1, <3>1 DEF Stream!Finish, over
    <3>3. QED BY <3>2 DEF StreamMoves, Stream!Next
  <2>3. CASE DeviceRefuses(o) \/ DeviceFails(o) \/ DeviceObserves(o) \/ DeviceEstablished(o)
             \/ ObserveTimesOut(o)
             \/ \E kind \in {"continue", "terminate"} : ObserveGetsResp(o, kind) \/ ObserveRespLate(o, kind)
    <3>1. UNCHANGED <<produced, finished>>
      BY <2>3 DEF DeviceRefuses, DeviceFails, DeviceObserves, DeviceEstablished, ObserveTimesOut,
         ObserveGetsResp, ObserveRespLate, deviceVars
    <3>2. QED BY <1>2, <3>1
  <2>4. QED BY <1>4, <2>1, <2>2, <2>3, Zenon DEF DeviceNext, ObserveNext
<1>5. QED BY <1>3, <1>4

\* The stream of every user is an ObservedStream, for any number of observers and of frames:
\* what the device sends comes once and in order, and Terminate only when all has come.
THEOREM StreamImplementsObserved == Spec => ImplementsStream
<1>1. Init => Stream!Init
  BY DEF Init, Stream!Init
<1>2. FrameInv /\ [Next]_vars => [Stream!Next]_Stream!vars
  <2> SUFFICES ASSUME FrameInv, [Next]_vars PROVE StreamMoves
    BY DEF StreamMoves, StreamStays, Stream!vars, over
  <2>1. CASE UNCHANGED vars
    BY <2>1 DEF vars, userVars, deviceVars, StreamMoves, StreamStays, over
  <2>2. QED BY <2>1, SendRefines, HandlerRefines, OthersRefine, Zenon DEF Next
<1>3. QED BY <1>1, <1>2, FramesAlways, PTL DEF Spec, ImplementsStream, Stream!Spec
=============================================================================

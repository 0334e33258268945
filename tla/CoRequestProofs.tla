---------------------------- MODULE CoRequestProofs ----------------------------
(***************************************************************************)
(* Proofs about CoRequest, for any number of handlers, requests and header *)
(* ids and any capacity of outgoingChan: answers reach their requests, the *)
(* store holds what is waited for, only late answers end a session, and    *)
(* Send is a RequestReply.                                                 *)
(*                                                                         *)
(* First the keys and channels of requests in flight (ActiveInv to         *)
(* DeliveryInv), then where the message of each request is (QueueInv) and  *)
(* how each request ends (ArrivedInv, EndInv).                             *)
(***************************************************************************)
EXTENDS CoRequest, TLAPS

\* A header id is a key of sendIDStore.
LEMMA HeaderIDType ==
  ASSUME NEW r \in Request
  PROVE  HeaderID(r) \in 0 .. IDSpace - 1
<1>1. r \in Nat
  BY MaxReqAssumption DEF Request
<1> QED  BY <1>1, IDSpaceAssumption DEF HeaderID

\* What Append and Tail do to the set of messages in a queue.
LEMMA AppendSet ==
  ASSUME NEW S, NEW q \in Seq(S), NEW x \in S
  PROVE  Append(q, x) \in Seq(S) /\ ToSet(Append(q, x)) = ToSet(q) \cup {x}
<1>1. Append(q, x) \in Seq(S) /\ Len(Append(q, x)) = Len(q) + 1
  OBVIOUS
<1>2. \A i \in 1 .. Len(q) : Append(q, x)[i] = q[i]
  OBVIOUS
<1>3. Append(q, x)[Len(q) + 1] = x
  OBVIOUS
<1>4. DOMAIN Append(q, x) = 1 .. Len(q) + 1 /\ DOMAIN q = 1 .. Len(q) /\ Len(q) \in Nat
  OBVIOUS
<1>5. 1 .. Len(q) + 1 = (1 .. Len(q)) \cup {Len(q) + 1}
  BY <1>4
<1> QED  BY <1>1, <1>2, <1>3, <1>4, <1>5 DEF ToSet

LEMMA TailSet ==
  ASSUME NEW S, NEW q \in Seq(S), q # <<>>
  PROVE  /\ Tail(q) \in Seq(S) /\ Len(Tail(q)) <= Len(q)
         /\ Head(q) \in S /\ Head(q) \in ToSet(q)
         /\ ToSet(Tail(q)) \subseteq ToSet(q)
<1>1. Len(q) \in Nat /\ Len(q) > 0 /\ DOMAIN q = 1 .. Len(q)
  OBVIOUS
<1>2. Head(q) = q[1] /\ 1 \in DOMAIN q
  BY <1>1
<1>3. /\ Tail(q) \in Seq(S) /\ Len(Tail(q)) = Len(q) - 1
      /\ \A i \in 1 .. Len(q) - 1 : Tail(q)[i] = q[i + 1]
  BY <1>1
<1>4. DOMAIN Tail(q) = 1 .. Len(q) - 1
  BY <1>3
<1>5. \A i \in DOMAIN Tail(q) : Tail(q)[i] \in ToSet(q)
  <2> SUFFICES ASSUME NEW i \in 1 .. Len(q) - 1 PROVE Tail(q)[i] \in ToSet(q)
    BY <1>4
  <2>1. i + 1 \in DOMAIN q /\ Tail(q)[i] = q[i + 1]
    BY <1>1, <1>3
  <2> QED  BY <2>1 DEF ToSet
<1> QED  BY <1>1, <1>2, <1>3, <1>5 DEF ToSet

LEMMA PairSet ==
  ASSUME NEW a, NEW b
  PROVE  ToSet(<<a, b>>) = {a, b} /\ ToSet(<<>>) = {}
  BY DEF ToSet

-----------------------------------------------------------------------------
\* A handler inside Send has a request of its own.
ActiveInv ==
  /\ \A u \in Caller : caller[u] \in Active => req[u] \in Request
  /\ \A u, v \in Caller :
       caller[u] \in Active /\ caller[v] \in Active /\ req[u] = req[v] => u = v

\* Requests in flight have been numbered, and until an id was reused their
\* header ids tell them apart.
FlightInv ==
  /\ InFlight \subseteq 1 .. rolling
  /\ ~reused => \A a, b \in InFlight : HeaderID(a) = HeaderID(b) => a = b

\* A key leads to the channel of a handler inside Send.
StoreInv ==
  \A i \in 0 .. IDSpace - 1 :
    sendIDStore[i] # None
      => /\ HeaderID(sendIDStore[i]) = i
         /\ \E u \in Caller : caller[u] \in Active /\ req[u] = sendIDStore[i]

\* Between the look-up and the handler an answer stays with its own channel.
DeliveryInv ==
  ~reused =>
    /\ held # <<>> => held[1] = held[2]
    /\ \A r \in Request : respChan[r] \in {r, None}

-----------------------------------------------------------------------------
\* Every step keeps the variables in their types.
LEMMA TypeStep ==
  ASSUME TypeOK, ActiveInv, [Next]_vars
  PROVE  TypeOK'
<1> USE DEF device, server, callers, Active, TypeOK, ActiveInv, Request, None
<1>1. ASSUME NEW u \in Caller, CallerFinds(u) PROVE TypeOK'
  BY <1>1 DEF CallerFinds, CallerMoves
<1>2. ASSUME NEW u \in Caller, CallerSets(u) PROVE TypeOK'
  <2>1. rolling + 1 \in Request
    BY <1>2, MaxReqAssumption DEF CallerSets
  <2>2. reused' \in BOOLEAN
    BY <1>2 DEF CallerSets
  <2>3. /\ caller' \in [Caller -> {"idle", "found"} \cup Active]
        /\ req' \in [Caller -> Request \cup {None}]
        /\ sendIDStore' \in [0 .. IDSpace - 1 -> Request \cup {None}]
    BY <1>2, <2>1 DEF CallerSets, CallerMoves
  <2>4. rolling' \in 0 .. MaxReq
    BY <1>2, <2>1, MaxReqAssumption DEF CallerSets
  <2> QED  BY <1>2, <2>2, <2>3, <2>4 DEF CallerSets, CallerMoves
<1>3. ASSUME NEW u \in Caller, CallerSends(u) PROVE TypeOK'
  <2>1. req[u] \in Request
    BY <1>3 DEF CallerSends, CallerMoves
  <2>2. Append(outgoingChan, req[u]) \in Seq(Request)
    BY <2>1
  <2>3. Len(Append(outgoingChan, req[u])) <= QueueSize
    BY <1>3, <2>1, QueueSizeAssumption DEF CallerSends
  <2> QED  BY <1>3, <2>2, <2>3 DEF CallerSends, CallerMoves
<1>4. ASSUME NEW u \in Caller, CallerStalls(u) PROVE TypeOK'
  BY <1>4 DEF CallerStalls, CallerMoves
<1>5. ASSUME NEW u \in Caller, CallerGets(u) PROVE TypeOK'
  BY <1>5 DEF CallerGets, CallerMoves
<1>6. ASSUME NEW u \in Caller, CallerTimesOut(u) PROVE TypeOK'
  BY <1>6 DEF CallerTimesOut, CallerMoves
<1>7. ASSUME NEW u \in Caller, CallerDeletes(u) PROVE TypeOK'
  BY <1>7 DEF CallerDeletes, CallerMoves
<1>w. CASE OutgoingStops
  <2>1. outgoingChan # <<>> => /\ Tail(outgoingChan) \in Seq(Request)
                               /\ Len(Tail(outgoingChan)) <= QueueSize
    <3>1. ASSUME outgoingChan # <<>>
          PROVE  /\ Tail(outgoingChan) \in Seq(Request)
                 /\ Len(Tail(outgoingChan)) <= Len(outgoingChan)
      BY <3>1, TailSet
    <3> QED  BY <3>1, QueueSizeAssumption
  <2> QED  BY <1>w, <2>1 DEF OutgoingStops
<1>8. CASE OutgoingWrites
  <2>1. outgoingChan # <<>>
    BY <1>8 DEF OutgoingWrites
  <2>2. /\ Head(outgoingChan) \in Request
        /\ Tail(outgoingChan) \in Seq(Request)
        /\ Len(Tail(outgoingChan)) <= Len(outgoingChan)
    BY <2>1, TailSet
  <2>3. Append(toDevice, Head(outgoingChan)) \in Seq(Request)
    BY <2>2
  <2>4. Len(outgoingChan) \in Nat /\ Len(Tail(outgoingChan)) \in Nat
    BY <2>2
  <2>5. Len(Tail(outgoingChan)) <= QueueSize
    BY <2>2, <2>4, QueueSizeAssumption
  <2> QED  BY <1>8, <2>2, <2>3, <2>5 DEF OutgoingWrites
<1>9. CASE DeviceAnswers
  <2>1. toDevice # <<>>
    BY <1>9 DEF DeviceAnswers
  <2>2. Head(toDevice) \in Request /\ Tail(toDevice) \in Seq(Request)
    BY <2>1, TailSet
  <2>3. Append(toServer, Head(toDevice)) \in Seq(Request)
    BY <2>2
  <2> QED  BY <1>9, <2>2, <2>3 DEF DeviceAnswers
<1>10. CASE DeviceHandlerFails
  BY <1>10 DEF DeviceHandlerFails
<1>11. CASE IncomingLooksUp
  <2>1. toServer # <<>>
    BY <1>11 DEF IncomingLooksUp
  <2>2. Head(toServer) \in Request /\ Tail(toServer) \in Seq(Request)
    BY <2>1, TailSet
  <2>3. HeaderID(Head(toServer)) \in 0 .. IDSpace - 1
    BY <2>2, HeaderIDType DEF Request
  <2>4. sendIDStore[HeaderID(Head(toServer))] \in Request
    BY <1>11, <2>3 DEF IncomingLooksUp
  <2> QED  BY <1>11, <2>2, <2>4 DEF IncomingLooksUp
<1>12. CASE IncomingUnknown
  <2>1. toServer # <<>>
    BY <1>12 DEF IncomingUnknown
  <2>2. Head(toServer) \in Request /\ Tail(toServer) \in Seq(Request)
    BY <2>1, TailSet
  <2> QED  BY <1>12, <2>2 DEF IncomingUnknown
<1>13. CASE IncomingDelivers
  BY <1>13 DEF IncomingDelivers
<1>14. CASE SessionFails
  BY <1>14 DEF SessionFails
<1>15. CASE SessionCloses
  BY <1>15 DEF SessionCloses
<1>16. ASSUME NEW r \in Request, DelExpireKeys(r) PROVE TypeOK'
  BY <1>16 DEF DelExpireKeys
<1>17. CASE UNCHANGED vars
  BY <1>17 DEF vars
<1> QED
  BY <1>1, <1>2, <1>3, <1>4, <1>5, <1>6, <1>7, <1>8, <1>w, <1>9, <1>10, <1>11, <1>12, <1>13,
     <1>14, <1>15, <1>16, <1>17
     DEF Next, DeviceNext, IncomingNext, CallerNext

\* Every step keeps the handlers inside Send apart.
LEMMA ActiveStep ==
  ASSUME TypeOK, ActiveInv, FlightInv, [Next]_vars
  PROVE  ActiveInv'
<1> USE DEF device, server, callers, Active, TypeOK, ActiveInv, Request, None
<1>1. ASSUME NEW u \in Caller, CallerFinds(u) PROVE ActiveInv'
  BY <1>1 DEF CallerFinds, CallerMoves
<1>2. ASSUME NEW u \in Caller, CallerSets(u) PROVE ActiveInv'
  <2>1. rolling + 1 \in Request
    BY <1>2, MaxReqAssumption DEF CallerSets
  <2>2. ASSUME NEW v \in Caller, caller[v] \in Active
        PROVE  req[v] # rolling + 1
    <3>1. req[v] \in InFlight
      BY <2>2 DEF InFlight
    <3>2. req[v] \in 1 .. rolling /\ rolling \in Nat
      BY <3>1, MaxReqAssumption DEF FlightInv
    <3> QED  BY <3>2
  <2> QED  BY <1>2, <2>1, <2>2 DEF CallerSets, CallerMoves
<1>3. ASSUME NEW u \in Caller, CallerSends(u) PROVE ActiveInv'
  BY <1>3 DEF CallerSends, CallerMoves
<1>4. ASSUME NEW u \in Caller, CallerStalls(u) PROVE ActiveInv'
  BY <1>4 DEF CallerStalls, CallerMoves
<1>5. ASSUME NEW u \in Caller, CallerGets(u) PROVE ActiveInv'
  BY <1>5 DEF CallerGets, CallerMoves
<1>6. ASSUME NEW u \in Caller, CallerTimesOut(u) PROVE ActiveInv'
  BY <1>6 DEF CallerTimesOut, CallerMoves
<1>7. ASSUME NEW u \in Caller, CallerDeletes(u) PROVE ActiveInv'
  BY <1>7 DEF CallerDeletes, CallerMoves
<1>w. CASE OutgoingStops
  BY <1>w DEF OutgoingStops
<1>8. CASE OutgoingWrites
  BY <1>8 DEF OutgoingWrites
<1>9. CASE DeviceAnswers
  BY <1>9 DEF DeviceAnswers
<1>10. CASE DeviceHandlerFails
  BY <1>10 DEF DeviceHandlerFails
<1>11. CASE IncomingLooksUp
  BY <1>11 DEF IncomingLooksUp
<1>12. CASE IncomingUnknown
  BY <1>12 DEF IncomingUnknown
<1>13. CASE IncomingDelivers
  BY <1>13 DEF IncomingDelivers
<1>14. CASE SessionFails
  BY <1>14 DEF SessionFails
<1>15. CASE SessionCloses
  BY <1>15 DEF SessionCloses
<1>16. ASSUME NEW r \in Request, DelExpireKeys(r) PROVE ActiveInv'
  BY <1>16 DEF DelExpireKeys
<1>17. CASE UNCHANGED vars
  BY <1>17 DEF vars
<1> QED
  BY <1>1, <1>2, <1>3, <1>4, <1>5, <1>6, <1>7, <1>8, <1>w, <1>9, <1>10, <1>11, <1>12, <1>13,
     <1>14, <1>15, <1>16, <1>17
     DEF Next, DeviceNext, IncomingNext, CallerNext

\* A request starts to be in flight when it is numbered, and at no other time.
LEMMA FlightStep ==
  ASSUME TypeOK, ActiveInv, StoreInv, [Next]_vars
  PROVE  \/ InFlight' \subseteq InFlight
         \/ /\ \E u \in Caller : CallerSets(u)
            /\ InFlight' \subseteq InFlight \cup {rolling + 1}
<1> USE DEF device, server, callers, Active, TypeOK, ActiveInv, None
<1>1. ASSUME NEW u \in Caller, CallerFinds(u) PROVE InFlight' \subseteq InFlight
  BY <1>1 DEF CallerFinds, CallerMoves, InFlight
<1>2. ASSUME NEW u \in Caller, CallerSets(u) PROVE InFlight' \subseteq InFlight \cup {rolling + 1}
  BY <1>2 DEF CallerSets, CallerMoves, InFlight
<1>3. ASSUME NEW u \in Caller, CallerSends(u) PROVE InFlight' \subseteq InFlight
  <2>1. req[u] \in Request /\ req[u] \in InFlight
    BY <1>3 DEF CallerSends, CallerMoves, InFlight
  <2>2. ToSet(outgoingChan') = ToSet(outgoingChan) \cup {req[u]}
    BY <1>3, <2>1, AppendSet DEF CallerSends
  <2> QED  BY <1>3, <2>1, <2>2 DEF CallerSends, CallerMoves, InFlight
<1>4. ASSUME NEW u \in Caller, CallerStalls(u) PROVE InFlight' \subseteq InFlight
  BY <1>4 DEF CallerStalls, CallerMoves, InFlight
<1>5. ASSUME NEW u \in Caller, CallerGets(u) PROVE InFlight' \subseteq InFlight
  BY <1>5 DEF CallerGets, CallerMoves, InFlight
<1>6. ASSUME NEW u \in Caller, CallerTimesOut(u) PROVE InFlight' \subseteq InFlight
  BY <1>6 DEF CallerTimesOut, CallerMoves, InFlight
<1>7. ASSUME NEW u \in Caller, CallerDeletes(u) PROVE InFlight' \subseteq InFlight
  BY <1>7 DEF CallerDeletes, CallerMoves, InFlight
<1>w. ASSUME OutgoingStops PROVE InFlight' \subseteq InFlight
  <2>1. outgoingChan # <<>> => ToSet(Tail(outgoingChan)) \subseteq ToSet(outgoingChan)
    BY TailSet
  <2>2. ToSet(outgoingChan') \subseteq ToSet(outgoingChan)
    BY <1>w, <2>1 DEF OutgoingStops
  <2> QED  BY <1>w, <2>2 DEF OutgoingStops, InFlight
<1>8. ASSUME OutgoingWrites PROVE InFlight' \subseteq InFlight
  <2>1. outgoingChan # <<>>
    BY <1>8 DEF OutgoingWrites
  <2>2. /\ Head(outgoingChan) \in Request
        /\ Head(outgoingChan) \in ToSet(outgoingChan)
        /\ ToSet(Tail(outgoingChan)) \subseteq ToSet(outgoingChan)
    BY <2>1, TailSet
  <2>3. ToSet(Append(toDevice, Head(outgoingChan))) = ToSet(toDevice) \cup {Head(outgoingChan)}
    BY <2>2, AppendSet
  <2> QED  BY <1>8, <2>2, <2>3 DEF OutgoingWrites, InFlight
<1>9. ASSUME DeviceAnswers PROVE InFlight' \subseteq InFlight
  <2>1. toDevice # <<>>
    BY <1>9 DEF DeviceAnswers
  <2>2. /\ Head(toDevice) \in Request
        /\ Head(toDevice) \in ToSet(toDevice)
        /\ ToSet(Tail(toDevice)) \subseteq ToSet(toDevice)
    BY <2>1, TailSet
  <2>3. ToSet(Append(toServer, Head(toDevice))) = ToSet(toServer) \cup {Head(toDevice)}
    BY <2>2, AppendSet
  <2> QED  BY <1>9, <2>2, <2>3 DEF DeviceAnswers, InFlight
<1>10. ASSUME DeviceHandlerFails PROVE InFlight' \subseteq InFlight
  BY <1>10, PairSet DEF DeviceHandlerFails, InFlight
<1>11. ASSUME IncomingLooksUp PROVE InFlight' \subseteq InFlight
  <2>1. toServer # <<>>
    BY <1>11 DEF IncomingLooksUp
  <2>2. /\ Head(toServer) \in Request
        /\ Head(toServer) \in ToSet(toServer)
        /\ ToSet(Tail(toServer)) \subseteq ToSet(toServer)
    BY <2>1, TailSet
  <2>3. PICK c \in Request \cup {None} : c = sendIDStore[HeaderID(Head(toServer))]
    <3>1. HeaderID(Head(toServer)) \in 0 .. IDSpace - 1
      BY <2>2, HeaderIDType
    <3> QED  BY <3>1
  <2>4. c \in InFlight
    <3>1. HeaderID(Head(toServer)) \in 0 .. IDSpace - 1
      BY <2>2, HeaderIDType
    <3>2. c # None
      BY <1>11, <2>3 DEF IncomingLooksUp
    <3> QED  BY <2>3, <3>1, <3>2 DEF StoreInv, InFlight
  <2>5. ToSet(held') = {c, Head(toServer)}
    BY <1>11, <2>3, PairSet DEF IncomingLooksUp
  <2> QED  BY <1>11, <2>2, <2>4, <2>5, ZenonT(30) DEF IncomingLooksUp, InFlight
<1>12. ASSUME IncomingUnknown PROVE InFlight' \subseteq InFlight
  <2>1. toServer # <<>>
    BY <1>12 DEF IncomingUnknown
  <2>2. /\ Head(toServer) \in Request
        /\ Head(toServer) \in ToSet(toServer)
        /\ ToSet(Tail(toServer)) \subseteq ToSet(toServer)
    BY <2>1, TailSet
  <2> QED  BY <1>12, <2>2 DEF IncomingUnknown, InFlight
<1>13. ASSUME IncomingDelivers PROVE InFlight' \subseteq InFlight
  BY <1>13, PairSet DEF IncomingDelivers, InFlight
<1>14. ASSUME SessionFails PROVE InFlight' \subseteq InFlight
  BY <1>14 DEF SessionFails, InFlight
<1>15. ASSUME SessionCloses PROVE InFlight' \subseteq InFlight
  BY <1>15, PairSet DEF SessionCloses, InFlight
<1>16. ASSUME NEW r \in Request, DelExpireKeys(r) PROVE InFlight' \subseteq InFlight
  BY <1>16 DEF DelExpireKeys, InFlight
<1>17. ASSUME UNCHANGED vars PROVE InFlight' \subseteq InFlight
  BY <1>17 DEF vars, InFlight
<1> QED
  BY <1>1, <1>2, <1>3, <1>4, <1>5, <1>6, <1>7, <1>8, <1>w, <1>9, <1>10, <1>11, <1>12, <1>13,
     <1>14, <1>15, <1>16, <1>17
     DEF Next, DeviceNext, IncomingNext, CallerNext

\* Requests are numbered upwards, and a reuse is not forgotten.
LEMMA Monotone ==
  ASSUME TypeOK, [Next]_vars
  PROVE  rolling' \in {rolling, rolling + 1} /\ (reused => reused')
<1> USE DEF device, server, callers, Active, TypeOK, Request, None
<1>1. ASSUME NEW u \in Caller, CallerFinds(u) PROVE rolling' \in {rolling, rolling + 1} /\ (reused => reused')
  BY <1>1 DEF CallerFinds, CallerMoves
<1>2. ASSUME NEW u \in Caller, CallerSets(u) PROVE rolling' \in {rolling, rolling + 1} /\ (reused => reused')
  BY <1>2 DEF CallerSets, CallerMoves
<1>3. ASSUME NEW u \in Caller, CallerSends(u) PROVE rolling' \in {rolling, rolling + 1} /\ (reused => reused')
  BY <1>3 DEF CallerSends, CallerMoves
<1>4. ASSUME NEW u \in Caller, CallerStalls(u) PROVE rolling' \in {rolling, rolling + 1} /\ (reused => reused')
  BY <1>4 DEF CallerStalls, CallerMoves
<1>5. ASSUME NEW u \in Caller, CallerGets(u) PROVE rolling' \in {rolling, rolling + 1} /\ (reused => reused')
  BY <1>5 DEF CallerGets, CallerMoves
<1>6. ASSUME NEW u \in Caller, CallerTimesOut(u) PROVE rolling' \in {rolling, rolling + 1} /\ (reused => reused')
  BY <1>6 DEF CallerTimesOut, CallerMoves
<1>7. ASSUME NEW u \in Caller, CallerDeletes(u) PROVE rolling' \in {rolling, rolling + 1} /\ (reused => reused')
  BY <1>7 DEF CallerDeletes, CallerMoves
<1>w. CASE OutgoingStops
  BY <1>w DEF OutgoingStops
<1>8. CASE OutgoingWrites
  BY <1>8 DEF OutgoingWrites
<1>9. CASE DeviceAnswers
  BY <1>9 DEF DeviceAnswers
<1>10. CASE DeviceHandlerFails
  BY <1>10 DEF DeviceHandlerFails
<1>11. CASE IncomingLooksUp
  BY <1>11 DEF IncomingLooksUp
<1>12. CASE IncomingUnknown
  BY <1>12 DEF IncomingUnknown
<1>13. CASE IncomingDelivers
  BY <1>13 DEF IncomingDelivers
<1>14. CASE SessionFails
  BY <1>14 DEF SessionFails
<1>15. CASE SessionCloses
  BY <1>15 DEF SessionCloses
<1>16. ASSUME NEW r \in Request, DelExpireKeys(r) PROVE rolling' \in {rolling, rolling + 1} /\ (reused => reused')
  BY <1>16 DEF DelExpireKeys
<1>17. CASE UNCHANGED vars
  BY <1>17 DEF vars
<1> QED
  BY <1>1, <1>2, <1>3, <1>4, <1>5, <1>6, <1>7, <1>8, <1>w, <1>9, <1>10, <1>11, <1>12, <1>13,
     <1>14, <1>15, <1>16, <1>17
     DEF Next, DeviceNext, IncomingNext, CallerNext

\* Every step keeps the ids of the requests in flight apart.
LEMMA FlightInvStep ==
  ASSUME TypeOK, ActiveInv, StoreInv, FlightInv, [Next]_vars
  PROVE  FlightInv'
<1>1. rolling \in Nat /\ rolling' \in {rolling, rolling + 1} /\ (reused => reused')
  BY Monotone, MaxReqAssumption DEF TypeOK
<1>2. CASE InFlight' \subseteq InFlight
  <2>1. InFlight' \subseteq 1 .. rolling'
    BY <1>1, <1>2 DEF FlightInv
  <2>2. ~reused' => \A a, b \in InFlight' : HeaderID(a) = HeaderID(b) => a = b
    BY <1>1, <1>2 DEF FlightInv
  <2> QED  BY <2>1, <2>2 DEF FlightInv
<1>3. ASSUME NEW u \in Caller, CallerSets(u), InFlight' \subseteq InFlight \cup {rolling + 1}
      PROVE  FlightInv'
  <2>1. rolling' = rolling + 1
    BY <1>3 DEF CallerSets
  <2>2. InFlight' \subseteq 1 .. rolling'
    BY <1>1, <1>3, <2>1 DEF FlightInv
  <2>3. ~reused' => \A m \in InFlight : HeaderID(m) # HeaderID(rolling + 1)
    BY <1>3 DEF CallerSets
  <2>4. ~reused' => \A a, b \in InFlight' : HeaderID(a) = HeaderID(b) => a = b
    BY <1>1, <1>3, <2>3 DEF FlightInv
  <2> QED  BY <2>2, <2>4 DEF FlightInv
<1> QED  BY <1>2, <1>3, FlightStep

\* Every step keeps the keys of sendIDStore with handlers that are inside Send.
LEMMA StoreStep ==
  ASSUME TypeOK, ActiveInv, StoreInv, [Next]_vars
  PROVE  StoreInv'
<1> USE DEF device, server, callers, Active, TypeOK, ActiveInv, Request, None, StoreInv
<1>1. ASSUME NEW u \in Caller, CallerFinds(u) PROVE StoreInv'
  BY <1>1 DEF CallerFinds, CallerMoves
<1>2. ASSUME NEW u \in Caller, CallerSets(u) PROVE StoreInv'
  BY <1>2, HeaderIDType, MaxReqAssumption, ZenonT(30) DEF CallerSets, CallerMoves
<1>3. ASSUME NEW u \in Caller, CallerSends(u) PROVE StoreInv'
  BY <1>3 DEF CallerSends, CallerMoves
<1>4. ASSUME NEW u \in Caller, CallerStalls(u) PROVE StoreInv'
  BY <1>4 DEF CallerStalls, CallerMoves
<1>5. ASSUME NEW u \in Caller, CallerGets(u) PROVE StoreInv'
  BY <1>5 DEF CallerGets, CallerMoves
<1>6. ASSUME NEW u \in Caller, CallerTimesOut(u) PROVE StoreInv'
  BY <1>6 DEF CallerTimesOut, CallerMoves
<1>7. ASSUME NEW u \in Caller, CallerDeletes(u) PROVE StoreInv'
  BY <1>7, HeaderIDType, SMTT(30) DEF CallerDeletes, CallerMoves
<1>w. CASE OutgoingStops
  BY <1>w DEF OutgoingStops
<1>8. CASE OutgoingWrites
  BY <1>8 DEF OutgoingWrites
<1>9. CASE DeviceAnswers
  BY <1>9 DEF DeviceAnswers
<1>10. CASE DeviceHandlerFails
  BY <1>10 DEF DeviceHandlerFails
<1>11. CASE IncomingLooksUp
  BY <1>11 DEF IncomingLooksUp
<1>12. CASE IncomingUnknown
  BY <1>12 DEF IncomingUnknown
<1>13. CASE IncomingDelivers
  BY <1>13 DEF IncomingDelivers
<1>14. CASE SessionFails
  BY <1>14 DEF SessionFails
<1>15. CASE SessionCloses
  BY <1>15 DEF SessionCloses
<1>16. ASSUME NEW r \in Request, DelExpireKeys(r) PROVE StoreInv'
  BY <1>16 DEF DelExpireKeys
<1>17. CASE UNCHANGED vars
  BY <1>17 DEF vars
<1> QED
  BY <1>1, <1>2, <1>3, <1>4, <1>5, <1>6, <1>7, <1>8, <1>w, <1>9, <1>10, <1>11, <1>12, <1>13,
     <1>14, <1>15, <1>16, <1>17
     DEF Next, DeviceNext, IncomingNext, CallerNext

\* Every step keeps an answer on the way to its own handler.
LEMMA DeliveryStep ==
  ASSUME TypeOK, ActiveInv, FlightInv, StoreInv, DeliveryInv, Correlated, [Next]_vars
  PROVE  (DeliveryInv /\ Correlated)'
<1> USE DEF device, server, callers, Active, TypeOK, ActiveInv, Request, None,
            DeliveryInv, Correlated
<1>1. ASSUME NEW u \in Caller, CallerFinds(u) PROVE (DeliveryInv /\ Correlated)'
  BY <1>1 DEF CallerFinds, CallerMoves
<1>2. ASSUME NEW u \in Caller, CallerSets(u) PROVE (DeliveryInv /\ Correlated)'
  BY <1>2 DEF CallerSets, CallerMoves
<1>3. ASSUME NEW u \in Caller, CallerSends(u) PROVE (DeliveryInv /\ Correlated)'
  BY <1>3 DEF CallerSends, CallerMoves
<1>4. ASSUME NEW u \in Caller, CallerStalls(u) PROVE (DeliveryInv /\ Correlated)'
  BY <1>4 DEF CallerStalls, CallerMoves
<1>5. ASSUME NEW u \in Caller, CallerGets(u) PROVE (DeliveryInv /\ Correlated)'
  BY <1>5 DEF CallerGets, CallerMoves
<1>6. ASSUME NEW u \in Caller, CallerTimesOut(u) PROVE (DeliveryInv /\ Correlated)'
  BY <1>6 DEF CallerTimesOut, CallerMoves
<1>7. ASSUME NEW u \in Caller, CallerDeletes(u) PROVE (DeliveryInv /\ Correlated)'
  BY <1>7 DEF CallerDeletes, CallerMoves
<1>w. CASE OutgoingStops
  BY <1>w DEF OutgoingStops
<1>8. CASE OutgoingWrites
  BY <1>8 DEF OutgoingWrites
<1>9. CASE DeviceAnswers
  BY <1>9 DEF DeviceAnswers
<1>10. CASE DeviceHandlerFails
  BY <1>10 DEF DeviceHandlerFails
<1>11. CASE IncomingLooksUp
  <2>1. toServer # <<>>
    BY <1>11 DEF IncomingLooksUp
  <2>2. Head(toServer) \in Request /\ Head(toServer) \in ToSet(toServer)
    BY <2>1, TailSet
  <2>3. Head(toServer) \in InFlight
    BY <2>2 DEF InFlight
  <2>4. HeaderID(Head(toServer)) \in 0 .. IDSpace - 1
    BY <2>2, HeaderIDType
  <2> DEFINE c == sendIDStore[HeaderID(Head(toServer))]
  <2>5. HeaderID(c) = HeaderID(Head(toServer)) /\ c \in InFlight
    BY <1>11, <2>4 DEF IncomingLooksUp, StoreInv, InFlight
  <2>6. ~reused => c = Head(toServer)
    BY <2>3, <2>5 DEF FlightInv
  <2>7. held' = <<c, Head(toServer)>> /\ reused' = reused
    BY <1>11 DEF IncomingLooksUp
  <2> QED  BY <1>11, <2>6, <2>7 DEF IncomingLooksUp
<1>12. CASE IncomingUnknown
  BY <1>12 DEF IncomingUnknown
<1>13. CASE IncomingDelivers
  BY <1>13 DEF IncomingDelivers
<1>14. CASE SessionFails
  BY <1>14 DEF SessionFails
<1>15. CASE SessionCloses
  BY <1>15 DEF SessionCloses
<1>16. ASSUME NEW r \in Request, DelExpireKeys(r) PROVE (DeliveryInv /\ Correlated)'
  BY <1>16 DEF DelExpireKeys
<1>17. CASE UNCHANGED vars
  BY <1>17 DEF vars
<1> QED
  BY <1>1, <1>2, <1>3, <1>4, <1>5, <1>6, <1>7, <1>8, <1>w, <1>9, <1>10, <1>11, <1>12, <1>13,
     <1>14, <1>15, <1>16, <1>17
     DEF Next, DeviceNext, IncomingNext, CallerNext

-----------------------------------------------------------------------------
(* Where the message of a request is, and how requests end.                  *)

\* No message is in a queue twice.
NoDup(q) == \A i, j \in DOMAIN q : q[i] = q[j] => i = j

\* Requests whose answer tcpIncomming has handed over, or is about to.
Arrived == {r \in Request : answer[r] # None \/ respChan[r] # None} \cup ToSet(held)

\* A message is at one place: queued for the socket, at the device, or, once it
\* has been answered, on its way back.
QueueInv ==
  /\ NoDup(outgoingChan) /\ NoDup(toDevice) /\ NoDup(toServer)
  /\ ToSet(outgoingChan) \cap ToSet(toDevice) = {}
  /\ (ToSet(outgoingChan) \cup ToSet(toDevice)) \cap handled = {}
  /\ ToSet(toServer) \subseteq handled
  /\ handled \subseteq 1 .. rolling
  /\ \A u \in Caller :
       caller[u] = "send"
         => req[u] \notin ToSet(outgoingChan) \cup ToSet(toDevice) \cup handled

\* An answer that is still on its way has not been handed over.
ArrivedInv == ~reused => Arrived \subseteq handled \ ToSet(toServer)

\* A request that was numbered has ended or has a handler that will end it, and
\* a handler that waits is waiting for a request that has not ended.
EndInv ==
  /\ \A u \in Caller :
       caller[u] \in {"send", "wait"} => answer[req[u]] = None /\ req[u] \notin timedOut
  /\ \A r \in Request : answer[r] # None \/ r \in timedOut => r <= rolling
  /\ \A r \in 1 .. rolling :
       \/ answer[r] # None
       \/ r \in timedOut
       \/ \E u \in Caller : caller[u] \in {"send", "wait"} /\ req[u] = r

LEMMA AppendNoDup ==
  ASSUME NEW S, NEW q \in Seq(S), NEW x \in S, NoDup(q), x \notin ToSet(q)
  PROVE  NoDup(Append(q, x))
<1>1. Len(q) \in Nat /\ DOMAIN q = 1 .. Len(q) /\ DOMAIN Append(q, x) = 1 .. Len(q) + 1
  OBVIOUS
<1>2. /\ \A i \in 1 .. Len(q) : Append(q, x)[i] = q[i] /\ q[i] # x
      /\ Append(q, x)[Len(q) + 1] = x
  BY <1>1 DEF ToSet
<1>3. \A i \in 1 .. Len(q) + 1 : i \in 1 .. Len(q) \/ i = Len(q) + 1
  BY <1>1
<1> QED  BY <1>1, <1>2, <1>3 DEF NoDup

LEMMA EmptyNoDup == NoDup(<<>>) /\ ToSet(<<>>) = {}
  BY DEF NoDup, ToSet

LEMMA TailNoDup ==
  ASSUME NEW S, NEW q \in Seq(S), q # <<>>, NoDup(q)
  PROVE  NoDup(Tail(q)) /\ Head(q) \notin ToSet(Tail(q))
<1>1. /\ Len(q) \in Nat /\ Len(q) > 0
      /\ DOMAIN q = 1 .. Len(q) /\ DOMAIN Tail(q) = 1 .. Len(q) - 1
      /\ Head(q) = q[1]
  OBVIOUS
<1>2. \A i \in 1 .. Len(q) - 1 : Tail(q)[i] = q[i + 1] /\ i + 1 \in DOMAIN q /\ i + 1 # 1
  BY <1>1
<1>3. NoDup(Tail(q))
  BY <1>1, <1>2 DEF NoDup
<1>4. Head(q) \notin ToSet(Tail(q))
  BY <1>1, <1>2 DEF NoDup, ToSet
<1> QED  BY <1>3, <1>4

\* The request of a handler inside Send has been numbered.
LEMMA ActiveNumbered ==
  ASSUME TypeOK, FlightInv, NEW u \in Caller, caller[u] \in Active
  PROVE  req[u] \in 1 .. rolling /\ req[u] <= rolling
<1>1. req[u] \in InFlight /\ rolling \in Nat
  BY MaxReqAssumption DEF InFlight, TypeOK
<1>2. req[u] \in 1 .. rolling
  BY <1>1 DEF FlightInv
<1> QED  BY <1>1, <1>2

\* Every step keeps a message at one place.
LEMMA QueueStep ==
  ASSUME TypeOK, ActiveInv, FlightInv, QueueInv, [Next]_vars
  PROVE  QueueInv'
<1> USE DEF device, server, callers, Active, TypeOK, ActiveInv, QueueInv, None
<1>1. ASSUME NEW u \in Caller, CallerFinds(u) PROVE QueueInv'
  BY <1>1 DEF CallerFinds, CallerMoves
<1>2. ASSUME NEW u \in Caller, CallerSets(u) PROVE QueueInv'
  <2>1. rolling \in Nat /\ rolling + 1 \notin 1 .. rolling /\ 1 .. rolling \subseteq 1 .. rolling + 1
    BY MaxReqAssumption
  <2>2. ToSet(outgoingChan) \cup ToSet(toDevice) \subseteq 1 .. rolling
    BY DEF FlightInv, InFlight
  <2>3. rolling + 1 \notin ToSet(outgoingChan) \cup ToSet(toDevice) \cup handled
    BY <2>1, <2>2
  <2>4. /\ UNCHANGED <<outgoingChan, toDevice, toServer, handled>>
        /\ rolling' = rolling + 1
        /\ caller' = [caller EXCEPT ![u] = "send"]
        /\ req' = [req EXCEPT ![u] = rolling + 1]
    BY <1>2 DEF CallerSets, CallerMoves
  <2>5. \A v \in Caller : caller'[v] = "send"
          => req'[v] \notin ToSet(outgoingChan) \cup ToSet(toDevice) \cup handled
    BY <2>3, <2>4
  <2>6. handled' \subseteq 1 .. rolling'
    BY <2>1, <2>4
  <2> QED  BY <2>4, <2>5, <2>6
<1>3. ASSUME NEW u \in Caller, CallerSends(u) PROVE QueueInv'
  <2>1. /\ caller[u] = "send" /\ req[u] \in Request
        /\ outgoingChan' = Append(outgoingChan, req[u])
        /\ caller' = [caller EXCEPT ![u] = "wait"]
        /\ UNCHANGED <<toDevice, toServer, handled, rolling, req>>
    BY <1>3 DEF CallerSends, CallerMoves
  <2>2. req[u] \notin ToSet(outgoingChan) \cup ToSet(toDevice) \cup handled
    BY <2>1
  <2>3. NoDup(outgoingChan') /\ ToSet(outgoingChan') = ToSet(outgoingChan) \cup {req[u]}
    BY <2>1, <2>2, AppendNoDup, AppendSet
  <2>4. \A v \in Caller : caller'[v] = "send" => caller[v] = "send" /\ req[v] # req[u]
    BY <2>1
  <2> QED  BY <2>1, <2>2, <2>3, <2>4
<1>4. ASSUME NEW u \in Caller, CallerStalls(u) PROVE QueueInv'
  BY <1>4 DEF CallerStalls
<1>5. ASSUME NEW u \in Caller, CallerGets(u) PROVE QueueInv'
  BY <1>5 DEF CallerGets, CallerMoves
<1>6. ASSUME NEW u \in Caller, CallerTimesOut(u) PROVE QueueInv'
  BY <1>6 DEF CallerTimesOut, CallerMoves
<1>7. ASSUME NEW u \in Caller, CallerDeletes(u) PROVE QueueInv'
  BY <1>7 DEF CallerDeletes, CallerMoves
<1>w. CASE OutgoingStops
  <2>1. outgoingChan # <<>> => /\ ToSet(Tail(outgoingChan)) \subseteq ToSet(outgoingChan)
                               /\ NoDup(Tail(outgoingChan))
    BY TailSet, TailNoDup
  <2>2. /\ ToSet(outgoingChan') \subseteq ToSet(outgoingChan) /\ NoDup(outgoingChan')
        /\ UNCHANGED <<toDevice, toServer, handled, rolling, caller, req>>
    BY <1>w, <2>1 DEF OutgoingStops
  <2> QED  BY <2>2
<1>8. CASE OutgoingWrites
  <2> DEFINE h == Head(outgoingChan)
  <2>1. outgoingChan # <<>>
    BY <1>8 DEF OutgoingWrites
  <2>2. /\ h \in Request /\ h \in ToSet(outgoingChan)
        /\ ToSet(Tail(outgoingChan)) \subseteq ToSet(outgoingChan)
        /\ NoDup(Tail(outgoingChan)) /\ h \notin ToSet(Tail(outgoingChan))
    BY <2>1, TailSet, TailNoDup
  <2>3. NoDup(Append(toDevice, h)) /\ ToSet(Append(toDevice, h)) = ToSet(toDevice) \cup {h}
    BY <2>2, AppendNoDup, AppendSet
  <2>4. /\ outgoingChan' = Tail(outgoingChan) /\ toDevice' = Append(toDevice, h)
        /\ UNCHANGED <<toServer, handled, rolling, caller, req>>
    BY <1>8 DEF OutgoingWrites
  <2> HIDE DEF h
  <2> QED  BY <2>2, <2>3, <2>4
<1>9. CASE DeviceAnswers
  <2> DEFINE h == Head(toDevice)
  <2>1. toDevice # <<>>
    BY <1>9 DEF DeviceAnswers
  <2>2. /\ h \in Request /\ h \in ToSet(toDevice)
        /\ ToSet(Tail(toDevice)) \subseteq ToSet(toDevice)
        /\ NoDup(Tail(toDevice)) /\ h \notin ToSet(Tail(toDevice))
    BY <2>1, TailSet, TailNoDup
  <2>3. h \in 1 .. rolling /\ h \notin ToSet(toServer)
    BY <2>2 DEF FlightInv, InFlight
  <2>4. NoDup(Append(toServer, h)) /\ ToSet(Append(toServer, h)) = ToSet(toServer) \cup {h}
    BY <2>2, <2>3, AppendNoDup, AppendSet
  <2>5. /\ toDevice' = Tail(toDevice) /\ toServer' = Append(toServer, h)
        /\ handled' = handled \cup {h}
        /\ UNCHANGED <<outgoingChan, rolling, caller, req>>
    BY <1>9 DEF DeviceAnswers
  <2> HIDE DEF h
  <2> QED  BY <2>2, <2>3, <2>4, <2>5
<1>10. CASE DeviceHandlerFails
  BY <1>10, EmptyNoDup DEF DeviceHandlerFails
<1>11. CASE IncomingLooksUp
  BY <1>11, TailSet, TailNoDup DEF IncomingLooksUp
<1>12. CASE IncomingUnknown
  BY <1>12, TailSet, TailNoDup DEF IncomingUnknown
<1>13. CASE IncomingDelivers
  BY <1>13 DEF IncomingDelivers
<1>14. CASE SessionFails
  BY <1>14 DEF SessionFails
<1>15. CASE SessionCloses
  BY <1>15, EmptyNoDup DEF SessionCloses
<1>16. ASSUME NEW r \in Request, DelExpireKeys(r) PROVE QueueInv'
  BY <1>16 DEF DelExpireKeys
<1>17. CASE UNCHANGED vars
  BY <1>17 DEF vars
<1> QED
  BY <1>1, <1>2, <1>3, <1>4, <1>5, <1>6, <1>7, <1>8, <1>w, <1>9, <1>10, <1>11, <1>12, <1>13,
     <1>14, <1>15, <1>16, <1>17
     DEF Next, DeviceNext, IncomingNext, CallerNext

\* Every step keeps answers on their way apart from those handed over.
LEMMA ArrivedStep ==
  ASSUME TypeOK, ActiveInv, QueueInv, DeliveryInv, DeliveryInv', Correlated', ArrivedInv,
         [Next]_vars
  PROVE  ArrivedInv'
<1> USE DEF device, server, callers, Active, TypeOK, ActiveInv, ArrivedInv, None
<1>1. ASSUME NEW u \in Caller, CallerFinds(u) PROVE ArrivedInv'
  BY <1>1 DEF CallerFinds, CallerMoves, Arrived
<1>2. ASSUME NEW u \in Caller, CallerSets(u) PROVE ArrivedInv'
  BY <1>2 DEF CallerSets, CallerMoves, Arrived
<1>3. ASSUME NEW u \in Caller, CallerSends(u) PROVE ArrivedInv'
  BY <1>3 DEF CallerSends, CallerMoves, Arrived
<1>4. ASSUME NEW u \in Caller, CallerStalls(u) PROVE ArrivedInv'
  BY <1>4 DEF CallerStalls, Arrived
<1>5. ASSUME NEW u \in Caller, CallerGets(u) PROVE ArrivedInv'
  <2>1. Arrived' \subseteq Arrived
    BY <1>5 DEF CallerGets, CallerMoves, Arrived
  <2> QED  BY <1>5, <2>1 DEF CallerGets, CallerMoves
<1>6. ASSUME NEW u \in Caller, CallerTimesOut(u) PROVE ArrivedInv'
  BY <1>6 DEF CallerTimesOut, CallerMoves, Arrived
<1>7. ASSUME NEW u \in Caller, CallerDeletes(u) PROVE ArrivedInv'
  BY <1>7 DEF CallerDeletes, CallerMoves, Arrived
<1>w. CASE OutgoingStops
  BY <1>w DEF OutgoingStops, Arrived
<1>8. CASE OutgoingWrites
  BY <1>8 DEF OutgoingWrites, Arrived
<1>9. CASE DeviceAnswers
  <2>1. toDevice # <<>>
    BY <1>9 DEF DeviceAnswers
  <2>2. Head(toDevice) \in Request /\ Head(toDevice) \in ToSet(toDevice)
    BY <2>1, TailSet
  <2>3. Head(toDevice) \notin handled
    BY <2>2 DEF QueueInv
  <2>4. ToSet(toServer') = ToSet(toServer) \cup {Head(toDevice)}
    BY <1>9, <2>2, AppendSet DEF DeviceAnswers
  <2>5. Arrived' = Arrived /\ reused' = reused
    BY <1>9 DEF DeviceAnswers, Arrived
  <2> QED  BY <1>9, <2>3, <2>4, <2>5 DEF DeviceAnswers
<1>10. CASE DeviceHandlerFails
  BY <1>10 DEF DeviceHandlerFails, Arrived
<1>11. CASE IncomingLooksUp
  <2>1. toServer # <<>>
    BY <1>11 DEF IncomingLooksUp
  <2>2. /\ Head(toServer) \in ToSet(toServer)
        /\ ToSet(Tail(toServer)) \subseteq ToSet(toServer)
        /\ Head(toServer) \notin ToSet(Tail(toServer))
    BY <2>1, TailSet, TailNoDup DEF QueueInv
  <2>3. /\ held' = <<held'[1], held'[2]>> /\ held'[2] = Head(toServer)
        /\ held' # <<>>
        /\ toServer' = Tail(toServer)
        /\ UNCHANGED <<respChan, answer, handled, reused>>
    BY <1>11 DEF IncomingLooksUp
  <2>4. ~reused => ToSet(held') = {Head(toServer)}
    BY <2>3, PairSet DEF DeliveryInv
  <2>5. ~reused => Arrived' \subseteq Arrived \cup {Head(toServer)}
    BY <2>3, <2>4 DEF Arrived
  <2>6. Head(toServer) \in handled
    BY <2>2 DEF QueueInv
  <2> QED  BY <2>2, <2>3, <2>5, <2>6
<1>12. CASE IncomingUnknown
  <2>1. ToSet(Tail(toServer)) \subseteq ToSet(toServer)
    BY <1>12, TailSet DEF IncomingUnknown
  <2> QED  BY <1>12, <2>1 DEF IncomingUnknown, Arrived
<1>13. CASE IncomingDelivers
  <2>1. /\ held # <<>> /\ held' = <<>>
        /\ respChan' = [respChan EXCEPT ![held[1]] = held[2]]
        /\ UNCHANGED <<answer, handled, toServer, reused>>
    BY <1>13 DEF IncomingDelivers
  <2>2. held[1] \in ToSet(held)
    BY <2>1, PairSet
  <2>3. Arrived' \subseteq Arrived
    BY <2>1, <2>2, PairSet DEF Arrived
  <2> QED  BY <2>1, <2>3
<1>14. CASE SessionFails
  BY <1>14 DEF SessionFails, Arrived
<1>15. CASE SessionCloses
  <2>1. Arrived' = Arrived /\ ToSet(toServer') = {} /\ UNCHANGED <<handled, reused>>
    BY <1>15, PairSet DEF SessionCloses, Arrived
  <2> QED  BY <2>1
<1>16. ASSUME NEW r \in Request, DelExpireKeys(r) PROVE ArrivedInv'
  BY <1>16 DEF DelExpireKeys, Arrived
<1>17. CASE UNCHANGED vars
  BY <1>17 DEF vars, Arrived
<1> QED
  BY <1>1, <1>2, <1>3, <1>4, <1>5, <1>6, <1>7, <1>8, <1>w, <1>9, <1>10, <1>11, <1>12, <1>13,
     <1>14, <1>15, <1>16, <1>17
     DEF Next, DeviceNext, IncomingNext, CallerNext

\* Every step keeps the account of how requests end.
LEMMA EndStep ==
  ASSUME TypeOK, ActiveInv, FlightInv, EndInv, [Next]_vars
  PROVE  EndInv'
<1> USE DEF device, server, callers, Active, TypeOK, ActiveInv, EndInv, None
<1>1. ASSUME NEW u \in Caller, CallerFinds(u) PROVE EndInv'
  <2>1. \A v \in Caller : caller'[v] \in {"send", "wait"} <=> caller[v] \in {"send", "wait"}
    BY <1>1 DEF CallerFinds, CallerMoves
  <2> QED  BY <1>1, <2>1 DEF CallerFinds, CallerMoves
<1>2. ASSUME NEW u \in Caller, CallerSets(u) PROVE EndInv'
  <2>1. /\ rolling \in Nat /\ rolling' = rolling + 1 /\ rolling + 1 \in Request
        /\ caller[u] = "found"
        /\ caller' = [caller EXCEPT ![u] = "send"]
        /\ req' = [req EXCEPT ![u] = rolling + 1]
        /\ UNCHANGED <<answer, timedOut>>
    BY <1>2, MaxReqAssumption DEF CallerSets, CallerMoves, Request
  <2>2. answer[rolling + 1] = None /\ rolling + 1 \notin timedOut
    BY <2>1
  <2>3. \A v \in Caller :
          caller'[v] \in {"send", "wait"} => answer[req'[v]] = None /\ req'[v] \notin timedOut
    BY <2>1, <2>2
  <2>4. \A r \in Request : answer[r] # None \/ r \in timedOut => r <= rolling + 1
    BY <2>1 DEF Request
  <2>5. \A r \in 1 .. rolling + 1 :
          \/ answer[r] # None
          \/ r \in timedOut
          \/ \E v \in Caller : caller'[v] \in {"send", "wait"} /\ req'[v] = r
    <3>1. \A r \in 1 .. rolling + 1 : r \in 1 .. rolling \/ r = rolling + 1
      BY <2>1
    <3>2. caller'[u] = "send" /\ req'[u] = rolling + 1
      BY <2>1
    <3>3. \A v \in Caller : caller[v] \in {"send", "wait"}
            => caller'[v] \in {"send", "wait"} /\ req'[v] = req[v]
      BY <2>1
    <3> SUFFICES ASSUME NEW r \in 1 .. rolling + 1, answer[r] = None, r \notin timedOut
                 PROVE  \E v \in Caller : caller'[v] \in {"send", "wait"} /\ req'[v] = r
      OBVIOUS
    <3>4. CASE r \in 1 .. rolling
      <4>1. PICK v \in Caller : caller[v] \in {"send", "wait"} /\ req[v] = r
        BY <3>4
      <4> QED  BY <3>3, <4>1
    <3> QED  BY <3>1, <3>2, <3>4
  <2> QED  BY <2>1, <2>3, <2>4, <2>5
<1>3. ASSUME NEW u \in Caller, CallerSends(u) PROVE EndInv'
  <2>1. \A v \in Caller : caller'[v] \in {"send", "wait"} <=> caller[v] \in {"send", "wait"}
    BY <1>3 DEF CallerSends, CallerMoves
  <2> QED  BY <1>3, <2>1 DEF CallerSends, CallerMoves
<1>4. ASSUME NEW u \in Caller, CallerStalls(u) PROVE EndInv'
  BY <1>4 DEF CallerStalls
<1>5. ASSUME NEW u \in Caller, CallerGets(u) PROVE EndInv'
  <2>1. /\ caller[u] = "wait" /\ req[u] \in Request /\ respChan[req[u]] \in Request
        /\ caller' = [caller EXCEPT ![u] = "del"]
        /\ answer' = [answer EXCEPT ![req[u]] = respChan[req[u]]]
        /\ UNCHANGED <<req, rolling, timedOut>>
    BY <1>5 DEF CallerGets, CallerMoves
  <2>2. answer'[req[u]] # None /\ \A r \in Request \ {req[u]} : answer'[r] = answer[r]
    BY <2>1 DEF Request
  <2>3. \A v \in Caller : caller'[v] \in {"send", "wait"}
          <=> caller[v] \in {"send", "wait"} /\ v # u
    BY <2>1
  <2>4. \A v \in Caller : v # u /\ caller[v] \in {"send", "wait"} => req[v] \in Request \ {req[u]}
    BY <2>1
  <2>5. \A v \in Caller :
          caller'[v] \in {"send", "wait"} => answer'[req[v]] = None /\ req[v] \notin timedOut
    BY <2>2, <2>3, <2>4
  <2>7. req[u] <= rolling
    BY <2>1, ActiveNumbered
  <2>8. \A r \in Request : answer'[r] # None \/ r \in timedOut => r <= rolling
    BY <2>2, <2>7
  <2>9. \A r \in 1 .. rolling :
          \/ answer'[r] # None
          \/ r \in timedOut
          \/ \E v \in Caller : caller'[v] \in {"send", "wait"} /\ req[v] = r
    <3>1. 1 .. rolling \subseteq Request
      BY MaxReqAssumption DEF Request
    <3> QED  BY <2>2, <2>3, <3>1
  <2> QED  BY <2>1, <2>5, <2>8, <2>9
<1>6. ASSUME NEW u \in Caller, CallerTimesOut(u) PROVE EndInv'
  <2>1. /\ caller[u] = "wait" /\ req[u] \in Request
        /\ caller' = [caller EXCEPT ![u] = "del"]
        /\ timedOut' = timedOut \cup {req[u]}
        /\ UNCHANGED <<req, rolling, answer>>
    BY <1>6 DEF CallerTimesOut, CallerMoves
  <2>2. \A v \in Caller : caller'[v] \in {"send", "wait"}
          <=> caller[v] \in {"send", "wait"} /\ v # u
    BY <2>1
  <2>3. \A v \in Caller : v # u /\ caller[v] \in {"send", "wait"} => req[v] # req[u]
    BY <2>1
  <2>4. req[u] <= rolling
    BY <2>1, ActiveNumbered
  <2> QED  BY <2>1, <2>2, <2>3, <2>4
<1>7. ASSUME NEW u \in Caller, CallerDeletes(u) PROVE EndInv'
  <2>1. \A v \in Caller :
          caller'[v] \in {"send", "wait"}
            <=> caller[v] \in {"send", "wait"} /\ req'[v] = req[v] /\ v # u
    BY <1>7 DEF CallerDeletes, CallerMoves
  <2> QED  BY <1>7, <2>1, SMTT(30) DEF CallerDeletes, CallerMoves
<1>w. CASE OutgoingStops
  BY <1>w DEF OutgoingStops
<1>8. CASE OutgoingWrites
  BY <1>8 DEF OutgoingWrites
<1>9. CASE DeviceAnswers
  BY <1>9 DEF DeviceAnswers
<1>10. CASE DeviceHandlerFails
  BY <1>10 DEF DeviceHandlerFails
<1>11. CASE IncomingLooksUp
  BY <1>11 DEF IncomingLooksUp
<1>12. CASE IncomingUnknown
  BY <1>12 DEF IncomingUnknown
<1>13. CASE IncomingDelivers
  BY <1>13 DEF IncomingDelivers
<1>14. CASE SessionFails
  BY <1>14 DEF SessionFails
<1>15. CASE SessionCloses
  BY <1>15 DEF SessionCloses
<1>16. ASSUME NEW r \in Request, DelExpireKeys(r) PROVE EndInv'
  BY <1>16 DEF DelExpireKeys
<1>17. CASE UNCHANGED vars
  BY <1>17 DEF vars
<1> QED
  BY <1>1, <1>2, <1>3, <1>4, <1>5, <1>6, <1>7, <1>8, <1>w, <1>9, <1>10, <1>11, <1>12, <1>13,
     <1>14, <1>15, <1>16, <1>17
     DEF Next, DeviceNext, IncomingNext, CallerNext

\* Every step keeps sendIDStore in step with the handlers inside Send.
LEMMA StoreExactStep ==
  ASSUME TypeOK, ActiveInv, FlightInv, StoreInv, StoreInv', StoreExact, [Next]_vars
  PROVE  StoreExact'
<1> USE DEF device, server, callers, Active, TypeOK, ActiveInv, None, StoreExact
<1>a. \A u \in Caller : caller[u] \in Active => req[u] \in InFlight
  BY DEF InFlight
<1>1. ASSUME NEW u \in Caller, CallerFinds(u) PROVE StoreExact'
  <2>1. \A v \in Caller : caller'[v] \in Active <=> caller[v] \in Active
    BY <1>1 DEF CallerFinds, CallerMoves
  <2> QED  BY <1>1, <2>1 DEF CallerFinds, CallerMoves
<1>2. ASSUME NEW u \in Caller, CallerSets(u) PROVE StoreExact'
  <2> SUFFICES ASSUME ~reused', NEW r \in Request \ stalled
               PROVE  sendIDStore'[HeaderID(r)] = r
                        <=> \E v \in Caller : caller'[v] \in Active /\ req'[v] = r
    BY <1>2 DEF CallerSets
  <2> DEFINE n == rolling + 1
  <2>1. /\ n \in Request /\ caller[u] = "found"
        /\ caller' = [caller EXCEPT ![u] = "send"]
        /\ req' = [req EXCEPT ![u] = n]
        /\ sendIDStore' = [sendIDStore EXCEPT ![HeaderID(n)] = n]
    BY <1>2, MaxReqAssumption DEF CallerSets, CallerMoves, Request
  <2>b. ~reused /\ \A m \in InFlight : HeaderID(m) # HeaderID(n)
    BY <1>2 DEF CallerSets
  <2>2. HeaderID(r) \in 0 .. IDSpace - 1 /\ HeaderID(n) \in 0 .. IDSpace - 1
    BY <2>1, HeaderIDType
  <2> HIDE DEF n
  <2>3. caller'[u] = "send" /\ req'[u] = n
        /\ \A v \in Caller \ {u} : caller'[v] = caller[v] /\ req'[v] = req[v]
    BY <2>1
  <2>4. CASE r = n
    BY <2>1, <2>2, <2>3, <2>4
  <2>5. CASE r # n
    <3>1. (\E v \in Caller : caller'[v] \in Active /\ req'[v] = r)
            <=> \E v \in Caller : caller[v] \in Active /\ req[v] = r
      BY <2>1, <2>3, <2>5
    <3>2. CASE \E v \in Caller : caller[v] \in Active /\ req[v] = r
      <4>1. HeaderID(r) # HeaderID(n)
        BY <1>a, <2>b, <3>2
      <4> QED  BY <2>1, <2>b, <2>2, <3>1, <3>2, <4>1
    <3>3. CASE ~\E v \in Caller : caller[v] \in Active /\ req[v] = r
      BY <2>1, <2>b, <2>2, <2>5, <3>1, <3>3
    <3> QED  BY <3>2, <3>3
  <2> QED  BY <2>4, <2>5
<1>3. ASSUME NEW u \in Caller, CallerSends(u) PROVE StoreExact'
  <2>1. \A v \in Caller : caller'[v] \in Active <=> caller[v] \in Active
    BY <1>3 DEF CallerSends, CallerMoves
  <2> QED  BY <1>3, <2>1 DEF CallerSends, CallerMoves
<1>4. ASSUME NEW u \in Caller, CallerStalls(u) PROVE StoreExact'
  BY <1>4 DEF CallerStalls
<1>5. ASSUME NEW u \in Caller, CallerGets(u) PROVE StoreExact'
  <2>1. \A v \in Caller : caller'[v] \in Active <=> caller[v] \in Active
    BY <1>5 DEF CallerGets, CallerMoves
  <2> QED  BY <1>5, <2>1 DEF CallerGets, CallerMoves
<1>6. ASSUME NEW u \in Caller, CallerTimesOut(u) PROVE StoreExact'
  <2>1. \A v \in Caller : caller'[v] \in Active <=> caller[v] \in Active
    BY <1>6 DEF CallerTimesOut, CallerMoves
  <2> QED  BY <1>6, <2>1 DEF CallerTimesOut, CallerMoves
<1>7. ASSUME NEW u \in Caller, CallerDeletes(u) PROVE StoreExact'
  <2> SUFFICES ASSUME ~reused, NEW r \in Request \ stalled
               PROVE  sendIDStore'[HeaderID(r)] = r
                        <=> \E v \in Caller : caller'[v] \in Active /\ req'[v] = r
    BY <1>7 DEF CallerDeletes
  <2> DEFINE d == req[u]
  <2>1. /\ caller[u] = "del" /\ d \in Request
        /\ caller' = [caller EXCEPT ![u] = "idle"]
        /\ req' = [req EXCEPT ![u] = None]
        /\ sendIDStore' = [sendIDStore EXCEPT ![HeaderID(d)] = None]
    BY <1>7 DEF CallerDeletes, CallerMoves
  <2>2. HeaderID(r) \in 0 .. IDSpace - 1 /\ HeaderID(d) \in 0 .. IDSpace - 1
    BY <2>1, HeaderIDType
  <2>3. r # None /\ d # None
    BY <2>1 DEF Request
  <2>4. \A v \in Caller : caller'[v] \in Active <=> caller[v] \in Active /\ v # u
    BY <2>1
  <2>5. \A v \in Caller : v # u /\ caller[v] \in Active => req'[v] = req[v] /\ req[v] # d
    BY <2>1
  <2>6. \A v \in Caller : caller[v] \in Active /\ HeaderID(req[v]) = HeaderID(d) => req[v] = d
    BY <1>a, <2>1 DEF FlightInv
  <2> HIDE DEF d
  <2>7. CASE HeaderID(r) = HeaderID(d)
    <3>1. sendIDStore'[HeaderID(r)] = None
      BY <2>1, <2>2, <2>7
    <3>2. \A v \in Caller : caller'[v] \in Active => req'[v] # r
      BY <2>4, <2>5, <2>6, <2>7
    <3> QED  BY <2>3, <3>1, <3>2
  <2>8. CASE HeaderID(r) # HeaderID(d)
    <3>1. sendIDStore'[HeaderID(r)] = sendIDStore[HeaderID(r)]
      BY <2>1, <2>2, <2>8
    <3>2. (\E v \in Caller : caller'[v] \in Active /\ req'[v] = r)
            <=> \E v \in Caller : caller[v] \in Active /\ req[v] = r
      BY <2>4, <2>5, <2>8 DEF d
    <3> QED  BY <3>1, <3>2
  <2> QED  BY <2>7, <2>8
<1>w. CASE OutgoingStops
  BY <1>w DEF OutgoingStops
<1>8. CASE OutgoingWrites
  BY <1>8 DEF OutgoingWrites
<1>9. CASE DeviceAnswers
  BY <1>9 DEF DeviceAnswers
<1>10. CASE DeviceHandlerFails
  BY <1>10 DEF DeviceHandlerFails
<1>11. CASE IncomingLooksUp
  BY <1>11 DEF IncomingLooksUp
<1>12. CASE IncomingUnknown
  BY <1>12 DEF IncomingUnknown
<1>13. CASE IncomingDelivers
  BY <1>13 DEF IncomingDelivers
<1>14. CASE SessionFails
  BY <1>14 DEF SessionFails
<1>15. CASE SessionCloses
  BY <1>15 DEF SessionCloses
<1>16. ASSUME NEW e \in Request, DelExpireKeys(e) PROVE StoreExact'
  <2> SUFFICES ASSUME ~reused, NEW r \in Request \ stalled
               PROVE  sendIDStore'[HeaderID(r)] = r
                        <=> \E v \in Caller : caller'[v] \in Active /\ req'[v] = r
    BY <1>16 DEF DelExpireKeys
  <2>1. /\ e \in stalled /\ sendIDStore[HeaderID(e)] = e
        /\ sendIDStore' = [sendIDStore EXCEPT ![HeaderID(e)] = None]
        /\ UNCHANGED <<caller, req>>
    BY <1>16 DEF DelExpireKeys
  <2>2. HeaderID(r) \in 0 .. IDSpace - 1 /\ HeaderID(e) \in 0 .. IDSpace - 1
    BY HeaderIDType
  <2>3. r # None /\ r # e
    BY <2>1 DEF Request
  <2> QED  BY <2>1, <2>2, <2>3
<1>17. CASE UNCHANGED vars
  BY <1>17 DEF vars
<1> QED
  BY <1>1, <1>2, <1>3, <1>4, <1>5, <1>6, <1>7, <1>8, <1>w, <1>9, <1>10, <1>11, <1>12, <1>13,
     <1>14, <1>15, <1>16, <1>17
     DEF Next, DeviceNext, IncomingNext, CallerNext

\* Every step that meets an unknown header id meets it for a late answer.
LEMMA LateStep ==
  ASSUME TypeOK, ActiveInv, FlightInv, QueueInv, ArrivedInv, EndInv, StoreExact,
         TeardownMeansLate, [Next]_vars
  PROVE  TeardownMeansLate'
<1> USE DEF device, server, callers, TeardownMeansLate
<1>1. CASE IncomingUnknown
  <2> DEFINE h == Head(toServer)
  <2> SUFFICES ASSUME ~reused PROVE h \in timedOut \cup stalled
    BY <1>1 DEF IncomingUnknown
  <2>1. toServer # <<>> /\ sendIDStore[HeaderID(h)] = None
    BY <1>1 DEF IncomingUnknown
  <2>2. h \in Request /\ h \in ToSet(toServer)
    BY <2>1, TailSet DEF TypeOK
  <2>3. h \in 1 .. rolling /\ h \notin Arrived
    BY <2>2 DEF QueueInv, ArrivedInv
  <2>4. answer[h] = None
    BY <2>2, <2>3 DEF Arrived
  <2>5. h # None
    BY <2>2 DEF Request, None
  <2> HIDE DEF h
  <2>6. CASE h \notin stalled
    <3>1. ~\E u \in Caller : caller[u] \in Active /\ req[u] = h
      BY <2>1, <2>2, <2>5, <2>6 DEF StoreExact
    <3> QED  BY <2>3, <2>4, <3>1 DEF EndInv, Active
  <2> QED  BY <2>6
<1>2. \/ /\ unknown' = unknown /\ (reused => reused')
         /\ timedOut \subseteq timedOut' /\ stalled \subseteq stalled'
      \/ IncomingUnknown
  BY DEF Next, DeviceNext, IncomingNext, CallerNext, CallerFinds, CallerSets, CallerSends,
         CallerStalls, CallerGets, CallerTimesOut, CallerDeletes, CallerMoves, OutgoingWrites, OutgoingStops,
         DeviceAnswers, DeviceHandlerFails, IncomingLooksUp, IncomingDelivers, DelExpireKeys,
         SessionFails, SessionCloses, vars
<1> QED  BY <1>1, <1>2

-----------------------------------------------------------------------------
\* The inductive invariant.
IInv ==
  /\ TypeOK
  /\ ActiveInv
  /\ FlightInv
  /\ StoreInv
  /\ DeliveryInv
  /\ Correlated
  /\ QueueInv
  /\ ArrivedInv
  /\ EndInv
  /\ StoreExact
  /\ TeardownMeansLate

LEMMA InitIInv == Init => IInv
<1> SUFFICES ASSUME Init PROVE IInv
  OBVIOUS
<1> USE DEF Init
<1>1. TypeOK
  <2>1. rolling \in 0 .. MaxReq
    BY MaxReqAssumption
  <2>2. /\ outgoingChan \in Seq(Request) /\ toDevice \in Seq(Request)
        /\ toServer \in Seq(Request) /\ Len(outgoingChan) <= QueueSize
    BY QueueSizeAssumption
  <2>3. /\ req \in [Caller -> Request \cup {None}]
        /\ sendIDStore \in [0 .. IDSpace - 1 -> Request \cup {None}]
        /\ respChan \in [Request -> Request \cup {None}]
        /\ answer \in [Request -> Request \cup {None}]
        /\ caller \in [Caller -> {"idle", "found"} \cup Active]
    OBVIOUS
  <2> QED  BY <2>1, <2>2, <2>3 DEF TypeOK
<1>2. ActiveInv /\ StoreInv /\ DeliveryInv /\ Correlated
  BY DEF ActiveInv, StoreInv, DeliveryInv, Correlated, Active, None
<1>3. InFlight = {}
  BY PairSet DEF InFlight, Active
<1>4. FlightInv
  BY <1>3 DEF FlightInv
<1>5. QueueInv
  BY EmptyNoDup DEF QueueInv
<1>6. Arrived = {}
  BY PairSet DEF Arrived
<1>7. ArrivedInv /\ EndInv /\ StoreExact /\ TeardownMeansLate
  BY <1>6, HeaderIDType DEF ArrivedInv, EndInv, StoreExact, TeardownMeansLate, Active, None, Request
<1> QED  BY <1>1, <1>2, <1>4, <1>5, <1>7 DEF IInv

LEMMA NextIInv == IInv /\ [Next]_vars => IInv'
<1> SUFFICES ASSUME IInv, [Next]_vars PROVE IInv'
  OBVIOUS
<1>1. TypeOK' /\ ActiveInv' /\ FlightInv' /\ StoreInv'
  BY TypeStep, ActiveStep, FlightInvStep, StoreStep DEF IInv
<1>2. DeliveryInv' /\ Correlated'
  BY DeliveryStep DEF IInv
<1>3. QueueInv' /\ EndInv' /\ TeardownMeansLate'
  BY QueueStep, EndStep, LateStep DEF IInv
<1>4. ArrivedInv'
  BY <1>2, ArrivedStep DEF IInv
<1>5. StoreExact'
  BY <1>1, StoreExactStep DEF IInv
<1> QED  BY <1>1, <1>2, <1>3, <1>4, <1>5 DEF IInv

\* The strengthening holds in every reachable state.
THEOREM Invariance == Spec => []IInv
  BY InitIInv, NextIInv, PTL DEF Spec

\* Every variable keeps its type, and outgoingChan its capacity.
THEOREM TypeCorrect == Spec => []TypeOK
<1>1. IInv => TypeOK
  BY DEF IInv
<1> QED  BY <1>1, Invariance, PTL

\* Until a header id comes round in flight, Send returns the device's answer to
\* the very request it was called for, however many handlers share the session.
THEOREM AnswersCorrelate == Spec => []Correlated
<1>1. IInv => Correlated
  BY DEF IInv
<1> QED  BY <1>1, Invariance, PTL

\* Until a header id comes round in flight, a handler that has left Send leaves
\* no key behind, and one that is inside finds its key in place.
THEOREM StoreIsExact == Spec => []StoreExact
<1>1. IInv => StoreExact
  BY DEF IInv
<1> QED  BY <1>1, Invariance, PTL

\* Until a header id comes round in flight, an answer whose id is unknown is one
\* whose handler has given up or was stalled beyond the life of its key.
THEOREM OnlyLateAnswersEndSessions == Spec => []TeardownMeansLate
<1>1. IInv => TeardownMeansLate
  BY DEF IInv
<1> QED  BY <1>1, Invariance, PTL

-----------------------------------------------------------------------------
(* Send implements RequestReply.                                            *)

\* Once a header id has been reused, the promise is off and any step is allowed.
LEMMA VoidStep ==
  ASSUME reused'
  PROVE  Reply!Next
BY DEF Reply!Next, Reply!Void

\* Every step of the session is a step of RequestReply or changes nothing in it.
LEMMA ReplyStep ==
  ASSUME IInv, [Next]_vars, ~reused'
  PROVE  [Reply!Next]_(Reply!vars)
<1> DEFINE Same == UNCHANGED <<rolling, handled, answer, timedOut, reused>>
<1> USE DEF device, server, callers, IInv, TypeOK
<1>a. Same => [Reply!Next]_(Reply!vars)
  BY DEF Reply!vars
<1>b. ~reused /\ reused' = reused
  <2>1. reused \in BOOLEAN /\ reused' \in BOOLEAN
    BY TypeStep
  <2>2. ~reused
    BY Monotone
  <2> QED  BY <2>1, <2>2
<1>1. ASSUME NEW u \in Caller, CallerSets(u) PROVE Reply!Next
  <2>1. /\ rolling \in Nat /\ rolling' = rolling + 1 /\ rolling + 1 \in Request
        /\ UNCHANGED <<handled, answer, timedOut>>
    BY <1>1, MaxReqAssumption DEF CallerSets, CallerMoves, Request
  <2>2. 1 .. rolling + 1 = (1 .. rolling) \cup {rolling + 1} /\ rolling + 1 \notin 1 .. rolling
    BY <2>1
  <2>3. Reply!Issue(rolling + 1)
    BY <2>1, <2>2, <1>b DEF Reply!Issue
  <2> QED  BY <2>1, <2>3 DEF Reply!Next
<1>2. ASSUME NEW u \in Caller, CallerGets(u) PROVE Reply!Next
  <2> DEFINE r == req[u]
  <2>1. /\ caller[u] = "wait" /\ r \in Request /\ respChan[r] # None
        /\ answer' = [answer EXCEPT ![r] = respChan[r]]
        /\ UNCHANGED <<handled, rolling, timedOut, reused>>
    BY <1>2 DEF CallerGets, CallerMoves, ActiveInv, Active
  <2>2. respChan[r] = r
    BY <2>1, <1>b DEF DeliveryInv
  <2>3. r \in handled
    BY <2>1, <1>b DEF ArrivedInv, Arrived
  <2>4. answer[r] = None /\ r \notin timedOut
    BY <2>1 DEF EndInv
  <2> HIDE DEF r
  <2>5. Reply!Return(r)
    BY <2>1, <2>2, <2>3, <2>4 DEF Reply!Return, Reply!Ended
  <2> QED  BY <2>1, <2>5 DEF Reply!Next
<1>3. ASSUME NEW u \in Caller, CallerTimesOut(u) PROVE Reply!Next
  <2> DEFINE r == req[u]
  <2>1. /\ caller[u] = "wait" /\ r \in Request
        /\ timedOut' = timedOut \cup {r}
        /\ UNCHANGED <<handled, rolling, answer, reused>>
    BY <1>3 DEF CallerTimesOut, CallerMoves, ActiveInv, Active
  <2>2. r \in 1 .. rolling
    BY <2>1, ActiveNumbered DEF Active
  <2>3. answer[r] = None /\ r \notin timedOut
    BY <2>1 DEF EndInv
  <2> HIDE DEF r
  <2>4. Reply!Expire(r)
    BY <2>1, <2>2, <2>3 DEF Reply!Expire, Reply!Ended
  <2> QED  BY <2>1, <2>4 DEF Reply!Next
<1>4. ASSUME DeviceAnswers PROVE Reply!Next
  <2> DEFINE h == Head(toDevice)
  <2>1. /\ toDevice # <<>> /\ handled' = handled \cup {h}
        /\ UNCHANGED <<rolling, answer, timedOut, reused>>
    BY <1>4 DEF DeviceAnswers
  <2>2. h \in Request /\ h \in ToSet(toDevice)
    BY <2>1, TailSet
  <2>3. h \in 1 .. rolling /\ h \notin handled
    BY <2>2 DEF FlightInv, InFlight, QueueInv
  <2> HIDE DEF h
  <2>4. Reply!Answer(h)
    BY <2>1, <2>3 DEF Reply!Answer
  <2> QED  BY <2>2, <2>4 DEF Reply!Next
<1>5. \/ Same \/ DeviceAnswers
      \/ \E u \in Caller : CallerSets(u) \/ CallerGets(u) \/ CallerTimesOut(u)
  BY DEF Next, DeviceNext, IncomingNext, CallerNext, CallerFinds, CallerSends, CallerStalls,
         CallerDeletes, CallerMoves, OutgoingWrites, OutgoingStops, DeviceHandlerFails, IncomingLooksUp,
         IncomingUnknown, IncomingDelivers, DelExpireKeys, SessionFails, SessionCloses, vars
<1> QED  BY <1>a, <1>1, <1>2, <1>3, <1>4, <1>5

\* Send is a RequestReply: every request of every handler ends at most once, with
\* the answer the device gave to it or with a timeout, as long as no header id
\* comes round while it is in flight.
THEOREM SendImplementsRequestReply == Spec => ImplementsRequestReply
<1>1. Init => Reply!Init
  <2>1. rolling = 0 => 1 .. rolling = {}
    OBVIOUS
  <2> QED  BY <2>1 DEF Init, Reply!Init
<1>2. IInv /\ [Next]_vars => [Reply!Next]_(Reply!vars)
  BY VoidStep, ReplyStep
<1> QED  BY <1>1, <1>2, Invariance, PTL DEF Spec, Reply!Spec, ImplementsRequestReply
=============================================================================

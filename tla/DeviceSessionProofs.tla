------------------------- MODULE DeviceSessionProofs -------------------------
(***************************************************************************)
(* OneChain, ServesCurrent, TeardownMeansLate and IdentityKnown of         *)
(* DeviceSession, for any number of connections, requests, user requests   *)
(* and pings and any capacity of outgoingChan.                             *)
(***************************************************************************)
EXTENDS DeviceSession, TLAPS

\* The session's chain of life: the connections above conn do not exist yet, only
\* the serve of conn can be at work or about to close, and what carries the session
\* on is that serve, an error in errChan or a timer.
Newest ==
  /\ conn \in Conn
  /\ serve \in [Conn -> Running \cup {"none", "close", "lost", "ended"}]
  /\ \A k \in Conn : k > conn => serve[k] = "none"
  /\ \A k \in Conn : serve[k] \in Running \cup {"close"} => k = conn
  /\ serve[conn] # "none"

Carried ==
  /\ ctxDone \in BOOLEAN /\ errChan \in 0 .. 1 /\ pending \in 0 .. 1
  /\ errChan + pending <= 1
  /\ errChan + pending = 1 => serve[conn] \notin Running
  /\ ~ctxDone /\ serve[conn] # "lost" => errChan + pending = 1 \/ serve[conn] \in Running

IInv == Newest /\ Carried

LEMMA InitIInv == Init => IInv
<1> SUFFICES ASSUME Init
             PROVE  IInv
  OBVIOUS
<1>1. 1 \in Conn
  BY MaxConnAssumption DEF Conn
<1>2. conn = 1 /\ serve = [k \in Conn |-> IF k = 1 THEN "verify" ELSE "none"]
  BY DEF Init
<1>3. Newest
  BY <1>1, <1>2 DEF Newest, Running, Conn
<1>4. Carried
  <2>1. serve[conn] = "verify"
    BY <1>1, <1>2
  <2>2. errChan = 0 /\ pending = 0
    BY DEF Init
  <2>3. ctxDone \in BOOLEAN
    BY DEF Init
  <2>4. QED BY <2>1, <2>2, <2>3 DEF Carried, Running
<1>5. QED BY <1>3, <1>4 DEF IInv

\* What leaves the chain alone keeps the invariant.
LEMMA Quiet ==
  ASSUME IInv, UNCHANGED <<ctxDone, chain, serve>>
  PROVE  IInv'
  BY DEF IInv, Newest, Carried, chain

LEMMA ServeStep ==
  ASSUME IInv, NEW k \in Conn, ServeNext(k)
  PROVE  IInv'
<1> USE DEF IInv, Newest, Carried, Running, Conn
<1>1. CASE ServeVerifies(k) \/ ServePingSet(k) \/ ServePing(k) \/ ServeHeartbeat(k)
  BY <1>1 DEF ServeVerifies, ServePingSet, ServePing, ServeHeartbeat, ServeMoves, chain
<1>2. CASE ServeVerifyFails(k)
  BY <1>2 DEF ServeVerifyFails, ServeMoves
<1>3. CASE ServeError(k)
  BY <1>3 DEF ServeError, ServeMoves
<1>4. CASE ServePushErr(k)
  BY <1>4 DEF ServePushErr, ServeMoves
<1>5. CASE ServeClose(k)
  BY <1>5 DEF ServeClose, ServeMoves
<1>6. CASE ServeCtxDone(k)
  BY <1>6 DEF ServeCtxDone, ServeMoves
<1>7. QED BY <1>1, <1>2, <1>3, <1>4, <1>5, <1>6 DEF ServeNext

LEMMA ChainStep ==
  ASSUME IInv, ChainNext
  PROVE  IInv'
<1> USE DEF IInv, Newest, Carried, Running, Conn
<1>1. CASE RecoverTakes
  BY <1>1 DEF RecoverTakes, goroutines
<1>2. CASE ReconnectFails
  BY <1>2 DEF ReconnectFails, goroutines
<1>3. CASE ReconnectSucceeds
  BY <1>3 DEF ReconnectSucceeds
<1>4. CASE Cancel
  BY <1>4 DEF Cancel, chain, goroutines
<1>5. QED BY <1>1, <1>2, <1>3, <1>4 DEF ChainNext

\* The helpers, the callers and the peers never touch the chain.
LEMMA HelperStep ==
  ASSUME IInv, NEW k \in Conn, IncomingNext(k) \/ OutgoingNext(k) \/ ServerNext(k)
  PROVE  IInv'
<1>1. CASE IncomingNext(k)
  <2>1. UNCHANGED <<ctxDone, chain, serve>>
    BY <1>1 DEF IncomingNext, IncomingCtxDone, IncomingReadFails, IncomingRefused,
                IncomingAsked, HandlerReturns, HandlerFails, IncomingAnswers,
                IncomingDelivers, IncomingUnknown, IncomingFails, IncomingMoves
  <2>2. QED BY <2>1, Quiet
<1>2. CASE OutgoingNext(k)
  <2>1. UNCHANGED <<ctxDone, chain, serve>>
    BY <1>2 DEF OutgoingNext, Written, OutgoingCtxDone, OutgoingVanishes, OutgoingFails,
                ServerVerifies, ServerRefuses, ServerReverifies, ServerPinged, ServerServes,
                ServerDelivers, ServerUnknown, Writes, OutgoingMoves
  <2>2. QED BY <2>1, Quiet
<1>3. CASE ServerNext(k)
  <2>1. UNCHANGED <<ctxDone, chain, serve>>
    BY <1>3 DEF ServerNext, LinkBreaks, UserAsks, UserTimesOut, Server, goroutines
  <2>2. QED BY <2>1, Quiet
<1>4. QED BY <1>1, <1>2, <1>3

LEMMA CallerStep ==
  ASSUME IInv, NEW r \in Request, CallerNext(r)
  PROVE  IInv'
<1>1. UNCHANGED <<ctxDone, chain, serve>>
  BY DEF CallerNext, CallerSets, CallerSends, CallerGets, CallerTimesOut, DelExpireKeys,
         CallerMoves, goroutines
<1>2. QED BY <1>1, Quiet

LEMMA NextIInv == IInv /\ [Next]_vars => IInv'
<1> SUFFICES ASSUME IInv, [Next]_vars
             PROVE  IInv'
  OBVIOUS
<1>1. CASE UNCHANGED vars
  BY <1>1, Quiet DEF vars, goroutines
<1>2. CASE Next
  BY <1>2, ChainStep, ServeStep, HelperStep, CallerStep DEF Next
<1>3. QED BY <1>1, <1>2

LEMMA Invariant == Spec => []IInv
  BY InitIInv, NextIInv, PTL DEF Spec

\* However serve, recover, reconnect, Cancel and the network interleave, exactly
\* one of a running serve, an error in errChan and a timer carries the session on.
THEOREM SingleChain == Spec => []OneChain
<1>1. IInv => OneChain
  BY DEF IInv, Newest, Carried, OneChain, Running
<1>2. QED BY <1>1, Invariant, PTL

\* A serve that is at work, or about to close s.conn, is the one of s.conn.
THEOREM CurrentServe == Spec => []ServesCurrent
<1>1. IInv => ServesCurrent
  BY DEF IInv, Newest, ServesCurrent
<1>2. QED BY <1>1, Invariant, PTL

-----------------------------------------------------------------------------
(* The types of what the second part is about.                              *)

OutMsg == [type : {"verify", "ping", "answer"}, conn : Nat, id : Nat]
            \cup [type : {"req"}, conn : {0}, id : Request]
InMsg == [type : {"refusal", "ask"}, id : Nat] \cup [type : {"resp"}, id : Request]

PeerTypes ==
  /\ outgoing \in [Conn -> {"none", "select", "ended"}]
  /\ link \in [Conn -> {"none", "up", "broken", "closed"}]
  /\ verdict \in [Conn -> {"none", "passed", "refused"}]
  /\ served \in SUBSET (Request \X Conn \X BOOLEAN)

QueueTypes ==
  /\ handling \in [Conn -> Nat]
  /\ outgoingChan \in Seq(OutMsg)
  /\ toDevice \in [Conn -> Seq(InMsg)]

CallerTypes ==
  /\ caller \in [Request -> {"idle", "send", "wait", "ended"}]
  /\ sendIDStore \in SUBSET Request /\ respChan \in SUBSET Request
  /\ gaveUp \in SUBSET Request /\ unknown \in SUBSET Request
  /\ behind \in [Request -> Nat]

Types == PeerTypes /\ QueueTypes /\ CallerTypes

LEMMA InitTypes == Init => Types
<1> SUFFICES ASSUME Init
             PROVE  Types
  OBVIOUS
<1>1. PeerTypes
  BY DEF Init, PeerTypes
<1>2. QueueTypes
  BY DEF Init, QueueTypes
<1>3. CallerTypes
  BY DEF Init, CallerTypes
<1>4. QED BY <1>1, <1>2, <1>3 DEF Types

\* What a sender puts is a message, and what a reader takes leaves messages.
LEMMA PutTypes ==
  ASSUME QueueTypes, NEW m \in OutMsg, Put(m)
  PROVE  outgoingChan' \in Seq(OutMsg)
  BY DEF QueueTypes, Put

LEMMA TailTypes ==
  ASSUME NEW S, NEW q \in Seq(S), q # <<>>
  PROVE  Tail(q) \in Seq(S) /\ Head(q) \in S
  OBVIOUS

LEMMA DownTypes ==
  ASSUME Types, NEW k \in Conn, NEW how \in {"broken", "closed"}, Down(k, how)
  PROVE  /\ link' \in [Conn -> {"none", "up", "broken", "closed"}]
         /\ toDevice' \in [Conn -> Seq(InMsg)]
  BY DEF Types, PeerTypes, QueueTypes, Down

LEMMA MessageTypes ==
  ASSUME Types
  PROVE  /\ Ping \in OutMsg
         /\ \A k \in Conn : Verify(k) \in OutMsg /\ Answer(<<k, handling[k]>>) \in OutMsg
         /\ \A r \in Request : Req(r) \in OutMsg /\ Resp(r) \in InMsg
         /\ Refusal \in InMsg
         /\ \A n \in Nat : Ask(n) \in InMsg
  BY DEF Types, QueueTypes, OutMsg, InMsg, Ping, Verify, Answer, Req, Resp, Refusal, Ask,
         Conn

LEMMA ServeTypes ==
  ASSUME Types, NEW k \in Conn, ServeNext(k)
  PROVE  Types'
<1>1. CASE ServeVerifies(k) \/ ServePingSet(k) \/ ServePing(k)
  <2>1. outgoingChan' \in Seq(OutMsg)
    BY <1>1, PutTypes, MessageTypes
       DEF Types, ServeVerifies, ServePingSet, ServePing
  <2>2. UNCHANGED <<wire, callers, unknown, peers, outgoing, handling>>
    BY <1>1 DEF ServeVerifies, ServePingSet, ServePing, ServeMoves
  <2>3. QED BY <2>1, <2>2 DEF Types, PeerTypes, QueueTypes, CallerTypes, wire, callers, peers
<1>2. CASE ServeVerifyFails(k) \/ ServeHeartbeat(k) \/ ServeError(k) \/ ServePushErr(k)
  <2>2. UNCHANGED <<wire, callers, unknown, peers, outgoing, handling, outgoingChan>>
    BY <1>2 DEF ServeVerifyFails, ServeHeartbeat, ServeError, ServePushErr, ServeMoves
  <2>3. QED BY <2>2 DEF Types, PeerTypes, QueueTypes, CallerTypes, wire, callers, peers
<1>3. CASE ServeClose(k) \/ ServeCtxDone(k)
  <2>1. Down(k, "closed")
    BY <1>3 DEF ServeClose, ServeCtxDone
  <2>2. UNCHANGED <<callers, unknown, peers, outgoing, handling, outgoingChan>>
    BY <1>3 DEF ServeClose, ServeCtxDone, ServeMoves
  <2>3. QED BY <2>1, <2>2, DownTypes
            DEF Types, PeerTypes, QueueTypes, CallerTypes, callers, peers
<1>4. QED BY <1>1, <1>2, <1>3 DEF ServeNext

LEMMA ChainTypes ==
  ASSUME Types, ChainNext
  PROVE  Types'
<1>1. CASE RecoverTakes \/ ReconnectFails \/ Cancel
  <2>1. UNCHANGED <<wire, callers, unknown, peers, goroutines, outgoingChan>>
    BY <1>1 DEF RecoverTakes, ReconnectFails, Cancel
  <2>2. QED BY <2>1 DEF Types, PeerTypes, QueueTypes, CallerTypes, wire, callers, peers,
                        goroutines
<1>2. CASE ReconnectSucceeds
  BY <1>2 DEF ReconnectSucceeds, Types, PeerTypes, QueueTypes, CallerTypes, callers, peers
<1>3. QED BY <1>1, <1>2 DEF ChainNext

LEMMA ReceiveTypes ==
  ASSUME Types, NEW k \in Conn, NEW type, Receives(k, type)
  PROVE  /\ toDevice' \in [Conn -> Seq(InMsg)]
         /\ Head(toDevice[k]) \in InMsg /\ Head(toDevice[k]).type = type
<1>1. toDevice \in [Conn -> Seq(InMsg)]
  BY DEF Types, QueueTypes
<1>2. Tail(toDevice[k]) \in Seq(InMsg) /\ Head(toDevice[k]) \in InMsg
  BY <1>1, TailTypes DEF Receives
<1>3. QED BY <1>1, <1>2 DEF Receives

LEMMA IncomingTypes ==
  ASSUME Types, NEW k \in Conn, IncomingNext(k)
  PROVE  Types'
<1>1. UNCHANGED <<outgoing, link, peers>>
  BY DEF IncomingNext, IncomingCtxDone, IncomingReadFails, IncomingRefused,
         IncomingAsked, HandlerReturns, HandlerFails, IncomingAnswers,
         IncomingDelivers, IncomingUnknown, IncomingFails, IncomingMoves
<1>2. PeerTypes'
  BY <1>1 DEF Types, PeerTypes, peers
<1>3. CASE IncomingCtxDone(k) \/ IncomingReadFails(k) \/ HandlerReturns(k) \/ HandlerFails(k)
  <2>1. UNCHANGED <<handling, outgoingChan, toDevice, callers, unknown>>
    BY <1>3 DEF IncomingCtxDone, IncomingReadFails, HandlerReturns, HandlerFails
  <2>2. QED BY <1>2, <2>1 DEF Types, QueueTypes, CallerTypes, callers
<1>4. CASE IncomingRefused(k)
  BY <1>2, <1>4, ReceiveTypes DEF IncomingRefused, Types, QueueTypes, CallerTypes, callers
<1>5. CASE IncomingAsked(k)
  <2>1. Head(toDevice[k]).id \in Nat /\ toDevice' \in [Conn -> Seq(InMsg)]
    BY <1>5, ReceiveTypes DEF IncomingAsked, InMsg, Request
  <2>2. QED BY <1>2, <1>5, <2>1 DEF IncomingAsked, Types, QueueTypes, CallerTypes, callers
<1>6. CASE IncomingAnswers(k)
  <2>1. outgoingChan' \in Seq(OutMsg)
    BY <1>6, PutTypes, MessageTypes DEF Types, IncomingAnswers
  <2>2. QED BY <1>2, <1>6, <2>1 DEF IncomingAnswers, Types, QueueTypes, CallerTypes, callers
<1>7. CASE IncomingDelivers(k)
  BY <1>2, <1>7, ReceiveTypes DEF IncomingDelivers, Types, QueueTypes, CallerTypes
<1>8. CASE IncomingUnknown(k)
  <2>1. Head(toDevice[k]).id \in Request /\ toDevice' \in [Conn -> Seq(InMsg)]
    BY <1>8, ReceiveTypes DEF IncomingUnknown, InMsg
  <2>2. QED BY <1>2, <1>8, <2>1 DEF IncomingUnknown, Types, QueueTypes, CallerTypes, callers
<1>9. QED BY <1>3, <1>4, <1>5, <1>6, <1>7, <1>8 DEF IncomingNext

LEMMA WriteTypes ==
  ASSUME Types, NEW k \in Conn, NEW type, Writes(k, type)
  PROVE  /\ outgoingChan' \in Seq(OutMsg) /\ outgoing' \in [Conn -> {"none", "select", "ended"}]
         /\ outgoingChan # <<>> /\ Head(outgoingChan) \in OutMsg
         /\ Head(outgoingChan).type = type
         /\ UNCHANGED <<handling, callers, unknown>>
<1>1. outgoingChan \in Seq(OutMsg)
  BY DEF Types, QueueTypes
<1>2. outgoingChan # <<>> /\ outgoingChan' = Tail(outgoingChan)
  BY DEF Writes, Taken
<1>3. outgoingChan' \in Seq(OutMsg) /\ Head(outgoingChan) \in OutMsg
  BY <1>1, <1>2, TailTypes
<1>4. QED BY <1>2, <1>3 DEF Writes, OutgoingMoves, Types, PeerTypes

LEMMA ReplyTypes ==
  ASSUME Types, NEW k \in Conn, NEW m \in Seq(InMsg), Replies(k, m)
  PROVE  toDevice' \in [Conn -> Seq(InMsg)]
  BY DEF Types, QueueTypes, Replies

LEMMA OutgoingTypes ==
  ASSUME Types, NEW k \in Conn, OutgoingNext(k)
  PROVE  Types'
<1> USE DEF Types, QueueTypes, CallerTypes, callers
<1>1. CASE OutgoingCtxDone(k)
  BY <1>1 DEF OutgoingCtxDone, OutgoingMoves, PeerTypes, wire, peers
<1>2. CASE OutgoingVanishes(k) \/ OutgoingFails(k)
  <2>1. Taken
    BY <1>2 DEF OutgoingVanishes, OutgoingFails
  <2>2. outgoingChan' \in Seq(OutMsg)
    BY <2>1 DEF Taken
  <2>3. QED BY <1>2, <2>2 DEF OutgoingVanishes, OutgoingFails, OutgoingMoves, PeerTypes, wire,
                              peers
<1>3. CASE ServerVerifies(k)
  BY <1>3, WriteTypes DEF ServerVerifies, PeerTypes, wire
<1>4. CASE ServerRefuses(k)
  <2>1. <<Refusal>> \in Seq(InMsg)
    BY MessageTypes
  <2>2. toDevice' \in [Conn -> Seq(InMsg)] /\ link' = link
    BY <1>4, <2>1, ReplyTypes DEF ServerRefuses, Replies
  <2>3. QED BY <1>4, <2>2, WriteTypes DEF ServerRefuses, PeerTypes
<1>5. CASE ServerReverifies(k) \/ ServerUnknown(k)
  BY <1>5, WriteTypes, DownTypes DEF ServerReverifies, ServerUnknown, PeerTypes, peers
<1>6. CASE ServerPinged(k)
  BY <1>6, WriteTypes DEF ServerPinged, PeerTypes, wire, peers
<1>7. CASE ServerServes(k)
  <2>1. Head(outgoingChan).id \in Request
    <3>1. Head(outgoingChan) \in OutMsg /\ Head(outgoingChan).type = "req"
      BY <1>7, WriteTypes DEF ServerServes
    <3>2. QED BY <3>1 DEF OutMsg
  <2>2. PICK r \in Request : r = Head(outgoingChan).id
    BY <2>1
  <2>3. PICK reply \in {<<Resp(r)>>, <<>>} : Replies(k, reply)
    BY <1>7, <2>2 DEF ServerServes
  <2>4. toDevice' \in [Conn -> Seq(InMsg)] /\ link' = link
    <3>1. Resp(r) \in InMsg
      BY MessageTypes
    <3>2. <<Resp(r)>> \in Seq(InMsg) /\ <<>> \in Seq(InMsg)
      BY <3>1
    <3>3. reply \in Seq(InMsg)
      BY <2>3, <3>2, Zenon
    <3>4. QED BY <2>3, <3>3, ReplyTypes DEF Replies
  <2>5. <<Head(outgoingChan).id, k, verdict[k] = "passed">> \in Request \X Conn \X BOOLEAN
    BY <2>1
  <2>6. QED BY <1>7, <2>4, <2>5, WriteTypes DEF ServerServes, PeerTypes
<1>8. CASE ServerDelivers(k)
  BY <1>8, WriteTypes DEF ServerDelivers, PeerTypes, wire
<1>9. QED BY <1>1, <1>2, <1>3, <1>4, <1>5, <1>6, <1>7, <1>8 DEF OutgoingNext, Written

LEMMA CallerStepTypes ==
  ASSUME IInv, Types, NEW r \in Request, CallerNext(r)
  PROVE  Types'
<1> USE DEF Types
<1>1. UNCHANGED <<goroutines, wire, unknown, peers>>
  BY DEF CallerNext, CallerSets, CallerSends, CallerGets, CallerTimesOut, DelExpireKeys,
         CallerMoves
<1>2. PeerTypes' /\ toDevice' \in [Conn -> Seq(InMsg)] /\ handling' \in [Conn -> Nat]
  BY <1>1 DEF PeerTypes, QueueTypes, goroutines, wire, peers
<1>3. CASE CallerSets(r) \/ CallerGets(r) \/ CallerTimesOut(r)
  BY <1>1, <1>2, <1>3 DEF CallerSets, CallerGets, CallerTimesOut, CallerMoves, QueueTypes,
                          CallerTypes
<1>4. CASE CallerSends(r)
  <2>1. outgoingChan' \in Seq(OutMsg)
    BY <1>4, PutTypes, MessageTypes DEF CallerSends
  <2>2. conn \in Nat \ {0}
    BY DEF IInv, Newest, Conn
  <2>3. QED BY <1>1, <1>2, <1>4, <2>1, <2>2 DEF CallerSends, CallerMoves, QueueTypes,
                                                CallerTypes
<1>5. CASE \E k \in Conn : DelExpireKeys(k, r)
  BY <1>1, <1>2, <1>5 DEF DelExpireKeys, QueueTypes, CallerTypes
<1>6. QED BY <1>3, <1>4, <1>5 DEF CallerNext

LEMMA ServerTypes ==
  ASSUME Types, NEW k \in Conn, ServerNext(k)
  PROVE  Types'
<1> USE DEF Types, QueueTypes, CallerTypes, PeerTypes, callers, goroutines
<1>1. CASE LinkBreaks(k)
  BY <1>1, DownTypes DEF LinkBreaks, peers
<1>2. ASSUME NEW n \in 1 .. MaxUser, UserAsks(k, n)
      PROVE  Types'
  <2>1. Append(toDevice[k], Ask(n)) \in Seq(InMsg)
    BY MessageTypes
  <2>2. QED BY <1>2, <2>1 DEF UserAsks, Server
<1>3. ASSUME NEW n \in 1 .. MaxUser, UserTimesOut(<<k, n>>)
      PROVE  Types'
  BY <1>3 DEF UserTimesOut, Server, wire
<1>4. QED BY <1>1, <1>2, <1>3 DEF ServerNext

LEMMA NextTypes == IInv /\ Types /\ [Next]_vars => Types'
<1> SUFFICES ASSUME IInv, Types, [Next]_vars
             PROVE  Types'
  OBVIOUS
<1>1. CASE UNCHANGED vars
  BY <1>1 DEF vars, Types, PeerTypes, QueueTypes, CallerTypes, goroutines, wire, callers, peers
<1>2. CASE Next
  BY <1>2, ChainTypes, ServeTypes, IncomingTypes, OutgoingTypes, ServerTypes, CallerStepTypes
     DEF Next
<1>3. QED BY <1>1, <1>2

-----------------------------------------------------------------------------
(* Requests of the device: where a request and its response can be.         *)

\* A message of type t and id r is in the queue q, and it is there only once.
At(q, i, t, r) == i \in 1 .. Len(q) /\ q[i].type = t /\ q[i].id = r
In(q, t, r) == \E i \in 1 .. Len(q) : At(q, i, t, r)
One(q, t, r) == \A i, j \in 1 .. Len(q) : At(q, i, t, r) /\ At(q, j, t, r) => i = j

Queued(r) == In(outgoingChan, "req", r)
Returns(k, r) == In(toDevice[k], "resp", r)

\* A request is queued once or its response is on its way, once, and only while
\* the caller waits for it or after it gave up; its key is there until then.
OnceInv ==
  \A r \in Request :
    /\ One(outgoingChan, "req", r)
    /\ \A k \in Conn : One(toDevice[k], "resp", r)
    /\ \A j, k \in Conn : Returns(j, r) /\ Returns(k, r) => j = k
    /\ Queued(r) => \A k \in Conn : ~Returns(k, r)

AwaitedInv ==
  \A r \in Request :
    /\ Queued(r) \/ (\E k \in Conn : Returns(k, r))
         => /\ caller[r] \in {"wait", "ended"} /\ r \notin respChan
            /\ caller[r] = "ended" => r \in gaveUp
    /\ r \in respChan => caller[r] \in {"wait", "ended"}
    /\ r \notin sendIDStore \cup gaveUp => caller[r] \in {"idle", "ended"}
    /\ r \in unknown => r \in gaveUp

FlowInv == OnceInv /\ AwaitedInv

LEMMA AppendIn ==
  ASSUME NEW S, NEW q \in Seq(S), NEW m \in S, NEW t, NEW r
  PROVE  /\ In(Append(q, m), t, r) <=> In(q, t, r) \/ (m.type = t /\ m.id = r)
         /\ One(q, t, r) /\ ~(In(q, t, r) /\ m.type = t /\ m.id = r)
              => One(Append(q, m), t, r)
<1> DEFINE p == Append(q, m)
<1>1. Len(q) \in Nat /\ Len(p) = Len(q) + 1 /\ p[Len(q) + 1] = m
  OBVIOUS
<1>2. \A i \in 1 .. Len(q) : p[i] = q[i]
  OBVIOUS
<1> HIDE DEF p
<1>3. In(p, t, r) <=> In(q, t, r) \/ (m.type = t /\ m.id = r)
  BY <1>1, <1>2 DEF In, At
<1>4. ASSUME One(q, t, r), ~(In(q, t, r) /\ m.type = t /\ m.id = r)
      PROVE  One(p, t, r)
  <2> SUFFICES ASSUME NEW i \in 1 .. Len(p), NEW j \in 1 .. Len(p), At(p, i, t, r), At(p, j, t, r)
               PROVE  i = j
    BY DEF One
  <2>1. CASE i \in 1 .. Len(q) /\ j \in 1 .. Len(q)
    BY <1>2, <1>4, <2>1 DEF One, At
  <2>2. CASE i = Len(q) + 1 /\ j = Len(q) + 1
    BY <2>2
  <2>3. CASE (i = Len(q) + 1) /= (j = Len(q) + 1)
    BY <1>1, <1>2, <1>4, <2>3 DEF In, At
  <2>4. QED BY <1>1, <2>1, <2>2, <2>3
<1>5. QED BY <1>3, <1>4 DEF p

LEMMA TailIn ==
  ASSUME NEW S, NEW q \in Seq(S), q # <<>>, NEW t, NEW r
  PROVE  /\ In(Tail(q), t, r) => In(q, t, r)
         /\ One(q, t, r) => One(Tail(q), t, r)
         /\ One(q, t, r) /\ Head(q).type = t /\ Head(q).id = r => ~In(Tail(q), t, r)
         /\ Head(q).type = t /\ Head(q).id = r => In(q, t, r)
<1> DEFINE p == Tail(q)
<1>1. Len(q) \in Nat \ {0} /\ Len(p) = Len(q) - 1 /\ Head(q) = q[1]
  OBVIOUS
<1>2. \A i \in 1 .. Len(p) : p[i] = q[i + 1]
  OBVIOUS
<1> HIDE DEF p
<1>3. \A i \in 1 .. Len(p) : At(p, i, t, r) => At(q, i + 1, t, r) /\ i + 1 \in 1 .. Len(q)
  BY <1>1, <1>2 DEF At
<1>4. In(p, t, r) => In(q, t, r)
  BY <1>3 DEF In
<1>5. One(q, t, r) => One(p, t, r)
  <2> SUFFICES ASSUME One(q, t, r), NEW i \in 1 .. Len(p), NEW j \in 1 .. Len(p),
                      At(p, i, t, r), At(p, j, t, r)
               PROVE  i = j
    BY DEF One
  <2>1. i + 1 = j + 1
    BY <1>3 DEF One
  <2>2. QED BY <2>1, <1>1
<1>6. Head(q).type = t /\ Head(q).id = r => At(q, 1, t, r) /\ 1 \in 1 .. Len(q)
  BY <1>1 DEF At
<1>7. One(q, t, r) /\ Head(q).type = t /\ Head(q).id = r => ~In(p, t, r)
  <2> SUFFICES ASSUME One(q, t, r), Head(q).type = t, Head(q).id = r,
                      NEW i \in 1 .. Len(p), At(p, i, t, r)
               PROVE  FALSE
    BY DEF In
  <2>1. i + 1 = 1
    BY <1>3, <1>6 DEF One
  <2>2. QED BY <2>1, <1>1
<1>8. QED BY <1>4, <1>5, <1>6, <1>7 DEF p, In

LEMMA EmptyIn ==
  ASSUME NEW t, NEW r
  PROVE  ~In(<<>>, t, r) /\ One(<<>>, t, r)
  BY DEF In, One

\* A step that puts no request and no response into a queue, and takes none out of
\* the callers' hands, keeps the invariant.
Thins ==
  \A r \in Request :
    /\ Queued(r)' => Queued(r)
    /\ One(outgoingChan, "req", r)'
    /\ \A k \in Conn : (Returns(k, r)' => Returns(k, r)) /\ One(toDevice[k], "resp", r)'

LEMMA ThinsKept ==
  ASSUME FlowInv, Thins, UNCHANGED <<callers, unknown>>
  PROVE  FlowInv'
<1>1. OnceInv'
  BY DEF FlowInv, OnceInv, Thins
<1>2. AwaitedInv'
  BY DEF FlowInv, AwaitedInv, Thins, callers
<1>3. QED BY <1>1, <1>2 DEF FlowInv

LEMMA SameQueue ==
  ASSUME FlowInv, UNCHANGED outgoingChan
  PROVE  \A r \in Request : (Queued(r)' => Queued(r)) /\ One(outgoingChan, "req", r)'
  BY DEF FlowInv, OnceInv, Queued

LEMMA PutQueue ==
  ASSUME Types, FlowInv, NEW m \in OutMsg, m.type # "req", Put(m)
  PROVE  \A r \in Request : (Queued(r)' => Queued(r)) /\ One(outgoingChan, "req", r)'
<1> SUFFICES ASSUME NEW r \in Request
             PROVE  (Queued(r)' => Queued(r)) /\ One(outgoingChan, "req", r)'
  OBVIOUS
<1>1. outgoingChan \in Seq(OutMsg) /\ outgoingChan' = Append(outgoingChan, m)
  BY DEF Types, QueueTypes, Put
<1>2. One(outgoingChan, "req", r)
  BY DEF FlowInv, OnceInv
<1>3. QED BY <1>1, <1>2, AppendIn DEF Queued

LEMMA TakenQueue ==
  ASSUME Types, FlowInv, Taken
  PROVE  \A r \in Request : (Queued(r)' => Queued(r)) /\ One(outgoingChan, "req", r)'
<1> SUFFICES ASSUME NEW r \in Request
             PROVE  (Queued(r)' => Queued(r)) /\ One(outgoingChan, "req", r)'
  OBVIOUS
<1>1. outgoingChan \in Seq(OutMsg) /\ outgoingChan # <<>> /\ outgoingChan' = Tail(outgoingChan)
  BY DEF Types, QueueTypes, Taken
<1>2. One(outgoingChan, "req", r)
  BY DEF FlowInv, OnceInv
<1>3. QED BY <1>1, <1>2, TailIn DEF Queued

\* The same for the way back.
Fewer == \A r \in Request, k \in Conn : (Returns(k, r)' => Returns(k, r)) /\ One(toDevice[k], "resp", r)'

LEMMA SameReturns ==
  ASSUME FlowInv, UNCHANGED toDevice
  PROVE  Fewer
  BY DEF FlowInv, OnceInv, Returns, Fewer

LEMMA OtherReturns ==
  ASSUME FlowInv, NEW k \in Conn, NEW j \in Conn, NEW r \in Request, toDevice'[j] = toDevice[j]
  PROVE  (Returns(j, r)' => Returns(j, r)) /\ One(toDevice[j], "resp", r)'
<1>1. One(toDevice[j], "resp", r)
  BY DEF FlowInv, OnceInv
<1>2. QED BY <1>1 DEF Returns

LEMMA DownReturns ==
  ASSUME Types, FlowInv, NEW k \in Conn, NEW how, Down(k, how)
  PROVE  Fewer
<1> SUFFICES ASSUME NEW r \in Request, NEW j \in Conn
             PROVE  (Returns(j, r)' => Returns(j, r)) /\ One(toDevice[j], "resp", r)'
  BY DEF Fewer
<1>1. toDevice'[j] = IF j = k THEN <<>> ELSE toDevice[j]
  BY DEF Types, QueueTypes, Down
<1>2. CASE j = k
  BY <1>1, <1>2, EmptyIn DEF Returns
<1>3. CASE j # k
  BY <1>1, <1>3, OtherReturns
<1>4. QED BY <1>2, <1>3

LEMMA ReceivesReturns ==
  ASSUME Types, FlowInv, NEW k \in Conn, NEW type, Receives(k, type)
  PROVE  Fewer
<1> SUFFICES ASSUME NEW r \in Request, NEW j \in Conn
             PROVE  (Returns(j, r)' => Returns(j, r)) /\ One(toDevice[j], "resp", r)'
  BY DEF Fewer
<1>1. toDevice'[j] = IF j = k THEN Tail(toDevice[k]) ELSE toDevice[j]
  BY DEF Types, QueueTypes, Receives
<1>2. CASE j = k
  <2>1. toDevice[k] \in Seq(InMsg) /\ toDevice[k] # <<>> /\ One(toDevice[k], "resp", r)
    BY DEF Types, QueueTypes, Receives, FlowInv, OnceInv
  <2>2. /\ In(Tail(toDevice[k]), "resp", r) => In(toDevice[k], "resp", r)
        /\ One(Tail(toDevice[k]), "resp", r)
    BY <2>1, TailIn
  <2>3. QED BY <1>1, <1>2, <2>2 DEF Returns
<1>3. CASE j # k
  BY <1>1, <1>3, OtherReturns
<1>4. QED BY <1>2, <1>3

LEMMA RepliesReturns ==
  ASSUME Types, FlowInv, NEW k \in Conn, NEW m \in InMsg, m.type # "resp",
         toDevice' = [toDevice EXCEPT ![k] = Append(@, m)]
  PROVE  Fewer
<1> SUFFICES ASSUME NEW r \in Request, NEW j \in Conn
             PROVE  (Returns(j, r)' => Returns(j, r)) /\ One(toDevice[j], "resp", r)'
  BY DEF Fewer
<1>1. toDevice'[j] = IF j = k THEN Append(toDevice[k], m) ELSE toDevice[j]
  BY DEF Types, QueueTypes
<1>2. CASE j = k
  <2>1. toDevice[k] \in Seq(InMsg) /\ One(toDevice[k], "resp", r)
    BY DEF Types, QueueTypes, FlowInv, OnceInv
  <2>2. /\ In(Append(toDevice[k], m), "resp", r) => In(toDevice[k], "resp", r)
        /\ One(Append(toDevice[k], m), "resp", r)
    BY <2>1, AppendIn
  <2>3. QED BY <1>1, <1>2, <2>2 DEF Returns
<1>3. CASE j # k
  BY <1>1, <1>3, OtherReturns
<1>4. QED BY <1>2, <1>3

\* Both directions at once.
LEMMA ThinsFrom ==
  ASSUME \A r \in Request : (Queued(r)' => Queued(r)) /\ One(outgoingChan, "req", r)', Fewer
  PROVE  Thins
  BY DEF Thins, Fewer

LEMMA InitFlow == Init => FlowInv
<1> SUFFICES ASSUME Init
             PROVE  FlowInv
  OBVIOUS
<1>1. outgoingChan = <<>> /\ \A k \in Conn : toDevice[k] = <<>>
  BY DEF Init
<1>2. \A r \in Request : ~Queued(r) /\ \A k \in Conn : ~Returns(k, r)
  BY <1>1, EmptyIn DEF Queued, Returns
<1>3. OnceInv
  BY <1>1, <1>2, EmptyIn DEF OnceInv
<1>4. AwaitedInv
  BY <1>2 DEF Init, AwaitedInv
<1>5. QED BY <1>3, <1>4 DEF FlowInv

LEMMA ServeFlow ==
  ASSUME Types, FlowInv, NEW k \in Conn, ServeNext(k)
  PROVE  FlowInv'
<1>1. CASE ServeVerifies(k) \/ ServePingSet(k) \/ ServePing(k)
  <2>1. PICK m \in {Verify(k), Ping} : Put(m)
    BY <1>1 DEF ServeVerifies, ServePingSet, ServePing
  <2>2. m \in OutMsg /\ m.type # "req"
    <3>1. Verify(k) \in OutMsg /\ Ping \in OutMsg
      BY MessageTypes
    <3>2. Verify(k).type = "verify" /\ Ping.type = "ping"
      BY DEF Verify, Ping
    <3>3. QED BY <2>1, <3>1, <3>2
  <2>3. UNCHANGED <<wire, callers, unknown>>
    BY <1>1 DEF ServeVerifies, ServePingSet, ServePing, ServeMoves
  <2>4. QED BY <2>1, <2>2, <2>3, PutQueue, SameReturns, ThinsFrom, ThinsKept DEF wire
<1>2. CASE ServeVerifyFails(k) \/ ServeHeartbeat(k) \/ ServeError(k) \/ ServePushErr(k)
  <2>1. UNCHANGED <<wire, callers, unknown, outgoingChan>>
    BY <1>2 DEF ServeVerifyFails, ServeHeartbeat, ServeError, ServePushErr, ServeMoves
  <2>2. QED BY <2>1, SameQueue, SameReturns, ThinsFrom, ThinsKept DEF wire
<1>3. CASE ServeClose(k) \/ ServeCtxDone(k)
  <2>1. Down(k, "closed") /\ UNCHANGED <<callers, unknown, outgoingChan>>
    BY <1>3 DEF ServeClose, ServeCtxDone, ServeMoves
  <2>2. QED BY <2>1, SameQueue, DownReturns, ThinsFrom, ThinsKept
<1>4. QED BY <1>1, <1>2, <1>3 DEF ServeNext

LEMMA ChainFlow ==
  ASSUME FlowInv, ChainNext
  PROVE  FlowInv'
<1>1. UNCHANGED <<toDevice, callers, unknown, outgoingChan>>
  BY DEF ChainNext, RecoverTakes, ReconnectFails, ReconnectSucceeds, Cancel, wire
<1>2. QED BY <1>1, SameQueue, SameReturns, ThinsFrom, ThinsKept

\* The response at the head of what comes from the server is the only one.
LEMMA ResponseTaken ==
  ASSUME Types, FlowInv, NEW k \in Conn, Receives(k, "resp"),
         NEW r \in Request, r = Head(toDevice[k]).id
  PROVE  Returns(k, r) /\ ~Returns(k, r)'
<1>1. /\ toDevice[k] \in Seq(InMsg) /\ toDevice[k] # <<>> /\ One(toDevice[k], "resp", r)
      /\ toDevice'[k] = Tail(toDevice[k]) /\ Head(toDevice[k]).type = "resp"
  BY DEF Types, QueueTypes, Receives, FlowInv, OnceInv
<1>2. QED BY <1>1, TailIn DEF Returns

LEMMA IncomingFlow ==
  ASSUME Types, FlowInv, NEW k \in Conn, IncomingNext(k)
  PROVE  FlowInv'
<1>1. CASE IncomingCtxDone(k) \/ IncomingReadFails(k) \/ HandlerReturns(k) \/ HandlerFails(k)
  <2>1. UNCHANGED <<outgoingChan, toDevice, callers, unknown>>
    BY <1>1 DEF IncomingCtxDone, IncomingReadFails, HandlerReturns, HandlerFails
  <2>2. QED BY <2>1, SameQueue, SameReturns, ThinsFrom, ThinsKept
<1>2. CASE IncomingRefused(k) \/ IncomingAsked(k)
  <2>1. PICK type \in {"refusal", "ask"} : Receives(k, type)
    BY <1>2 DEF IncomingRefused, IncomingAsked
  <2>2. UNCHANGED <<outgoingChan, callers, unknown>>
    BY <1>2 DEF IncomingRefused, IncomingAsked
  <2>3. QED BY <2>1, <2>2, SameQueue, ReceivesReturns, ThinsFrom, ThinsKept
<1>3. CASE IncomingAnswers(k)
  <2>1. Put(Answer(<<k, handling[k]>>)) /\ UNCHANGED <<toDevice, callers, unknown>>
    BY <1>3 DEF IncomingAnswers
  <2>2. Answer(<<k, handling[k]>>) \in OutMsg /\ Answer(<<k, handling[k]>>).type # "req"
    BY MessageTypes DEF Answer
  <2>3. QED BY <2>1, <2>2, PutQueue, SameReturns, ThinsFrom, ThinsKept
<1>4. CASE IncomingDelivers(k) \/ IncomingUnknown(k)
  <2>1. Receives(k, "resp") /\ UNCHANGED <<outgoingChan, caller, sendIDStore, gaveUp>>
    BY <1>4 DEF IncomingDelivers, IncomingUnknown, callers
  <2>2. PICK r \in Request : r = Head(toDevice[k]).id
    <3>1. Head(toDevice[k]) \in InMsg /\ Head(toDevice[k]).type = "resp"
      BY <2>1, ReceiveTypes
    <3>2. QED BY <3>1 DEF InMsg
  <2>3. Thins
    BY <2>1, SameQueue, ReceivesReturns, ThinsFrom
  <2>4. Returns(k, r) /\ ~Returns(k, r)'
    BY <2>1, <2>2, ResponseTaken
  <2>5. ~Queued(r)' /\ \A j \in Conn : ~Returns(j, r)'
    BY <2>3, <2>4 DEF Thins, FlowInv, OnceInv
  <2>6. caller[r] \in {"wait", "ended"} /\ (caller[r] = "ended" => r \in gaveUp)
    BY <2>4 DEF FlowInv, AwaitedInv
  <2>7. OnceInv'
    BY <2>3 DEF FlowInv, OnceInv, Thins
  <2>8. CASE IncomingDelivers(k)
    <3>1. respChan' = respChan \cup {r} /\ unknown' = unknown
      BY <2>2, <2>8 DEF IncomingDelivers
    <3>2. AwaitedInv'
      BY <2>1, <2>3, <2>5, <2>6, <3>1 DEF FlowInv, AwaitedInv, Thins
    <3>3. QED BY <2>7, <3>2 DEF FlowInv
  <2>9. CASE IncomingUnknown(k)
    <3>1. unknown' = unknown \cup {r} /\ respChan' = respChan /\ r \notin sendIDStore
      BY <2>2, <2>9 DEF IncomingUnknown, callers
    <3>2. r \in gaveUp
      BY <2>6, <3>1 DEF FlowInv, AwaitedInv
    <3>3. AwaitedInv'
      BY <2>1, <2>3, <3>1, <3>2 DEF FlowInv, AwaitedInv, Thins
    <3>4. QED BY <2>7, <3>3 DEF FlowInv
  <2>10. QED BY <1>4, <2>8, <2>9
<1>5. QED BY <1>1, <1>2, <1>3, <1>4 DEF IncomingNext

\* The request at the head of outgoingChan leaves it.
LEMMA RequestTaken ==
  ASSUME Types, FlowInv, Taken, Head(outgoingChan).type = "req",
         NEW r \in Request, r = Head(outgoingChan).id
  PROVE  Queued(r) /\ ~Queued(r)'
<1>1. /\ outgoingChan \in Seq(OutMsg) /\ outgoingChan # <<>> /\ One(outgoingChan, "req", r)
      /\ outgoingChan' = Tail(outgoingChan)
  BY DEF Types, QueueTypes, Taken, FlowInv, OnceInv
<1>2. QED BY <1>1, TailIn DEF Queued

\* A service's answer goes back once.
LEMMA ServesFlow ==
  ASSUME Types, FlowInv, NEW k \in Conn, ServerServes(k)
  PROVE  FlowInv'
<1>1. Taken /\ Head(outgoingChan).type = "req" /\ UNCHANGED <<callers, unknown>>
  BY DEF ServerServes, Writes, OutgoingMoves
<1>2. PICK r \in Request : r = Head(outgoingChan).id
  <2>1. Head(outgoingChan) \in OutMsg /\ Head(outgoingChan).type = "req"
    BY WriteTypes DEF ServerServes
  <2>2. QED BY <2>1 DEF OutMsg
<1>3. Queued(r) /\ ~Queued(r)' /\ \A j \in Conn : ~Returns(j, r)
  BY <1>1, <1>2, RequestTaken DEF FlowInv, OnceInv
<1>4. PICK reply \in {<<Resp(r)>>, <<>>} : Replies(k, reply)
  BY <1>2 DEF ServerServes
<1>5. \A s \in Request : (Queued(s)' => Queued(s)) /\ One(outgoingChan, "req", s)'
  BY <1>1, TakenQueue
<1>6. \A s \in Request, j \in Conn :
        /\ Returns(j, s)' => Returns(j, s) \/ (j = k /\ s = r)
        /\ One(toDevice[j], "resp", s)'
  <2> SUFFICES ASSUME NEW s \in Request, NEW j \in Conn
               PROVE  /\ Returns(j, s)' => Returns(j, s) \/ (j = k /\ s = r)
                      /\ One(toDevice[j], "resp", s)'
    OBVIOUS
  <2>1. toDevice \in [Conn -> Seq(InMsg)]
    BY DEF Types, QueueTypes
  <2>2. toDevice[k] \in Seq(InMsg) /\ One(toDevice[k], "resp", s) /\ Resp(r) \in InMsg
    BY <2>1, MessageTypes DEF FlowInv, OnceInv
  <2>3. CASE reply = <<>> \/ j # k
    <3>1. toDevice'[j] = toDevice[j]
      BY <1>4, <2>1, <2>2, <2>3 DEF Replies
    <3>2. QED BY <3>1, OtherReturns
  <2>4. CASE reply = <<Resp(r)>> /\ j = k
    <3>1. toDevice[k] \o <<Resp(r)>> = Append(toDevice[k], Resp(r))
      BY <2>2
    <3>2. toDevice'[k] = Append(toDevice[k], Resp(r))
      BY <1>4, <2>1, <2>4, <3>1 DEF Replies
    <3>3. /\ In(Append(toDevice[k], Resp(r)), "resp", s)
               => In(toDevice[k], "resp", s) \/ (Resp(r).type = "resp" /\ Resp(r).id = s)
          /\ ~(In(toDevice[k], "resp", s) /\ Resp(r).type = "resp" /\ Resp(r).id = s)
               => One(Append(toDevice[k], Resp(r)), "resp", s)
      BY <2>2, AppendIn
    <3>4. Resp(r).id = s => s = r
      BY DEF Resp
    <3>5. ~(In(toDevice[k], "resp", s) /\ Resp(r).id = s)
      BY <1>3, <3>4 DEF Returns
    <3>6. QED BY <2>4, <3>2, <3>3, <3>4, <3>5 DEF Returns
  <2>5. QED BY <1>4, <2>3, <2>4
<1>7. OnceInv'
  BY <1>3, <1>5, <1>6 DEF FlowInv, OnceInv
<1>8. AwaitedInv'
  BY <1>1, <1>3, <1>5, <1>6 DEF FlowInv, AwaitedInv, callers
<1>9. QED BY <1>7, <1>8 DEF FlowInv

LEMMA OutgoingFlow ==
  ASSUME Types, FlowInv, NEW k \in Conn, OutgoingNext(k)
  PROVE  FlowInv'
<1>1. CASE OutgoingCtxDone(k)
  <2>1. UNCHANGED <<outgoingChan, toDevice, callers, unknown>>
    BY <1>1 DEF OutgoingCtxDone, OutgoingMoves, wire
  <2>2. QED BY <2>1, SameQueue, SameReturns, ThinsFrom, ThinsKept
<1>2. CASE \/ OutgoingVanishes(k) \/ OutgoingFails(k) \/ ServerVerifies(k) \/ ServerPinged(k)
           \/ ServerDelivers(k)
  <2>1. Taken /\ UNCHANGED <<toDevice, callers, unknown>>
    BY <1>2 DEF OutgoingVanishes, OutgoingFails, ServerVerifies, ServerPinged, ServerDelivers,
                Writes, OutgoingMoves, wire
  <2>2. QED BY <2>1, TakenQueue, SameReturns, ThinsFrom, ThinsKept
<1>3. CASE ServerReverifies(k) \/ ServerUnknown(k)
  <2>1. Taken /\ Down(k, "broken") /\ UNCHANGED <<callers, unknown>>
    BY <1>3 DEF ServerReverifies, ServerUnknown, Writes, OutgoingMoves
  <2>2. QED BY <2>1, TakenQueue, DownReturns, ThinsFrom, ThinsKept
<1>4. CASE ServerRefuses(k)
  <2>1. Taken /\ Replies(k, <<Refusal>>) /\ UNCHANGED <<callers, unknown>>
    BY <1>4 DEF ServerRefuses, Writes, OutgoingMoves
  <2>2. toDevice[k] \in Seq(InMsg) /\ Refusal \in InMsg /\ Refusal.type # "resp"
    BY MessageTypes DEF Types, QueueTypes, Refusal
  <2>3. toDevice' = [toDevice EXCEPT ![k] = Append(@, Refusal)]
    <3>1. toDevice[k] \o <<Refusal>> = Append(toDevice[k], Refusal)
      BY <2>2
    <3>2. QED BY <2>1, <3>1 DEF Replies
  <2>4. QED BY <2>1, <2>2, <2>3, TakenQueue, RepliesReturns, ThinsFrom, ThinsKept
<1>5. CASE ServerServes(k)
  BY <1>5, ServesFlow
<1>6. QED BY <1>1, <1>2, <1>3, <1>4, <1>5 DEF OutgoingNext, Written

LEMMA CallerFlow ==
  ASSUME Types, FlowInv, NEW r \in Request, CallerNext(r)
  PROVE  FlowInv'
<1>1. UNCHANGED <<toDevice, unknown>>
  BY DEF CallerNext, CallerSets, CallerSends, CallerGets, CallerTimesOut, DelExpireKeys,
         CallerMoves, wire
<1>2. Fewer
  BY <1>1, SameReturns
<1>3. CallerTypes
  BY DEF Types
<1>4. CASE CallerSends(r)
  <2>1. /\ caller[r] = "send" /\ caller' = [caller EXCEPT ![r] = "wait"]
        /\ UNCHANGED <<sendIDStore, respChan, gaveUp>>
    BY <1>4 DEF CallerSends, CallerMoves
  <2>2. ~Queued(r) /\ (\A k \in Conn : ~Returns(k, r)) /\ r \notin respChan
    BY <2>1 DEF FlowInv, AwaitedInv
  <2>3. \A s \in Request : (Queued(s)' => Queued(s) \/ s = r) /\ One(outgoingChan, "req", s)'
    <3> SUFFICES ASSUME NEW s \in Request
                 PROVE  (Queued(s)' => Queued(s) \/ s = r) /\ One(outgoingChan, "req", s)'
      OBVIOUS
    <3>1. outgoingChan \in Seq(OutMsg) /\ outgoingChan' = Append(outgoingChan, Req(r))
      BY <1>4 DEF Types, QueueTypes, CallerSends, Put
    <3>2. Req(r) \in OutMsg /\ Req(r).id = r /\ One(outgoingChan, "req", s)
      BY MessageTypes DEF Req, FlowInv, OnceInv
    <3>3. /\ In(Append(outgoingChan, Req(r)), "req", s) => Queued(s) \/ s = r
          /\ ~(Queued(s) /\ s = r) => One(Append(outgoingChan, Req(r)), "req", s)
      BY <3>1, <3>2, AppendIn DEF Queued
    <3>4. QED BY <2>2, <3>1, <3>3 DEF Queued
  <2>4. OnceInv'
    BY <1>2, <2>2, <2>3 DEF FlowInv, OnceInv, Fewer
  <2>5. AwaitedInv'
    BY <1>1, <1>2, <1>3, <2>1, <2>2, <2>3 DEF FlowInv, AwaitedInv, Fewer, CallerTypes
  <2>6. QED BY <2>4, <2>5 DEF FlowInv
<1>5. CASE ~CallerSends(r)
  <2>1. UNCHANGED outgoingChan
    BY <1>5 DEF CallerNext, CallerSets, CallerGets, CallerTimesOut, DelExpireKeys
  <2>2. Thins
    BY <1>2, <2>1, SameQueue, ThinsFrom
  <2>3. OnceInv'
    BY <2>2 DEF FlowInv, OnceInv, Thins
  <2>4. AwaitedInv'
    <3> USE <1>1, <1>3, <2>2 DEF FlowInv, AwaitedInv, Thins, CallerTypes
    <3>1. CASE CallerSets(r)
      BY <3>1 DEF CallerSets, CallerMoves
    <3>2. CASE CallerGets(r)
      BY <3>2 DEF CallerGets, CallerMoves
    <3>3. CASE CallerTimesOut(r)
      BY <3>3 DEF CallerTimesOut, CallerMoves
    <3>4. CASE \E k \in Conn : DelExpireKeys(k, r)
      BY <3>4 DEF DelExpireKeys
    <3>5. QED BY <1>5, <3>1, <3>2, <3>3, <3>4 DEF CallerNext
  <2>5. QED BY <2>3, <2>4 DEF FlowInv
<1>6. QED BY <1>4, <1>5

LEMMA ServerFlow ==
  ASSUME Types, FlowInv, NEW k \in Conn, ServerNext(k)
  PROVE  FlowInv'
<1>1. UNCHANGED <<outgoingChan, callers, unknown>>
  BY DEF ServerNext, LinkBreaks, UserAsks, UserTimesOut, Server
<1>2. CASE LinkBreaks(k)
  BY <1>1, <1>2, SameQueue, DownReturns, ThinsFrom, ThinsKept DEF LinkBreaks
<1>3. ASSUME NEW n \in 1 .. MaxUser, UserAsks(k, n)
      PROVE  FlowInv'
  <2>1. Ask(n) \in InMsg /\ Ask(n).type # "resp"
    BY MessageTypes DEF Ask
  <2>2. Fewer
    BY <1>3, <2>1, RepliesReturns DEF UserAsks
  <2>3. QED BY <1>1, <2>2, SameQueue, ThinsFrom, ThinsKept
<1>4. ASSUME NEW n \in 1 .. MaxUser, UserTimesOut(<<k, n>>)
      PROVE  FlowInv'
  BY <1>1, <1>4, SameQueue, SameReturns, ThinsFrom, ThinsKept DEF UserTimesOut, wire
<1>5. QED BY <1>2, <1>3, <1>4 DEF ServerNext

LEMMA NextFlow == Types /\ FlowInv /\ [Next]_vars => FlowInv'
<1> SUFFICES ASSUME Types, FlowInv, [Next]_vars
             PROVE  FlowInv'
  OBVIOUS
<1>1. CASE UNCHANGED vars
  BY <1>1, SameQueue, SameReturns, ThinsFrom, ThinsKept DEF vars, wire
<1>2. CASE Next
  BY <1>2, ChainFlow, ServeFlow, IncomingFlow, OutgoingFlow, ServerFlow, CallerFlow DEF Next
<1>3. QED BY <1>1, <1>2

LEMMA FlowInvariant == Spec => [](IInv /\ Types /\ FlowInv)
  BY InitIInv, InitTypes, InitFlow, NextIInv, NextTypes, NextFlow, PTL DEF Spec

\* However late the server answers, over whatever connection: a device ends its
\* connection over a response nobody waits for only when the caller has given up, or
\* has waited longer than its key lives.
THEOREM TeardownIsLate == Spec => []TeardownMeansLate
<1>1. Types /\ FlowInv => TeardownMeansLate
  BY DEF Types, CallerTypes, FlowInv, AwaitedInv, TeardownMeansLate
<1>2. QED BY <1>1, FlowInvariant, PTL

-----------------------------------------------------------------------------
(* Verifications: what a connection has sent before a request.              *)

VerifyAt(i) == i \in 1 .. Len(outgoingChan) /\ outgoingChan[i].type = "verify"
NoVerify == \A i \in 1 .. Len(outgoingChan) : ~VerifyAt(i)
Unverified == serve[conn] \in {"verify", "lost"}

\* The newest connection can write, and the server has seen no verification on it.
Fresh == verdict[conn] = "none" /\ link[conn] = "up"

\* Only the newest connection writes.
WriterInv == \A k \in Conn : outgoing[k] = "select" => k = conn

\* A request that was queued behind the verification of the newest connection is
\* written after it, and after all others.
BehindInv ==
  /\ \A r \in Request : behind[r] <= conn /\ (Unverified => behind[r] < conn)
  /\ \A i \in 1 .. Len(outgoingChan) :
       outgoingChan[i].type = "req" /\ behind[outgoingChan[i].id] >= conn =>
         /\ \A j \in 1 .. Len(outgoingChan) : i < j => ~VerifyAt(j)
         /\ Fresh => \E j \in 1 .. Len(outgoingChan) : j < i /\ VerifyAt(j)
  /\ ~Unverified /\ Fresh => ~NoVerify

\* Whose service was asked without an identity, although it was verified for, was
\* refused, and the refusal stands: no verification is left that could pass.
ServedInv ==
  \A s \in served :
    /\ s[2] <= conn /\ caller[s[1]] \in {"wait", "ended"}
    /\ ~s[3] /\ behind[s[1]] >= s[2] =>
         /\ verdict[s[2]] = "refused"
         /\ s[2] = conn => ~Unverified /\ NoVerify

IdentityInv == WriterInv /\ BehindInv /\ ServedInv

LEMMA InitIdentity == Init => IdentityInv
<1> SUFFICES ASSUME Init
             PROVE  IdentityInv
  OBVIOUS
<1>1. /\ 1 \in Conn /\ conn = 1 /\ outgoingChan = <<>> /\ served = {}
      /\ serve[1] = "verify" /\ behind = [r \in Request |-> 0]
      /\ outgoing = [k \in Conn |-> IF k = 1 THEN "select" ELSE "none"]
  BY MaxConnAssumption DEF Init, Conn
<1>2. WriterInv
  BY <1>1 DEF WriterInv
<1>3. BehindInv
  BY <1>1 DEF BehindInv, Unverified
<1>4. ServedInv
  BY <1>1 DEF ServedInv
<1>5. QED BY <1>2, <1>3, <1>4 DEF IdentityInv

\* A step that neither reconnects nor verifies nor sends: the connection, the
\* verifications it has queued and what requests are behind stay as they are.
Steady ==
  /\ UNCHANGED <<conn, behind>>
  /\ Unverified' = Unverified
  /\ Fresh' => Fresh
  /\ \A k \in Conn : outgoing'[k] = "select" => outgoing[k] = "select"
  /\ \A r \in Request : caller[r] \in {"wait", "ended"} => caller'[r] \in {"wait", "ended"}

LEMMA SteadyWriter ==
  ASSUME WriterInv, Steady
  PROVE  WriterInv'
  BY DEF WriterInv, Steady

LEMMA SteadyServed ==
  ASSUME Types, ServedInv, Steady, NoVerify => NoVerify', UNCHANGED <<served, verdict>>
  PROVE  ServedInv'
<1> SUFFICES ASSUME NEW s \in served
             PROVE  /\ s[2] <= conn /\ caller'[s[1]] \in {"wait", "ended"}
                    /\ ~s[3] /\ behind[s[1]] >= s[2] =>
                         /\ verdict[s[2]] = "refused"
                         /\ s[2] = conn => ~Unverified' /\ NoVerify'
  BY DEF ServedInv, Steady
<1>1. s[1] \in Request
  BY DEF Types, PeerTypes
<1>2. QED BY <1>1 DEF ServedInv, Steady

LEMMA SteadySame ==
  ASSUME BehindInv, Steady, UNCHANGED outgoingChan
  PROVE  BehindInv' /\ (NoVerify => NoVerify')
  BY DEF BehindInv, Steady, NoVerify, VerifyAt

LEMMA SteadyPut ==
  ASSUME Types, BehindInv, Steady, NEW m \in OutMsg, m.type \notin {"verify", "req"}, Put(m)
  PROVE  BehindInv' /\ (NoVerify => NoVerify')
<1>1. outgoingChan \in Seq(OutMsg) /\ outgoingChan' = Append(outgoingChan, m)
  BY DEF Types, QueueTypes, Put
<1>2. /\ Len(outgoingChan) \in Nat /\ Len(outgoingChan') = Len(outgoingChan) + 1
      /\ outgoingChan'[Len(outgoingChan) + 1] = m
      /\ \A i \in 1 .. Len(outgoingChan) : outgoingChan'[i] = outgoingChan[i]
  BY <1>1
<1>3. \A i \in 1 .. Len(outgoingChan') :
        (VerifyAt(i)' \/ outgoingChan'[i].type = "req") => i \in 1 .. Len(outgoingChan)
  BY <1>2 DEF VerifyAt
<1>4. \A i \in 1 .. Len(outgoingChan) : VerifyAt(i)' <=> VerifyAt(i)
  BY <1>2 DEF VerifyAt
<1>5. NoVerify' <=> NoVerify
  BY <1>2, <1>3, <1>4 DEF NoVerify
<1>6. ASSUME NEW i \in 1 .. Len(outgoingChan'), outgoingChan'[i].type = "req",
             behind[outgoingChan'[i].id] >= conn
      PROVE  /\ \A j \in 1 .. Len(outgoingChan') : i < j => ~VerifyAt(j)'
             /\ Fresh' => \E j \in 1 .. Len(outgoingChan') : j < i /\ VerifyAt(j)'
  <2>1. i \in 1 .. Len(outgoingChan) /\ outgoingChan'[i] = outgoingChan[i]
    BY <1>2, <1>3, <1>6
  <2>2. /\ \A j \in 1 .. Len(outgoingChan) : i < j => ~VerifyAt(j)
        /\ Fresh => \E j \in 1 .. Len(outgoingChan) : j < i /\ VerifyAt(j)
    BY <1>6, <2>1 DEF BehindInv
  <2>3. QED BY <1>2, <1>3, <1>4, <2>2 DEF Steady
<1>7. QED BY <1>5, <1>6 DEF BehindInv, Steady

LEMMA SteadyTaken ==
  ASSUME Types, BehindInv, Steady, Taken, Fresh' => Head(outgoingChan).type # "verify"
  PROVE  BehindInv' /\ (NoVerify => NoVerify')
<1>1. outgoingChan \in Seq(OutMsg) /\ outgoingChan # <<>> /\ outgoingChan' = Tail(outgoingChan)
  BY DEF Types, QueueTypes, Taken
<1>2. /\ Len(outgoingChan) \in Nat \ {0} /\ Len(outgoingChan') = Len(outgoingChan) - 1
      /\ Head(outgoingChan) = outgoingChan[1]
      /\ \A i \in 1 .. Len(outgoingChan') : outgoingChan'[i] = outgoingChan[i + 1]
  BY <1>1
<1>3. \A i \in 1 .. Len(outgoingChan') :
        i + 1 \in 1 .. Len(outgoingChan) /\ (VerifyAt(i)' <=> VerifyAt(i + 1))
  BY <1>2 DEF VerifyAt
<1>4. NoVerify => NoVerify'
  BY <1>3 DEF NoVerify
<1>5. Fresh' => ~VerifyAt(1)
  BY <1>2 DEF VerifyAt
<1>6. ASSUME Fresh', NEW j \in 1 .. Len(outgoingChan), VerifyAt(j)
      PROVE  j - 1 \in 1 .. Len(outgoingChan') /\ VerifyAt(j - 1)'
  <2>1. j # 1
    BY <1>5, <1>6
  <2>2. j - 1 \in 1 .. Len(outgoingChan') /\ (j - 1) + 1 = j
    BY <1>2, <2>1
  <2>3. outgoingChan'[j - 1] = outgoingChan[j]
    BY <1>2, <2>2
  <2>4. QED BY <1>6, <2>2, <2>3 DEF VerifyAt
<1>7. ASSUME NEW i \in 1 .. Len(outgoingChan'), outgoingChan'[i].type = "req",
             behind[outgoingChan'[i].id] >= conn
      PROVE  /\ \A j \in 1 .. Len(outgoingChan') : i < j => ~VerifyAt(j)'
             /\ Fresh' => \E j \in 1 .. Len(outgoingChan') : j < i /\ VerifyAt(j)'
  <2>1. i + 1 \in 1 .. Len(outgoingChan) /\ outgoingChan'[i] = outgoingChan[i + 1]
    BY <1>2, <1>3
  <2>2. /\ \A j \in 1 .. Len(outgoingChan) : i + 1 < j => ~VerifyAt(j)
        /\ Fresh => \E j \in 1 .. Len(outgoingChan) : j < i + 1 /\ VerifyAt(j)
    BY <1>7, <2>1 DEF BehindInv
  <2>3. ASSUME NEW j \in 1 .. Len(outgoingChan'), i < j
        PROVE  ~VerifyAt(j)'
    <3>1. i + 1 < j + 1
      BY <2>3
    <3>2. QED BY <1>3, <2>2, <3>1
  <2>4. ASSUME Fresh'
        PROVE  \E j \in 1 .. Len(outgoingChan') : j < i /\ VerifyAt(j)'
    <3>1. PICK j \in 1 .. Len(outgoingChan) : j < i + 1 /\ VerifyAt(j)
      BY <2>2, <2>4 DEF Steady
    <3>2. j - 1 \in 1 .. Len(outgoingChan') /\ VerifyAt(j - 1)'
      BY <1>6, <2>4, <3>1
    <3>3. j - 1 < i
      BY <3>1
    <3>4. QED BY <3>2, <3>3
  <2>5. QED BY <2>3, <2>4
<1>8. ~Unverified' /\ Fresh' => ~NoVerify'
  <2> SUFFICES ASSUME ~Unverified', Fresh'
               PROVE  ~NoVerify'
    OBVIOUS
  <2>1. PICK j \in 1 .. Len(outgoingChan) : VerifyAt(j)
    BY DEF BehindInv, Steady, NoVerify
  <2>2. QED BY <1>6, <2>1 DEF NoVerify
<1>9. QED BY <1>4, <1>7, <1>8 DEF BehindInv, Steady

\* The steps of the goroutines that keep the serve as verified as it is.
LEMMA SteadyFrom ==
  ASSUME IInv, UNCHANGED <<conn, callers, outgoing, verdict, link>>, Unverified' = Unverified
  PROVE  Steady
  BY DEF Steady, Fresh, callers

LEMMA SteadyDown ==
  ASSUME IInv, Types, NEW k \in Conn, NEW how \in {"broken", "closed"}, Down(k, how),
         UNCHANGED <<conn, callers, verdict>>, Unverified' = Unverified,
         \A j \in Conn : outgoing'[j] = "select" => outgoing[j] = "select"
  PROVE  Steady
<1>1. \A j \in Conn : link'[j] = "up" => link[j] = "up"
  BY DEF Down, Types, PeerTypes
<1>2. conn \in Conn
  BY DEF IInv, Newest
<1>3. Fresh' => Fresh
  BY <1>1, <1>2 DEF Fresh
<1>4. QED BY <1>3 DEF Steady, callers

\* serve queues its verification, and nothing else was behind it.
LEMMA VerifiesIdentity ==
  ASSUME IInv, Types, IdentityInv, NEW k \in Conn, ServeVerifies(k)
  PROVE  IdentityInv'
<1>1. k = conn /\ serve[conn] = "verify" /\ Unverified
  BY DEF ServeVerifies, ServeMoves, IInv, Newest, Running, Unverified
<1>2. UNCHANGED <<conn, callers, outgoing, peers, link>> /\ serve'[conn] = "pingset"
  BY <1>1 DEF ServeVerifies, ServeMoves, IInv, Newest, wire
<1>3. outgoingChan \in Seq(OutMsg) /\ outgoingChan' = Append(outgoingChan, Verify(k))
  BY DEF ServeVerifies, Put, Types, QueueTypes
<1>4. /\ Len(outgoingChan) \in Nat /\ Len(outgoingChan') = Len(outgoingChan) + 1
      /\ outgoingChan'[Len(outgoingChan) + 1] = Verify(k)
      /\ \A i \in 1 .. Len(outgoingChan) : outgoingChan'[i] = outgoingChan[i]
  BY <1>3
<1>5. WriterInv'
  BY <1>2 DEF IdentityInv, WriterInv
<1>6. \A r \in Request : behind[r] < conn
  BY <1>1 DEF IdentityInv, BehindInv
<1>7. ~NoVerify'
  BY <1>4 DEF NoVerify, VerifyAt, Verify
<1>8. \A i \in 1 .. Len(outgoingChan') : outgoingChan'[i].type = "req" =>
        outgoingChan'[i].id \in Request
  <2>1. Verify(k) \in OutMsg
    BY MessageTypes
  <2>2. outgoingChan' \in Seq(OutMsg)
    BY <1>3, <2>1
  <2>3. \A i \in 1 .. Len(outgoingChan') : outgoingChan'[i] \in OutMsg
    BY <2>2
  <2>4. QED BY <2>3 DEF OutMsg
<1>9. conn \in Nat /\ behind \in [Request -> Nat]
  BY DEF IInv, Newest, Conn, Types, CallerTypes
<1>10. BehindInv'
  BY <1>2, <1>6, <1>7, <1>8, <1>9 DEF BehindInv, callers, Unverified
<1>11. ServedInv'
  <2> SUFFICES ASSUME NEW s \in served
               PROVE  /\ s[2] <= conn /\ caller[s[1]] \in {"wait", "ended"}
                      /\ ~s[3] /\ behind[s[1]] >= s[2] => verdict[s[2]] = "refused" /\ s[2] # conn
    BY <1>2 DEF ServedInv, callers, peers
  <2>1. QED BY <1>1 DEF IdentityInv, ServedInv
<1>12. QED BY <1>5, <1>10, <1>11 DEF IdentityInv

LEMMA ServeIdentity ==
  ASSUME IInv, Types, IdentityInv, NEW k \in Conn, ServeNext(k)
  PROVE  IdentityInv'
<1>1. CASE ServeVerifies(k)
  BY <1>1, VerifiesIdentity
<1>2. CASE ServePingSet(k) \/ ServePing(k)
  <2>1. UNCHANGED <<conn, callers, outgoing, peers, link>> /\ Put(Ping)
    BY <1>2 DEF ServePingSet, ServePing, ServeMoves, wire
  <2>2. Unverified' = Unverified
    BY <1>2 DEF ServePingSet, ServePing, ServeMoves, Unverified, IInv, Newest
  <2>3. Steady
    BY <2>1, <2>2, SteadyFrom DEF peers
  <2>4. Ping \in OutMsg /\ Ping.type \notin {"verify", "req"}
    BY MessageTypes DEF Ping
  <2>5. BehindInv' /\ (NoVerify => NoVerify')
    BY <2>1, <2>3, <2>4, SteadyPut DEF IdentityInv
  <2>6. QED BY <2>1, <2>3, <2>5, SteadyWriter, SteadyServed DEF IdentityInv, peers
<1>3. CASE ServeVerifyFails(k) \/ ServeHeartbeat(k) \/ ServeError(k) \/ ServePushErr(k)
  <2>1. UNCHANGED <<conn, callers, outgoing, peers, link, outgoingChan>>
    BY <1>3 DEF ServeVerifyFails, ServeHeartbeat, ServeError, ServePushErr, ServeMoves, wire,
                chain
  <2>2. Unverified' = Unverified
    BY <1>3 DEF ServeVerifyFails, ServeHeartbeat, ServeError, ServePushErr, ServeMoves,
                Unverified, IInv, Newest, chain
  <2>3. Steady
    BY <2>1, <2>2, SteadyFrom DEF peers
  <2>4. QED BY <2>1, <2>3, SteadyWriter, SteadySame, SteadyServed DEF IdentityInv, peers
<1>4. CASE ServeClose(k) \/ ServeCtxDone(k)
  <2>1. UNCHANGED <<conn, callers, outgoing, peers, outgoingChan>> /\ Down(k, "closed")
    BY <1>4 DEF ServeClose, ServeCtxDone, ServeMoves
  <2>2. Unverified' = Unverified
    BY <1>4 DEF ServeClose, ServeCtxDone, ServeMoves, Unverified, IInv, Newest
  <2>3. Steady
    BY <2>1, <2>2, SteadyDown DEF peers
  <2>4. QED BY <2>1, <2>3, SteadyWriter, SteadySame, SteadyServed DEF IdentityInv, peers
<1>5. QED BY <1>1, <1>2, <1>3, <1>4 DEF ServeNext

\* A new connection starts unverified, and everything queued is behind an older one.
LEMMA ReconnectIdentity ==
  ASSUME IInv, Types, IdentityInv, ReconnectSucceeds
  PROVE  IdentityInv'
<1>1. /\ conn \in Conn /\ conn \in Nat /\ conn' = conn + 1 /\ conn' \in Conn
      /\ outgoing[conn] = "ended" /\ UNCHANGED <<callers, peers, outgoingChan>>
  BY DEF IInv, Newest, ReconnectSucceeds, Conn
<1>2. Unverified'
  BY <1>1 DEF ReconnectSucceeds, IInv, Newest, Unverified
<1>3. WriterInv'
  <2> SUFFICES ASSUME NEW j \in Conn, outgoing'[j] = "select"
               PROVE  j = conn'
    BY DEF WriterInv
  <2>1. outgoing' = [outgoing EXCEPT ![conn'] = "select"]
    BY <1>1 DEF ReconnectSucceeds
  <2>2. QED BY <1>1, <2>1 DEF IdentityInv, WriterInv, Types, PeerTypes
<1>4. \A i \in 1 .. Len(outgoingChan) : outgoingChan[i].type = "req" =>
        outgoingChan[i].id \in Request
  <2>1. \A i \in 1 .. Len(outgoingChan) : outgoingChan[i] \in OutMsg
    BY DEF Types, QueueTypes
  <2>2. QED BY <2>1 DEF OutMsg
<1>5. behind \in [Request -> Nat] /\ \A r \in Request : behind[r] <= conn
  BY DEF Types, CallerTypes, IdentityInv, BehindInv
<1>6. BehindInv'
  BY <1>1, <1>2, <1>4, <1>5 DEF BehindInv, callers
<1>7. ServedInv'
  <2> SUFFICES ASSUME NEW s \in served
               PROVE  /\ s[2] <= conn' /\ caller[s[1]] \in {"wait", "ended"}
                      /\ ~s[3] /\ behind[s[1]] >= s[2] => verdict[s[2]] = "refused" /\ s[2] # conn'
    BY <1>1 DEF ServedInv, callers, peers
  <2>1. s[2] \in Nat /\ s[2] <= conn
    BY DEF Types, PeerTypes, Conn, IdentityInv, ServedInv
  <2>2. QED BY <1>1, <2>1 DEF IdentityInv, ServedInv
<1>8. QED BY <1>3, <1>6, <1>7 DEF IdentityInv

LEMMA ChainIdentity ==
  ASSUME IInv, Types, IdentityInv, ChainNext
  PROVE  IdentityInv'
<1>1. CASE ReconnectSucceeds
  BY <1>1, ReconnectIdentity
<1>2. CASE RecoverTakes \/ ReconnectFails \/ Cancel
  <2>1. UNCHANGED <<conn, serve, callers, outgoing, peers, link, outgoingChan>>
    BY <1>2 DEF RecoverTakes, ReconnectFails, Cancel, chain, goroutines, wire
  <2>2. Steady
    BY <2>1, SteadyFrom DEF peers, Unverified
  <2>3. QED BY <2>1, <2>2, SteadyWriter, SteadySame, SteadyServed DEF IdentityInv, peers
<1>3. QED BY <1>1, <1>2 DEF ChainNext

LEMMA IncomingIdentity ==
  ASSUME IInv, Types, IdentityInv, NEW k \in Conn, IncomingNext(k)
  PROVE  IdentityInv'
<1>1. UNCHANGED <<conn, serve, caller, behind, outgoing, peers, link>>
  BY DEF IncomingNext, IncomingCtxDone, IncomingReadFails, IncomingRefused,
         IncomingAsked, HandlerReturns, HandlerFails, IncomingAnswers,
         IncomingDelivers, IncomingUnknown, IncomingFails, IncomingMoves, chain, callers
<1>2. Steady
  BY <1>1 DEF peers, Steady, Unverified, Fresh
<1>3. CASE IncomingAnswers(k)
  <2>1. Answer(<<k, handling[k]>>) \in OutMsg /\ Put(Answer(<<k, handling[k]>>))
    BY <1>3, MessageTypes DEF IncomingAnswers
  <2>2. Answer(<<k, handling[k]>>).type \notin {"verify", "req"}
    BY DEF Answer
  <2>3. BehindInv' /\ (NoVerify => NoVerify')
    BY <1>2, <2>1, <2>2, SteadyPut DEF IdentityInv
  <2>4. QED BY <1>1, <1>2, <2>3, SteadyWriter, SteadyServed DEF IdentityInv, peers
<1>4. CASE ~IncomingAnswers(k)
  <2>1. UNCHANGED outgoingChan
    BY <1>4 DEF IncomingNext, IncomingCtxDone, IncomingReadFails, IncomingRefused,
                IncomingAsked, HandlerReturns, HandlerFails, IncomingDelivers, IncomingUnknown
  <2>2. QED BY <1>1, <1>2, <2>1, SteadyWriter, SteadySame, SteadyServed DEF IdentityInv, peers
<1>5. QED BY <1>3, <1>4

\* A verification that the server reads, whatever it answers: it was the last one.
LEMMA WrittenVerify ==
  ASSUME IInv, Types, IdentityInv, NEW k \in Conn, Writes(k, "verify"),
         UNCHANGED <<link, served>>, verdict'[k] # "none",
         \A j \in Conn : j # k => verdict'[j] = verdict[j]
  PROVE  IdentityInv'
<1>1. outgoing[k] = "select" /\ Taken /\ UNCHANGED <<conn, serve, callers>> /\ outgoing' = outgoing
  BY DEF Writes, OutgoingMoves, chain, Types, PeerTypes
<1>2. k = conn
  BY <1>1 DEF IdentityInv, WriterInv
<1>3. ~Fresh'
  BY <1>1, <1>2 DEF Fresh
<1>4. Steady
  BY <1>1, <1>3 DEF Steady, Unverified, callers
<1>5. BehindInv'
  BY <1>1, <1>3, <1>4, SteadyTaken DEF IdentityInv
<1>6. ~NoVerify
  <2>1. /\ outgoingChan # <<>> /\ outgoingChan \in Seq(OutMsg)
        /\ Head(outgoingChan).type = "verify"
    BY DEF Writes, Taken, Types, QueueTypes
  <2>2. Len(outgoingChan) \in Nat \ {0} /\ outgoingChan[1] = Head(outgoingChan)
    BY <2>1
  <2>3. QED BY <2>1, <2>2 DEF NoVerify, VerifyAt
<1>7. ServedInv'
  <2> SUFFICES ASSUME NEW s \in served
               PROVE  /\ s[2] <= conn /\ caller[s[1]] \in {"wait", "ended"}
                      /\ ~s[3] /\ behind[s[1]] >= s[2] =>
                           verdict'[s[2]] = "refused" /\ s[2] # conn
    BY <1>1 DEF ServedInv, callers
  <2>1. s[2] \in Conn
    BY DEF Types, PeerTypes
  <2>2. QED BY <1>2, <1>6, <2>1 DEF IdentityInv, ServedInv
<1>8. QED BY <1>4, <1>5, <1>7, SteadyWriter DEF IdentityInv

\* A service is asked: the request was queued for the connection's own verification
\* only if that has been read and was the last.
LEMMA ServesIdentity ==
  ASSUME IInv, Types, FlowInv, IdentityInv, NEW k \in Conn, ServerServes(k)
  PROVE  IdentityInv'
<1>1. /\ outgoing[k] = "select" /\ Taken /\ link[k] = "up" /\ Head(outgoingChan).type = "req"
      /\ UNCHANGED <<conn, serve, callers, verdict>> /\ outgoing' = outgoing
  BY DEF ServerServes, Writes, OutgoingMoves, chain, Types, PeerTypes
<1>2. link' = link
  BY DEF ServerServes, Replies
<1>3. k = conn
  BY <1>1 DEF IdentityInv, WriterInv
<1>4. Steady
  BY <1>1, <1>2 DEF Steady, Unverified, Fresh, callers
<1>5. BehindInv' /\ (NoVerify => NoVerify')
  BY <1>1, <1>4, SteadyTaken DEF IdentityInv
<1>6. PICK r \in Request : r = Head(outgoingChan).id
  <2>1. Head(outgoingChan) \in OutMsg /\ Head(outgoingChan).type = "req"
    BY WriteTypes DEF ServerServes
  <2>2. QED BY <2>1 DEF OutMsg
<1>7. caller[r] \in {"wait", "ended"}
  BY <1>1, <1>6, RequestTaken DEF FlowInv, AwaitedInv
<1>8. behind[r] <= conn /\ (Unverified => behind[r] < conn)
  BY DEF IdentityInv, BehindInv
<1>9. ASSUME verdict[k] # "passed", behind[r] >= k
      PROVE  verdict[k] = "refused" /\ ~Unverified' /\ NoVerify'
  <2>1. ~Unverified
    BY <1>3, <1>8, <1>9 DEF IInv, Newest, Conn, Types, CallerTypes
  <2>2. /\ outgoingChan # <<>> /\ outgoingChan \in Seq(OutMsg)
        /\ outgoingChan' = Tail(outgoingChan)
    BY <1>1 DEF Taken, Types, QueueTypes
  <2>3. /\ Len(outgoingChan) \in Nat \ {0} /\ outgoingChan[1] = Head(outgoingChan)
        /\ Len(outgoingChan') = Len(outgoingChan) - 1
        /\ \A i \in 1 .. Len(outgoingChan') : outgoingChan'[i] = outgoingChan[i + 1]
    BY <2>2
  <2>4. /\ \A j \in 1 .. Len(outgoingChan) : 1 < j => ~VerifyAt(j)
        /\ Fresh => \E j \in 1 .. Len(outgoingChan) : j < 1 /\ VerifyAt(j)
    BY <1>1, <1>3, <1>6, <1>9, <2>3 DEF IdentityInv, BehindInv
  <2>5. ~Fresh
    BY <2>4
  <2>6. verdict[k] = "refused"
    BY <1>1, <1>3, <1>9, <2>5 DEF Fresh, Types, PeerTypes
  <2>7. NoVerify'
    <3> SUFFICES ASSUME NEW i \in 1 .. Len(outgoingChan'), outgoingChan'[i].type = "verify"
                 PROVE  FALSE
      BY DEF NoVerify, VerifyAt
    <3>1. i + 1 \in 1 .. Len(outgoingChan) /\ 1 < i + 1
      BY <2>3
    <3>2. VerifyAt(i + 1)
      BY <2>3, <3>1 DEF VerifyAt
    <3>3. QED BY <2>4, <3>1, <3>2
  <2>8. QED BY <1>4, <2>1, <2>6, <2>7 DEF Steady
<1>10. served' = served \cup {<<r, k, verdict[k] = "passed">>}
  BY <1>6 DEF ServerServes
<1>11. ServedInv'
  <2> SUFFICES ASSUME NEW s \in served'
               PROVE  /\ s[2] <= conn /\ caller[s[1]] \in {"wait", "ended"}
                      /\ ~s[3] /\ behind[s[1]] >= s[2] =>
                           /\ verdict[s[2]] = "refused"
                           /\ s[2] = conn => ~Unverified' /\ NoVerify'
    BY <1>1 DEF ServedInv, callers
  <2>1. CASE s \in served
    BY <1>4, <1>5, <2>1 DEF IdentityInv, ServedInv, Steady
  <2>2. CASE s = <<r, k, verdict[k] = "passed">>
    <3>1. s[1] = r /\ s[2] = k /\ (~s[3] => verdict[k] # "passed")
      BY <2>2
    <3>2. conn \in Nat
      BY DEF IInv, Newest, Conn
    <3>3. QED BY <1>3, <1>7, <1>9, <3>1, <3>2
  <2>3. QED BY <1>10, <2>1, <2>2
<1>12. QED BY <1>4, <1>5, <1>11, SteadyWriter DEF IdentityInv

LEMMA OutgoingIdentity ==
  ASSUME IInv, Types, FlowInv, IdentityInv, NEW k \in Conn, OutgoingNext(k)
  PROVE  IdentityInv'
<1>1. /\ outgoing[k] = "select" /\ UNCHANGED <<conn, serve, callers>>
      /\ \A j \in Conn : outgoing'[j] = "select" => outgoing[j] = "select"
  BY DEF OutgoingNext, Written, OutgoingCtxDone, OutgoingVanishes, OutgoingFails,
         ServerVerifies, ServerRefuses, ServerReverifies, ServerPinged, ServerServes,
         ServerDelivers, ServerUnknown, Writes, OutgoingMoves, chain, Types, PeerTypes
<1>2. k = conn
  BY <1>1 DEF IdentityInv, WriterInv
<1>3. Unverified' = Unverified
  BY <1>1 DEF Unverified
<1>4. ASSUME Steady, Taken, Fresh' => Head(outgoingChan).type # "verify",
             UNCHANGED <<served, verdict>>
      PROVE  IdentityInv'
  BY <1>4, SteadyWriter, SteadyTaken, SteadyServed DEF IdentityInv
<1>5. CASE OutgoingCtxDone(k)
  <2>1. UNCHANGED <<wire, peers, outgoingChan>>
    BY <1>5 DEF OutgoingCtxDone
  <2>2. Steady
    BY <1>1, <1>3, <2>1 DEF Steady, Fresh, wire, peers, callers
  <2>3. QED BY <2>1, <2>2, SteadyWriter, SteadySame, SteadyServed DEF IdentityInv, peers
<1>6. CASE OutgoingVanishes(k) \/ OutgoingFails(k)
  <2>1. Taken /\ link[k] # "up" /\ UNCHANGED <<wire, peers>>
    BY <1>6 DEF OutgoingVanishes, OutgoingFails
  <2>2. ~Fresh' /\ Steady
    BY <1>1, <1>2, <1>3, <2>1 DEF Steady, Fresh, wire, peers, callers
  <2>3. QED BY <1>4, <2>1, <2>2 DEF peers
<1>7. CASE ServerVerifies(k)
  <2>1. Writes(k, "verify") /\ UNCHANGED <<link, served>>
        /\ verdict' = [verdict EXCEPT ![k] = "passed"]
    BY <1>7 DEF ServerVerifies, wire
  <2>2. verdict'[k] # "none" /\ \A j \in Conn : j # k => verdict'[j] = verdict[j]
    BY <2>1 DEF Types, PeerTypes
  <2>3. QED BY <2>1, <2>2, WrittenVerify
<1>8. CASE ServerRefuses(k)
  <2>1. Writes(k, "verify") /\ UNCHANGED <<link, served>>
        /\ verdict' = [verdict EXCEPT ![k] = IF @ = "none" THEN "refused" ELSE @]
    BY <1>8 DEF ServerRefuses, Replies
  <2>2. verdict'[k] # "none" /\ \A j \in Conn : j # k => verdict'[j] = verdict[j]
    BY <2>1 DEF Types, PeerTypes
  <2>3. QED BY <2>1, <2>2, WrittenVerify
<1>9. CASE ServerReverifies(k) \/ ServerUnknown(k)
  <2>1. Taken /\ Down(k, "broken") /\ UNCHANGED peers
    BY <1>9 DEF ServerReverifies, ServerUnknown, Writes
  <2>2. Steady
    BY <1>1, <1>3, <2>1, SteadyDown DEF peers
  <2>3. link'[k] = "broken"
    BY <2>1 DEF Down, Types, PeerTypes
  <2>4. ~Fresh'
    BY <1>1, <1>2, <2>3 DEF Fresh
  <2>5. QED BY <1>4, <2>1, <2>2, <2>4 DEF peers
<1>10. CASE ServerPinged(k) \/ ServerDelivers(k)
  <2>1. /\ Taken /\ Head(outgoingChan).type # "verify"
        /\ UNCHANGED <<wire, served, verdict>>
    BY <1>10 DEF ServerPinged, ServerDelivers, Writes, peers
  <2>2. Steady
    BY <1>1, <1>3, <2>1 DEF Steady, Fresh, wire, callers
  <2>3. QED BY <1>4, <2>1, <2>2
<1>11. CASE ServerServes(k)
  BY <1>11, ServesIdentity
<1>12. QED BY <1>5, <1>6, <1>7, <1>8, <1>9, <1>10, <1>11 DEF OutgoingNext, Written

\* A request is queued behind the verification that has been queued, if it has.
LEMMA SendsIdentity ==
  ASSUME IInv, Types, FlowInv, IdentityInv, NEW r \in Request, CallerSends(r)
  PROVE  IdentityInv'
<1>1. /\ caller[r] = "send" /\ caller' = [caller EXCEPT ![r] = "wait"]
      /\ UNCHANGED <<conn, serve, outgoing, link, verdict, served>>
      /\ behind' = [behind EXCEPT ![r] = IF Unverified THEN conn - 1 ELSE conn]
  BY DEF CallerSends, CallerMoves, chain, goroutines, wire, peers, Unverified
<1>2. conn \in Nat \ {0} /\ behind \in [Request -> Nat]
      /\ caller \in [Request -> {"idle", "send", "wait", "ended"}]
  BY DEF IInv, Newest, Conn, Types, CallerTypes
<1>3. outgoingChan \in Seq(OutMsg) /\ outgoingChan' = Append(outgoingChan, Req(r))
  BY DEF CallerSends, Put, Types, QueueTypes
<1>4. /\ Len(outgoingChan) \in Nat /\ Len(outgoingChan') = Len(outgoingChan) + 1
      /\ outgoingChan'[Len(outgoingChan) + 1] = Req(r)
      /\ \A i \in 1 .. Len(outgoingChan) : outgoingChan'[i] = outgoingChan[i]
  BY <1>3
<1>5. UNCHANGED Unverified /\ UNCHANGED Fresh /\ WriterInv'
  BY <1>1 DEF Unverified, Fresh, IdentityInv, WriterInv
<1>6. \A i \in 1 .. Len(outgoingChan) : VerifyAt(i)' <=> VerifyAt(i)
  BY <1>4 DEF VerifyAt
<1>7. /\ \A i \in 1 .. Len(outgoingChan') : i = Len(outgoingChan) + 1 => ~VerifyAt(i)'
      /\ Req(r).type = "req" /\ Req(r).id = r
  BY <1>4 DEF VerifyAt, Req
<1>8. NoVerify' <=> NoVerify
  <2>1. 1 .. Len(outgoingChan') = 1 .. Len(outgoingChan) \cup {Len(outgoingChan) + 1}
    BY <1>4
  <2>2. QED BY <1>6, <1>7, <2>1 DEF NoVerify
<1>9. \A i \in 1 .. Len(outgoingChan) : outgoingChan[i].type = "req" =>
        outgoingChan[i].id \in Request /\ outgoingChan[i].id # r
  <2> SUFFICES ASSUME NEW i \in 1 .. Len(outgoingChan), outgoingChan[i].type = "req"
               PROVE  outgoingChan[i].id \in Request /\ outgoingChan[i].id # r
    OBVIOUS
  <2>1. outgoingChan[i] \in OutMsg
    BY <1>3
  <2>2. outgoingChan[i].id \in Request
    BY <2>1 DEF OutMsg
  <2>3. outgoingChan[i].id = r => Queued(r)
    BY DEF Queued, In, At
  <2>4. ~Queued(r)
    BY <1>1 DEF FlowInv, AwaitedInv
  <2>5. QED BY <2>2, <2>3, <2>4
<1>10. ASSUME NEW i \in 1 .. Len(outgoingChan'), outgoingChan'[i].type = "req",
              behind'[outgoingChan'[i].id] >= conn
       PROVE  /\ \A j \in 1 .. Len(outgoingChan') : i < j => ~VerifyAt(j)'
              /\ Fresh => \E j \in 1 .. Len(outgoingChan') : j < i /\ VerifyAt(j)'
  <2>1. CASE i \in 1 .. Len(outgoingChan)
    <3>1. outgoingChan'[i] = outgoingChan[i] /\ outgoingChan[i].type = "req"
      BY <1>4, <1>10, <2>1
    <3>2. behind'[outgoingChan[i].id] = behind[outgoingChan[i].id]
      BY <1>1, <1>2, <1>9, <2>1, <3>1
    <3>3. /\ \A j \in 1 .. Len(outgoingChan) : i < j => ~VerifyAt(j)
          /\ Fresh => \E j \in 1 .. Len(outgoingChan) : j < i /\ VerifyAt(j)
      BY <1>10, <2>1, <3>1, <3>2 DEF IdentityInv, BehindInv
    <3>4. QED BY <1>4, <1>6, <1>7, <3>3
  <2>2. CASE i = Len(outgoingChan) + 1
    <3>1. behind'[r] >= conn
      BY <1>4, <1>7, <1>10, <2>2
    <3>2. ~Unverified
      BY <1>1, <1>2, <3>1
    <3>3. Fresh => \E j \in 1 .. Len(outgoingChan) : VerifyAt(j)
      BY <3>2 DEF IdentityInv, BehindInv, NoVerify
    <3>4. QED BY <1>4, <1>6, <2>2, <3>3
  <2>3. QED BY <1>4, <2>1, <2>2
<1>11. \A s \in Request : behind'[s] <= conn /\ (Unverified => behind'[s] < conn)
  BY <1>1, <1>2 DEF IdentityInv, BehindInv
<1>12. BehindInv'
  BY <1>1, <1>5, <1>8, <1>10, <1>11 DEF BehindInv, IdentityInv
<1>13. ServedInv'
  <2> SUFFICES ASSUME NEW s \in served
               PROVE  /\ s[2] <= conn /\ caller'[s[1]] \in {"wait", "ended"}
                      /\ ~s[3] /\ behind'[s[1]] >= s[2] =>
                           /\ verdict[s[2]] = "refused"
                           /\ s[2] = conn => ~Unverified /\ NoVerify
    BY <1>1, <1>5, <1>8 DEF ServedInv
  <2>1. s[1] \in Request /\ s[1] # r
    BY <1>1 DEF Types, PeerTypes, IdentityInv, ServedInv
  <2>2. caller'[s[1]] = caller[s[1]] /\ behind'[s[1]] = behind[s[1]]
    BY <1>1, <1>2, <2>1
  <2>3. QED BY <2>2 DEF IdentityInv, ServedInv
<1>14. QED BY <1>5, <1>12, <1>13 DEF IdentityInv

LEMMA CallerIdentity ==
  ASSUME IInv, Types, FlowInv, IdentityInv, NEW r \in Request, CallerNext(r)
  PROVE  IdentityInv'
<1>1. CASE CallerSends(r)
  BY <1>1, SendsIdentity
<1>2. CASE ~CallerSends(r)
  <2>1. UNCHANGED <<conn, serve, outgoing, link, peers, behind, outgoingChan>>
    BY <1>2 DEF CallerNext, CallerSets, CallerGets, CallerTimesOut, DelExpireKeys, CallerMoves,
                chain, goroutines, wire
  <2>2. \A s \in Request : caller[s] \in {"wait", "ended"} => caller'[s] \in {"wait", "ended"}
    BY <1>2 DEF CallerNext, CallerSets, CallerGets, CallerTimesOut, DelExpireKeys, CallerMoves,
                Types, CallerTypes
  <2>3. Steady
    BY <2>1, <2>2 DEF Steady, Unverified, Fresh, peers
  <2>4. QED BY <2>1, <2>3, SteadyWriter, SteadySame, SteadyServed DEF IdentityInv, peers
<1>3. QED BY <1>1, <1>2

LEMMA ServerIdentity ==
  ASSUME IInv, Types, IdentityInv, NEW k \in Conn, ServerNext(k)
  PROVE  IdentityInv'
<1>1. UNCHANGED <<conn, serve, outgoing, callers, outgoingChan, served, verdict>>
  BY DEF ServerNext, LinkBreaks, UserAsks, UserTimesOut, Server, chain, goroutines, peers
<1>2. Steady
  <2>1. CASE LinkBreaks(k)
    BY <1>1, <2>1, SteadyDown DEF LinkBreaks, Unverified
  <2>2. CASE ~LinkBreaks(k)
    <3>1. link' = link
      BY <2>2 DEF ServerNext, UserAsks, UserTimesOut, wire
    <3>2. QED BY <1>1, <3>1 DEF Steady, Fresh, Unverified, callers
  <2>3. QED BY <2>1, <2>2
<1>3. QED BY <1>1, <1>2, SteadyWriter, SteadySame, SteadyServed DEF IdentityInv

LEMMA NextIdentity == IInv /\ Types /\ FlowInv /\ IdentityInv /\ [Next]_vars => IdentityInv'
<1> SUFFICES ASSUME IInv, Types, FlowInv, IdentityInv, [Next]_vars
             PROVE  IdentityInv'
  OBVIOUS
<1>1. CASE UNCHANGED vars
  <2>1. UNCHANGED <<conn, serve, outgoing, callers, link, peers, outgoingChan>>
    BY <1>1 DEF vars, chain, goroutines, wire
  <2>2. Steady
    BY <2>1 DEF Steady, Fresh, Unverified, callers, peers
  <2>3. QED BY <2>1, <2>2, SteadyWriter, SteadySame, SteadyServed DEF IdentityInv, peers
<1>2. CASE Next
  BY <1>2, ChainIdentity, ServeIdentity, IncomingIdentity, OutgoingIdentity, ServerIdentity,
     CallerIdentity DEF Next
<1>3. QED BY <1>1, <1>2

\* Whatever is left in outgoingChan by earlier connections, and however often the
\* device reconnects: a service is asked without a device id only by a request that
\* was queued before the connection's own verification, or after a refusal.
THEOREM IdentityIsKnown == Spec => []IdentityKnown
<1>1. IInv /\ Types /\ IdentityInv => IdentityKnown
  <2> SUFFICES ASSUME IInv, Types, IdentityInv, NEW s \in served, ~s[3]
               PROVE  verdict[s[2]] = "refused" \/ behind[s[1]] < s[2]
    BY DEF IdentityKnown
  <2>1. behind[s[1]] \in Nat /\ s[2] \in Nat
    BY DEF Types, PeerTypes, CallerTypes, Conn
  <2>2. QED BY <2>1 DEF IdentityInv, ServedInv
<1>2. Spec => []IdentityInv
  BY InitIdentity, NextIdentity, FlowInvariant, PTL DEF Spec
<1>3. QED BY <1>1, <1>2, FlowInvariant, PTL
=============================================================================

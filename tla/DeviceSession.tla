---------------------------- MODULE DeviceSession ----------------------------
(***************************************************************************)
(* The session of a device, which outlives its connections                 *)
(* (src/internal/deviceaccess/access_client/devicesession), against the    *)
(* part of the access server that answers it (session.go                   *)
(* deviceSendRequest, receiveCoReq, receiveVerifyReq, serverSendRespone).  *)
(*                                                                         *)
(* Every connection has its own serve, tcpIncomming and tcpOutgoing;       *)
(* outgoingChan, sendIDStore, errChan and recover belong to the session    *)
(* and survive a reconnection, and so does a handler that is still at work *)
(* for a connection that has gone.  Services and users see the consequence.*)
(*                                                                         *)
(* The connections are numbered in the order reconnect makes them.  A user *)
(* request is <<k, n>>: the n-th of the server's session on connection k,  *)
(* so that n is its header id, and ids restart with each connection.  The  *)
(* ids of the device's own requests do not.                                *)
(***************************************************************************)
EXTENDS Naturals, Sequences, FiniteSets

CONSTANTS
  MaxConn,    \* bound: connections made
  MaxReq,     \* bound: requests of the device to services (Get, Post, Get2, Post2)
  MaxUser,    \* bound: user requests on one connection
  MaxWork,    \* bound: requests of either kind
  MaxPing,    \* bound: pings of the heartbeat tickers
  QueueSize   \* capacity of outgoingChan: 10 in the code

ASSUME MaxConnAssumption == MaxConn \in Nat \ {0}
ASSUME MaxReqAssumption == MaxReq \in Nat
ASSUME MaxUserAssumption == MaxUser \in Nat
ASSUME MaxWorkAssumption == MaxWork \in Nat
ASSUME MaxPingAssumption == MaxPing \in Nat
ASSUME QueueSizeAssumption == QueueSize \in Nat \ {0}

Conn == 1 .. MaxConn
Request == 1 .. MaxReq
UserReq == Conn \X (1 .. MaxUser)
None == <<0, 0>>

VARIABLES
  ctxDone,       \* the application has cancelled the context of Serve
  errChan,       \* errors in errChan, capacity 1
  pending,       \* reconnections that wait for their timer or dial
  conn,          \* DeviceSession.conn
  serve,         \* serve[k]: where Session.serve of connection k is
  incoming,      \* incoming[k]: where its tcpIncomming is
  outgoing,      \* outgoing[k]: where its tcpOutgoing is
  handling,      \* handling[k]: the user request tcpIncomming works for
  errNet,        \* errNet[k]: errors in errNetChan, capacity 2
  pings,         \* ticks of the heartbeat tickers
  outgoingChan,  \* messages queued for the socket, whichever it is
  link,          \* link[k]: "none", "up", "broken" (peer or network), "closed" (device)
  toDevice,      \* toDevice[k]: messages on their way to the device
  verdict,       \* verdict[k]: "none", "passed" or "refused" verification
  caller,        \* caller[r]: where Get or Post number r is
  sendIDStore,   \* requests with a key in sendIDStore
  respChan,      \* requests whose response is in their channel
  gaveUp,        \* history: requests that timed out, or whose key expired
  unknown,       \* history: requests whose response met ErrHeaderIDNotExist
  behind,        \* history: behind[r]: the last verification queued before r
  served,        \* history: <<r, k, known>>: a service was asked for r, with device id
  user,          \* user[u]: "none", "waiting" or "ended"
  got            \* history: got[u]: the request whose answer u was given

chain == <<errChan, pending, conn>>
goroutines == <<serve, incoming, outgoing, handling, errNet, pings>>
wire == <<link, toDevice>>
callers == <<caller, sendIDStore, respChan, gaveUp, behind>>
peers == <<verdict, served, user, got>>
vars == <<ctxDone, chain, goroutines, outgoingChan, wire, callers, unknown, peers>>

\* What the device writes, and what the server writes.
Verify(k) == [type |-> "verify", conn |-> k, id |-> 0]
Ping == [type |-> "ping", conn |-> 0, id |-> 0]
Req(r) == [type |-> "req", conn |-> 0, id |-> r]
Answer(u) == [type |-> "answer", conn |-> u[1], id |-> u[2]]
Refusal == [type |-> "refusal", id |-> 0]
Ask(n) == [type |-> "ask", id |-> n]
Resp(r) == [type |-> "resp", id |-> r]

Running == {"verify", "pingset", "select", "ping", "push"}

\* Connect has dialled, Serve has started serve and recover.
Init ==
  /\ ctxDone = FALSE
  /\ errChan = 0 /\ pending = 0 /\ conn = 1
  /\ serve = [k \in Conn |-> IF k = 1 THEN "verify" ELSE "none"]
  /\ incoming = [k \in Conn |-> IF k = 1 THEN "read" ELSE "none"]
  /\ outgoing = [k \in Conn |-> IF k = 1 THEN "select" ELSE "none"]
  /\ link = [k \in Conn |-> IF k = 1 THEN "up" ELSE "none"]
  /\ handling = [k \in Conn |-> 0]
  /\ errNet = [k \in Conn |-> 0]
  /\ outgoingChan = <<>> /\ pings = 0
  /\ toDevice = [k \in Conn |-> <<>>]
  /\ verdict = [k \in Conn |-> "none"]
  /\ caller = [r \in Request |-> "idle"]
  /\ sendIDStore = {} /\ respChan = {} /\ gaveUp = {} /\ unknown = {}
  /\ behind = [r \in Request |-> 0]
  /\ served = {}
  /\ user = [u \in UserReq |-> "none"]
  /\ got = [u \in UserReq |-> None]

\* ioCtx of connection k is done.
IoDone(k) == ctxDone \/ serve[k] \in {"lost", "ended"}

\* s.outgoingChan <- buf, which nothing interrupts.
Put(m) ==
  /\ Len(outgoingChan) < QueueSize
  /\ outgoingChan' = Append(outgoingChan, m)

WorkLeft ==
  Cardinality({r \in Request : caller[r] # "idle"}) + Cardinality({u \in UserReq : user[u] # "none"})
    < MaxWork

\* The link of k goes down, and what is under way is lost.
Down(k, how) ==
  /\ link' = [link EXCEPT ![k] = how]
  /\ toDevice' = [toDevice EXCEPT ![k] = <<>>]

-----------------------------------------------------------------------------
(* serve.                                                                   *)

ServeMoves(k, from, to) ==
  /\ serve[k] = from
  /\ serve' = [serve EXCEPT ![k] = to]
  /\ UNCHANGED <<ctxDone, pending, conn, incoming, outgoing, handling, pings, callers,
                 unknown, peers>>

\* Mutant: a full outgoingChan is no reason to wait.
ServeVerifies_Drops(k) ==
  /\ ServeMoves(k, "verify", "pingset")
  /\ outgoingChan' = IF Len(outgoingChan) < QueueSize THEN Append(outgoingChan, Verify(k))
                     ELSE outgoingChan
  /\ UNCHANGED <<errChan, errNet, wire>>

\* s.verify()
ServeVerifies(k) ==
  /\ ServeMoves(k, "verify", "pingset")
  /\ Put(Verify(k))
  /\ UNCHANGED <<errChan, errNet, wire>>

\* s.verify() fails to encode its request: serve returns and tells nobody, its
\* deferred ioCancel runs, the socket stays open.
ServeVerifyFails(k) ==
  /\ ServeMoves(k, "verify", "lost")
  /\ UNCHANGED <<errChan, errNet, outgoingChan, wire>>

\* s.pingRemoteSet(60): the heartbeat is never the default here.
ServePingSet(k) ==
  /\ ServeMoves(k, "pingset", "select")
  /\ Put(Ping)
  /\ UNCHANGED <<errChan, errNet, wire>>

\* case <-heartbeat.C
ServeHeartbeat(k) ==
  /\ serve[k] = "select"
  /\ serve' = [serve EXCEPT ![k] = "ping"]
  /\ pings < MaxPing
  /\ pings' = pings + 1
  /\ UNCHANGED <<ctxDone, chain, incoming, outgoing, handling, errNet, outgoingChan, wire,
                 callers, unknown, peers>>

\* s.ping()
ServePing(k) ==
  /\ ServeMoves(k, "ping", "select")
  /\ Put(Ping)
  /\ UNCHANGED <<errChan, errNet, wire>>

\* case err := <-errNetChan
ServeError(k) ==
  /\ ServeMoves(k, "select", "push")
  /\ errNet[k] > 0
  /\ errNet' = [errNet EXCEPT ![k] = @ - 1]
  /\ UNCHANGED <<errChan, outgoingChan, wire>>

\* Mutant: serve reports the error and goes on.
ServePushErr_GoesOn(k) ==
  /\ ServeMoves(k, "push", "select")
  /\ errChan = 0
  /\ errChan' = 1
  /\ UNCHANGED <<errNet, outgoingChan, wire>>

\* errChan <- err
ServePushErr(k) ==
  /\ ServeMoves(k, "push", "close")
  /\ errChan = 0
  /\ errChan' = 1
  /\ UNCHANGED <<errNet, outgoingChan, wire>>

\* s.conn.Close() and ioCancel()
ServeClose(k) ==
  /\ ServeMoves(k, "close", "ended")
  /\ Down(k, "closed")
  /\ UNCHANGED <<errChan, errNet, outgoingChan>>

\* Mutant: serve returns without closing the socket.
ServeCtxDone_Open(k) ==
  /\ ServeMoves(k, "select", "ended")
  /\ ctxDone
  /\ UNCHANGED <<errChan, errNet, outgoingChan, wire>>

\* case <-ioCtx.Done()
ServeCtxDone(k) ==
  /\ ServeMoves(k, "select", "ended")
  /\ ctxDone
  /\ Down(k, "closed")
  /\ UNCHANGED <<errChan, errNet, outgoingChan>>

-----------------------------------------------------------------------------
(* recover and reconnect.                                                   *)

\* case err := <-errChan: time.AfterFunc(2 .. 128 s, reconnect).  With ctx done
\* recover may return instead, so that nothing makes it take another error.
RecoverTakes ==
  /\ errChan = 1
  /\ errChan' = 0
  /\ pending' = pending + 1
  /\ UNCHANGED <<ctxDone, conn, goroutines, outgoingChan, wire, callers, unknown, peers>>

\* Mutant: the dial is repeated, and the error reported as well.
ReconnectFails_Both ==
  /\ pending > 0
  /\ errChan = 0
  /\ errChan' = 1
  /\ UNCHANGED <<ctxDone, conn, pending, goroutines, outgoingChan, wire, callers, unknown,
                 peers>>

\* Mutant: the error of the dial is only logged.
ReconnectFails_Silent ==
  /\ pending > 0
  /\ pending' = pending - 1
  /\ UNCHANGED <<ctxDone, conn, errChan, goroutines, outgoingChan, wire, callers, unknown,
                 peers>>

\* The timer fires and the dial fails: errChan <- err.
ReconnectFails ==
  /\ pending > 0
  /\ errChan = 0
  /\ errChan' = 1
  /\ pending' = pending - 1
  /\ UNCHANGED <<ctxDone, conn, goroutines, outgoingChan, wire, callers,
                 unknown, peers>>

\* The timer fires and the dial succeeds: a new serve takes over s.conn.  The
\* interval of at least 2 s is long enough for the old serve to close its own and
\* for the helpers to see that, but for a handler that is still at work.
ReconnectSucceeds ==
  LET k == conn + 1 IN
  /\ pending > 0
  /\ k \in Conn
  /\ serve[conn] # "close" /\ outgoing[conn] = "ended" /\ incoming[conn] # "read"
  /\ pending' = pending - 1
  /\ conn' = k
  /\ serve' = [serve EXCEPT ![k] = "verify"]
  /\ incoming' = [incoming EXCEPT ![k] = "read"]
  /\ outgoing' = [outgoing EXCEPT ![k] = "select"]
  /\ link' = [link EXCEPT ![k] = "up"]
  /\ UNCHANGED <<ctxDone, errChan, handling, errNet, pings, outgoingChan,
                 toDevice, callers, unknown, peers>>

Cancel ==
  /\ ~ctxDone
  /\ ctxDone' = TRUE
  /\ UNCHANGED <<chain, goroutines, outgoingChan, wire, callers, unknown, peers>>

-----------------------------------------------------------------------------
(* tcpIncomming.                                                            *)

IncomingMoves(k, from, to) ==
  /\ incoming[k] = from
  /\ incoming' = [incoming EXCEPT ![k] = to]
  /\ UNCHANGED <<ctxDone, chain, serve, outgoing, pings, link, peers>>

\* The error goes to errNetChan, which has room for both helpers.
IncomingFails(k) ==
  /\ IncomingMoves(k, "read", "ended")
  /\ errNet' = [errNet EXCEPT ![k] = @ + 1]

\* case <-ctx.Done()
IncomingCtxDone(k) ==
  /\ IncomingMoves(k, "read", "ended")
  /\ IoDone(k)
  /\ UNCHANGED <<handling, errNet, outgoingChan, toDevice, callers, unknown>>

\* Reading fails on a link that is down.
IncomingReadFails(k) ==
  /\ IncomingFails(k)
  /\ link[k] \in {"broken", "closed"}
  /\ UNCHANGED <<handling, outgoingChan, toDevice, callers, unknown>>

Receives(k, type) ==
  /\ toDevice[k] # <<>>
  /\ Head(toDevice[k]).type = type
  /\ toDevice' = [toDevice EXCEPT ![k] = Tail(@)]

\* MsgType_DeviceVerifyResp that tells of a failure.
IncomingRefused(k) ==
  /\ IncomingFails(k)
  /\ Receives(k, "refusal")
  /\ UNCHANGED <<handling, outgoingChan, callers, unknown>>

\* MsgType_ServerSendReq: the handler of the uri is called, or a NotFount made.
IncomingAsked(k) ==
  /\ IncomingMoves(k, "read", "handler")
  /\ Receives(k, "ask")
  /\ handling' = [handling EXCEPT ![k] = Head(toDevice[k]).id]
  /\ UNCHANGED <<errNet, outgoingChan, callers, unknown>>

\* The handler returns after any time.
HandlerReturns(k) ==
  /\ IncomingMoves(k, "handler", "answer")
  /\ UNCHANGED <<handling, errNet, outgoingChan, toDevice, callers, unknown>>

\* The handler fails, and its error ends the connection.
HandlerFails(k) ==
  /\ IncomingMoves(k, "handler", "ended")
  /\ errNet' = [errNet EXCEPT ![k] = @ + 1]
  /\ UNCHANGED <<handling, outgoingChan, toDevice, callers, unknown>>

\* s.outgoingChan <- buf, to whatever connection is there by then.
IncomingAnswers(k) ==
  /\ IncomingMoves(k, "answer", "read")
  /\ Put(Answer(<<k, handling[k]>>))
  /\ handling' = [handling EXCEPT ![k] = 0]
  /\ UNCHANGED <<errNet, toDevice, callers, unknown>>

\* MsgType_DeviceSendResp, and the id is in sendIDStore.
IncomingDelivers(k) ==
  LET r == Head(toDevice[k]).id IN
  /\ IncomingMoves(k, "read", "read")
  /\ Receives(k, "resp")
  /\ r \in sendIDStore
  /\ respChan' = respChan \cup {r}
  /\ UNCHANGED <<handling, errNet, outgoingChan, caller, sendIDStore, gaveUp, behind,
                 unknown>>

\* The id is not there: ErrHeaderIDNotExist.
IncomingUnknown(k) ==
  LET r == Head(toDevice[k]).id IN
  /\ IncomingFails(k)
  /\ Receives(k, "resp")
  /\ r \notin sendIDStore
  /\ unknown' = unknown \cup {r}
  /\ UNCHANGED <<handling, outgoingChan, callers>>

-----------------------------------------------------------------------------
(* tcpOutgoing.  A write that takes long is a step that is not taken.       *)

OutgoingMoves(k, to) ==
  /\ outgoing[k] = "select"
  /\ outgoing' = [outgoing EXCEPT ![k] = to]
  /\ UNCHANGED <<ctxDone, chain, serve, incoming, handling, pings, callers, unknown>>

\* case <-ctx.Done()
OutgoingCtxDone(k) ==
  /\ OutgoingMoves(k, "ended")
  /\ IoDone(k)
  /\ UNCHANGED <<errNet, outgoingChan, wire, peers>>

\* case buf := <-s.outgoingChan
Taken ==
  /\ outgoingChan # <<>>
  /\ outgoingChan' = Tail(outgoingChan)

\* Nobody reads what the kernel has taken for a peer that has gone.
OutgoingVanishes(k) ==
  /\ OutgoingMoves(k, "select")
  /\ Taken
  /\ link[k] = "broken"
  /\ UNCHANGED <<errNet, wire, peers>>

\* WriteFull fails, the message is lost.
OutgoingFails(k) ==
  /\ OutgoingMoves(k, "ended")
  /\ Taken
  /\ link[k] \in {"broken", "closed"}
  /\ errNet' = [errNet EXCEPT ![k] = @ + 1]
  /\ UNCHANGED <<wire, peers>>

\* The message is written and the server reads it.  What separates the two, the
\* wire, neither reorders nor is seen by anyone else: a message it loses is
\* OutgoingVanishes, a reply that takes long waits in toDevice.
Writes(k, type) ==
  /\ OutgoingMoves(k, "select")
  /\ Taken
  /\ link[k] = "up"
  /\ Head(outgoingChan).type = type
  /\ UNCHANGED errNet

Replies(k, reply) ==
  /\ toDevice' = [toDevice EXCEPT ![k] = @ \o reply]
  /\ UNCHANGED link

\* A DeviceVerifyReq that passes is not answered.
ServerVerifies(k) ==
  /\ Writes(k, "verify")
  /\ verdict[k] # "passed"
  /\ verdict' = [verdict EXCEPT ![k] = "passed"]
  /\ UNCHANGED <<wire, served, user, got>>

\* Refused, also when an earlier one has passed; the connection stays.
ServerRefuses(k) ==
  /\ Writes(k, "verify")
  /\ verdict' = [verdict EXCEPT ![k] = IF @ = "none" THEN "refused" ELSE @]
  /\ Replies(k, <<Refusal>>)
  /\ UNCHANGED <<served, user, got>>

\* A second pass: AddSession finds the session itself and cancels it.
ServerReverifies(k) ==
  /\ Writes(k, "verify")
  /\ verdict[k] = "passed"
  /\ Down(k, "broken")
  /\ UNCHANGED peers

\* DevicePingReq: the device only logs the answer, which is left out here.
ServerPinged(k) ==
  /\ Writes(k, "ping")
  /\ UNCHANGED <<wire, peers>>

\* DeviceSendReq: receiveCoReq asks the service under s.deviceID, which is empty
\* until a verification has passed, and answers; or the service's data do not
\* fit the answer's buffer and sendCoResp only logs.
ServerServes(k) ==
  LET r == Head(outgoingChan).id IN
  /\ Writes(k, "req")
  /\ served' = served \cup {<<r, k, verdict[k] = "passed">>}
  /\ \E reply \in {<<Resp(r)>>, <<>>} : Replies(k, reply)
  /\ UNCHANGED <<verdict, user, got>>

\* ServerSendResp whose id waits in the session's sendIDStore.
ServerDelivers(k) ==
  LET m == Head(outgoingChan) IN
  /\ Writes(k, "answer")
  /\ user[<<k, m.id>>] = "waiting"
  /\ user' = [user EXCEPT ![<<k, m.id>>] = "ended"]
  /\ got' = [got EXCEPT ![<<k, m.id>>] = <<m.conn, m.id>>]
  /\ UNCHANGED <<wire, verdict, served>>

\* ErrHeaderIDNotExist: the server ends the session.
ServerUnknown(k) ==
  /\ Writes(k, "answer")
  /\ user[<<k, Head(outgoingChan).id>>] # "waiting"
  /\ Down(k, "broken")
  /\ UNCHANGED peers

-----------------------------------------------------------------------------
(* Get, Post, Get2 and Post2 of the application.                            *)

CallerMoves(r, from, to) ==
  /\ caller[r] = from
  /\ caller' = [caller EXCEPT ![r] = to]
  /\ UNCHANGED <<ctxDone, chain, goroutines, wire, unknown, peers>>

\* genHeaderID, and sendIDStore.Set before the message is queued.
CallerSets(r) ==
  /\ WorkLeft
  /\ CallerMoves(r, "idle", "send")
  /\ sendIDStore' = sendIDStore \cup {r}
  /\ UNCHANGED <<outgoingChan, respChan, gaveUp, behind>>

\* Mutant: the deferred Del belongs to sendCoReq.
CallerSends_Del(r) ==
  /\ CallerMoves(r, "send", "wait")
  /\ Put(Req(r))
  /\ sendIDStore' = sendIDStore \ {r}
  /\ UNCHANGED <<respChan, gaveUp, behind>>

\* s.outgoingChan <- buf
CallerSends(r) ==
  /\ CallerMoves(r, "send", "wait")
  /\ Put(Req(r))
  /\ behind' = [behind EXCEPT ![r] = IF serve[conn] \in {"verify", "lost"} THEN conn - 1
                                    ELSE conn]
  /\ UNCHANGED <<sendIDStore, respChan, gaveUp>>

\* case sendRespBody := <-respChan, and the deferred Del.
CallerGets(r) ==
  /\ CallerMoves(r, "wait", "ended")
  /\ r \in respChan
  /\ respChan' = respChan \ {r}
  /\ sendIDStore' = sendIDStore \ {r}
  /\ UNCHANGED <<outgoingChan, gaveUp, behind>>

\* case <-t.C, or <-ctx.Done() of the caller's context, and the deferred Del.
CallerTimesOut(r) ==
  /\ CallerMoves(r, "wait", "ended")
  /\ sendIDStore' = sendIDStore \ {r}
  /\ gaveUp' = gaveUp \cup {r}
  /\ UNCHANGED <<outgoingChan, respChan, behind>>

\* case <-storeTicker.C: the key of a caller that has waited for more than 120 s.
DelExpireKeys(k, r) ==
  /\ serve[k] = "select"
  /\ r \in sendIDStore
  /\ sendIDStore' = sendIDStore \ {r}
  /\ gaveUp' = gaveUp \cup {r}
  /\ UNCHANGED <<ctxDone, chain, goroutines, outgoingChan, wire, caller, respChan, behind,
                 unknown, peers>>

-----------------------------------------------------------------------------
(* The network and the server.                                              *)

\* The network fails or the server closes: its timers, its shutdown, another
\* connection of the device.
LinkBreaks(k) ==
  /\ link[k] = "up"
  /\ Down(k, "broken")
  /\ UNCHANGED <<ctxDone, chain, goroutines, outgoingChan, callers, unknown, peers>>

Server == UNCHANGED <<ctxDone, chain, goroutines, outgoingChan, callers, unknown>>

\* A user asks the device that is registered on k; ids go up from 1.
UserAsks(k, n) ==
  /\ WorkLeft
  /\ link[k] = "up" /\ verdict[k] = "passed"
  /\ user[<<k, n>>] = "none"
  /\ n > 1 => user[<<k, n - 1>>] # "none"
  /\ user' = [user EXCEPT ![<<k, n>>] = "waiting"]
  /\ toDevice' = [toDevice EXCEPT ![k] = Append(@, Ask(n))]
  /\ Server
  /\ UNCHANGED <<link, verdict, served, got>>

\* The handler of the user's request gives up after 10 s.
UserTimesOut(u) ==
  /\ user[u] = "waiting"
  /\ user' = [user EXCEPT ![u] = "ended"]
  /\ Server
  /\ UNCHANGED <<wire, verdict, served, got>>

-----------------------------------------------------------------------------
ServeNext(k) ==
  \/ ServeVerifies(k) \/ ServeVerifyFails(k) \/ ServePingSet(k)
  \/ ServeHeartbeat(k) \/ ServePing(k)
  \/ ServeError(k) \/ ServePushErr(k) \/ ServeClose(k) \/ ServeCtxDone(k)

ChainNext == RecoverTakes \/ ReconnectFails \/ ReconnectSucceeds \/ Cancel

IncomingNext(k) ==
  \/ IncomingCtxDone(k) \/ IncomingReadFails(k) \/ IncomingRefused(k)
  \/ IncomingAsked(k) \/ HandlerReturns(k) \/ HandlerFails(k) \/ IncomingAnswers(k)
  \/ IncomingDelivers(k) \/ IncomingUnknown(k)

Written(k) ==
  \/ ServerVerifies(k) \/ ServerRefuses(k) \/ ServerReverifies(k) \/ ServerPinged(k)
  \/ ServerServes(k) \/ ServerDelivers(k) \/ ServerUnknown(k)

OutgoingNext(k) ==
  OutgoingCtxDone(k) \/ OutgoingVanishes(k) \/ OutgoingFails(k) \/ Written(k)

CallerNext(r) ==
  \/ CallerSets(r) \/ CallerSends(r) \/ CallerGets(r) \/ CallerTimesOut(r)
  \/ \E k \in Conn : DelExpireKeys(k, r)

ServerNext(k) ==
  \/ LinkBreaks(k)
  \/ \E n \in 1 .. MaxUser : UserAsks(k, n) \/ UserTimesOut(<<k, n>>)

Next ==
  \/ ChainNext
  \/ \E k \in Conn : ServeNext(k) \/ IncomingNext(k) \/ OutgoingNext(k) \/ ServerNext(k)
  \/ \E r \in Request : CallerNext(r)

Spec == Init /\ [][Next]_vars

\* The goroutines go on where they can, TCP reports a dead link to its reader (a
\* ping every minute sees to that), and callers keep their timeouts.  Nothing
\* makes a handler return, a dial succeed or the server answer.
Fairness ==
  /\ \A k \in Conn :
       /\ WF_vars(ServeVerifies(k) \/ ServePingSet(k) \/ ServePing(k))
       /\ WF_vars(ServeError(k) \/ ServePushErr(k) \/ ServeClose(k) \/ ServeCtxDone(k))
       /\ WF_vars(IncomingAnswers(k))
       /\ WF_vars(IncomingReadFails(k) \/ IncomingCtxDone(k))
       /\ WF_vars(Written(k) \/ OutgoingFails(k) \/ OutgoingCtxDone(k))
  /\ WF_vars(~ctxDone /\ RecoverTakes)
  /\ \A r \in Request :
       WF_vars(CallerSends(r)) /\ WF_vars(CallerGets(r) \/ CallerTimesOut(r))

FairSpec == Spec /\ Fairness

-----------------------------------------------------------------------------
(* Properties.                                                              *)

\* Exactly one thing carries the session on: a serve that has not yet reported,
\* its error in errChan, or a reconnection.  Two would give the session two
\* serves that write to each other's socket, none leaves it dead; that happens
\* only to a serve whose verification could not be encoded, and after Cancel.
OneChain ==
  LET running == {k \in Conn : serve[k] \in Running} IN
  /\ \A j, k \in running : j = k
  /\ errChan + pending <= 1
  /\ errChan + pending = 1 => running = {}
  /\ ~ctxDone /\ (\A k \in Conn : serve[k] # "lost")
       => errChan + pending = 1 \/ running # {}

\* The serve that runs is the one of the newest connection: s.conn, which
\* tcpIncomming, tcpOutgoing and Close all read anew, is its own.
ServesCurrent == \A k \in Conn : serve[k] \in Running \cup {"close"} => k = conn

\* A device ends its connection over a response nobody waits for only when the
\* caller has given up, or has waited longer than its key lives.
TeardownMeansLate == unknown \subseteq gaveUp

\* A service is asked without a device id only by a request that was queued
\* before the connection's own verification, or after a refusal.
IdentityKnown ==
  \A s \in served : ~s[3] => verdict[s[2]] = "refused" \/ behind[s[1]] < s[2]

\* What the protocol says of MessageID (device_access_protocol.md, 1.2: it
\* matches a request with its response): a user gets the answer to the own
\* request.
AnswersMatch == \A u \in UserReq : got[u] \in {u, None}

\* serve is gone, or it waits for room in outgoingChan with tcpOutgoing, the only
\* reader, gone.
Stuck ==
  \/ serve[conn] = "lost"
  \/ /\ serve[conn] \in {"verify", "pingset", "ping"}
     /\ outgoing[conn] = "ended" /\ Len(outgoingChan) = QueueSize

\* A session that has lost its connection, for whatever reason, comes to a timer
\* that reconnects, unless the application cancels, serve is stuck or a handler
\* does not return.
Recovers ==
  link[conn] # "up"
    ~> ctxDone \/ pending > 0 \/ link[conn] = "up" \/ Stuck \/ incoming[conn] = "handler"

\* After Cancel every socket comes to be closed, also one dialled by a timer that
\* Cancel has not stopped, unless serve is stuck.
CancelCloses == ctxDone ~> (\A k \in Conn : link[k] \in {"none", "closed"}) \/ Stuck
=============================================================================

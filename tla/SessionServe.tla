----------------------------- MODULE SessionServe -----------------------------
(***************************************************************************)
(* One device connection on the access server: the goroutines serve,       *)
(* tcpIncomming and tcpOutgoing, the channels and timers between them, and *)
(* the RPC handlers that send through the session                          *)
(* (src/internal/deviceaccess/access_server/devicetcp/session.go).         *)
(*                                                                         *)
(* errChan has room for two errors, outgoingChan for OutgoingChanSize      *)
(* messages; a sender to a full channel blocks and watches nothing else.   *)
(* Messages carry no content here.  A device may send anything at any time *)
(* and may stop reading.  How AddSession waits for the session it replaces *)
(* is the subject of SessionRegistry; here it returns or it does not.      *)
(***************************************************************************)
EXTENDS Naturals

CONSTANTS
  User,              \* RPC handlers that send to this device
  OutgoingChanSize,  \* bound: 10 in the code
  MaxVerify          \* bound: DeviceVerifyReq messages handled

ASSUME OutgoingAssumption == OutgoingChanSize \in Nat \ {0}
ASSUME MaxVerifyAssumption == MaxVerify \in Nat

\* errChan := make(chan error, 2)
ErrChanSize == 2

VARIABLES
  stopped,       \* the context of the server is cancelled
  serve,         \* where Session.serve is
  exitBy,        \* history: the branch of serve's select that returned
  incoming,      \* where tcpIncomming is
  outgoing,      \* where tcpOutgoing is
  errChan,       \* number of errors in errChan
  cancelled,     \* s.cancel() was called
  conn,          \* the socket: "open" or "closed" by this server
  verifyTimer,   \* "armed", "fired" (a tick in its channel) or "off"
  verifyPass,    \* Session.verifyPass
  registered,    \* this session is in SessionMap
  verifies,      \* DeviceVerifyReq messages handled
  outgoingChan,  \* number of messages in outgoingChan
  caller         \* caller[u]: where the RPC handler u is in Send

served == <<stopped, serve, exitBy, cancelled, conn, verifyTimer>>
verified == <<verifyPass, registered, verifies>>
vars == <<served, verified, incoming, outgoing, errChan, outgoingChan, caller>>

\* newSession, and the first lines of serve: the timers run, the helpers start.
Init ==
  /\ stopped = FALSE
  /\ serve = "select"
  /\ exitBy = "none"
  /\ incoming = "top"
  /\ outgoing = "select"
  /\ errChan = 0
  /\ cancelled = FALSE
  /\ conn = "open"
  /\ verifyTimer = "armed"
  /\ verifyPass = FALSE
  /\ registered = FALSE
  /\ verifies = 0
  /\ outgoingChan = 0
  /\ caller = [u \in User |-> "idle"]

CtxDone == cancelled \/ stopped

-----------------------------------------------------------------------------
(* serve.                                                                   *)

\* The context of the server ends.
Stop ==
  /\ ~stopped
  /\ stopped' = TRUE
  /\ UNCHANGED <<serve, exitBy, cancelled, conn, verifyTimer, verified, incoming,
                 outgoing, errChan, outgoingChan, caller>>

\* A session that takes over calls Cancel on this one.
Cancel ==
  /\ verifyPass
  /\ ~cancelled
  /\ cancelled' = TRUE
  /\ UNCHANGED <<stopped, serve, exitBy, conn, verifyTimer, verified, incoming,
                 outgoing, errChan, outgoingChan, caller>>

\* The 15 s timer.  A tick that is in its channel survives verifyTimer.Stop.
VerifyTimerFires ==
  /\ serve = "select"
  /\ verifyTimer = "armed"
  /\ verifyTimer' = "fired"
  /\ UNCHANGED <<stopped, serve, exitBy, cancelled, conn, verified, incoming,
                 outgoing, errChan, outgoingChan, caller>>

LeaveSelect(next, branch) ==
  /\ serve = "select"
  /\ serve' = next
  /\ exitBy' = branch
  /\ UNCHANGED <<stopped, verified, incoming, outgoing, outgoingChan, caller>>


\* case err := <-errChan
ServeError ==
  /\ LeaveSelect("deferred", "error")
  /\ errChan > 0
  /\ errChan' = errChan - 1
  /\ cancelled' = TRUE
  /\ UNCHANGED <<conn, verifyTimer>>

\* case <-serveCtx.Done()
ServeCtxDone ==
  /\ LeaveSelect("deferred", "ctx")
  /\ CtxDone
  /\ conn' = "closed"
  /\ UNCHANGED <<cancelled, errChan, verifyTimer>>

\* case <-verifyTimer.C: on to errChan <- ErrSessionVerifyNotCompleted
ServeVerifyTimeout ==
  /\ LeaveSelect("errpush", "timer")
  /\ verifyTimer = "fired"
  /\ verifyTimer' = "off"
  /\ UNCHANGED <<cancelled, conn, errChan>>

\* case <-heartbeatTimer.C: on to errChan <- ErrSessionHeartbeatTimeout
ServeHeartbeatTimeout ==
  /\ LeaveSelect("errpush", "timer")
  /\ UNCHANGED <<cancelled, conn, errChan, verifyTimer>>

\* The timer branches send to the channel that only serve receives from.
ServePushErr ==
  /\ serve = "errpush"
  /\ errChan < ErrChanSize
  /\ errChan' = errChan + 1
  /\ serve' = "deferred"
  /\ UNCHANGED <<stopped, exitBy, cancelled, conn, verifyTimer, verified, incoming,
                 outgoing, outgoingChan, caller>>

\* The deferred function: done to the observers, delSession, the done token.
ServeDeferred ==
  /\ serve = "deferred"
  /\ serve' = "close"
  /\ registered' = (registered /\ ~verifyPass)
  /\ UNCHANGED <<stopped, exitBy, cancelled, conn, verifyTimer, verifyPass, verifies,
                 incoming, outgoing, errChan, outgoingChan, caller>>

\* Mutant: the deferred Close is missing, as the branch of the context closes.
ServeClose_Open ==
  /\ serve = "close"
  /\ serve' = "ended"
  /\ UNCHANGED <<stopped, exitBy, cancelled, conn, verifyTimer, verified, incoming,
                 outgoing, errChan, outgoingChan, caller>>

\* The deferred s.conn.Close() and wait.Done().
ServeClose ==
  /\ serve = "close"
  /\ serve' = "ended"
  /\ conn' = "closed"
  /\ UNCHANGED <<stopped, exitBy, cancelled, verifyTimer, verified, incoming,
                 outgoing, errChan, outgoingChan, caller>>

-----------------------------------------------------------------------------
(* tcpIncomming.                                                            *)

IncomingMoves(from, to) ==
  /\ incoming = from
  /\ incoming' = to
  /\ UNCHANGED <<stopped, serve, exitBy, cancelled, conn, outgoing, caller>>

\* The top of the loop looks at serveCtx, then blocks in ReadFull.
IncomingLoop ==
  /\ IncomingMoves("top", IF CtxDone THEN "exit" ELSE "read")
  /\ UNCHANGED <<verifyTimer, verified, errChan, outgoingChan>>

\* The read fails, or a message cannot be decoded or handled.
IncomingFails ==
  /\ IncomingMoves("read", "push")
  /\ UNCHANGED <<verifyTimer, verified, errChan, outgoingChan>>

IncomingPushErr ==
  /\ IncomingMoves("push", "exit")
  /\ errChan < ErrChanSize
  /\ errChan' = errChan + 1
  /\ UNCHANGED <<verifyTimer, verified, outgoingChan>>

\* A ping or a device request: its handler has an answer to send.
IncomingRequest ==
  /\ IncomingMoves("read", "reply")
  /\ conn = "open"
  /\ UNCHANGED <<verifyTimer, verified, errChan, outgoingChan>>

\* A message that needs no answer, as the response to a caller.
IncomingHandled ==
  /\ IncomingMoves("read", "top")
  /\ conn = "open"
  /\ UNCHANGED <<verifyTimer, verified, errChan, outgoingChan>>

\* s.outgoingChan <- respBuf
IncomingReply ==
  /\ IncomingMoves("reply", "top")
  /\ outgoingChan < OutgoingChanSize
  /\ outgoingChan' = outgoingChan + 1
  /\ UNCHANGED <<verifyTimer, verified, errChan>>

\* A DeviceVerifyReq is read and goes to the device verifier.
VerifyRecv ==
  /\ IncomingMoves("read", "verify")
  /\ conn = "open"
  /\ verifies < MaxVerify
  /\ verifies' = verifies + 1
  /\ UNCHANGED <<verifyTimer, verifyPass, registered, errChan, outgoingChan>>

\* Mutant: the verify timer is stopped whatever the verdict.
VerifyRefused_StopsTimer ==
  /\ IncomingMoves("verify", "refuse")
  /\ verifyTimer' = "off"
  /\ UNCHANGED <<verified, errChan, outgoingChan>>

\* Refused, or the verifier cannot be asked: sendVerifyResp with an error code.
VerifyRefused ==
  /\ IncomingMoves("verify", "refuse")
  /\ UNCHANGED <<verifyTimer, verified, errChan, outgoingChan>>

\* The answer goes out; only a failed Verify call of a session that has passed
\* before makes receiveVerifyReq return true.
SendVerifyResp ==
  /\ \/ IncomingMoves("refuse", "top")
     \/ verifyPass /\ IncomingMoves("refuse", "add")
  /\ outgoingChan < OutgoingChanSize
  /\ outgoingChan' = outgoingChan + 1
  /\ UNCHANGED <<verifyTimer, verifyPass, registered, verifies, errChan>>

\* The verifier passes the device.  GetCapSize knows every level of a two-bit
\* field, so receiveVerifyReq never reaches its Code_Success answer.
VerifyPassed ==
  /\ IncomingMoves("verify", "add")
  /\ verifyPass' = TRUE
  /\ UNCHANGED <<verifyTimer, registered, verifies, errChan, outgoingChan>>

\* AddSession returns, and verifyTimer.Stop().
AddSession ==
  /\ IncomingMoves("add", "top")
  /\ registered' = TRUE
  /\ verifyTimer' = IF verifyTimer = "armed" THEN "off" ELSE verifyTimer
  /\ UNCHANGED <<verifyPass, verifies, errChan, outgoingChan>>

-----------------------------------------------------------------------------
(* tcpOutgoing.                                                             *)

OutgoingMoves(from, to) ==
  /\ outgoing = from
  /\ outgoing' = to
  /\ UNCHANGED <<served, verified, incoming, caller>>

OutgoingCtxDone ==
  /\ OutgoingMoves("select", "exit")
  /\ CtxDone
  /\ UNCHANGED <<errChan, outgoingChan>>

\* case buf := <-s.outgoingChan
OutgoingTake ==
  /\ OutgoingMoves("select", "write")
  /\ outgoingChan > 0
  /\ outgoingChan' = outgoingChan - 1
  /\ UNCHANGED errChan

\* WriteFull has written everything.
OutgoingWrites ==
  /\ OutgoingMoves("write", "select")
  /\ conn = "open"
  /\ UNCHANGED <<errChan, outgoingChan>>

\* Mutant: tcpOutgoing returns and tells nobody.
OutgoingFails_Silent ==
  /\ OutgoingMoves("write", "exit")
  /\ UNCHANGED <<errChan, outgoingChan>>

\* WriteFull fails: the peer is gone, or the socket was closed here.
OutgoingFails ==
  /\ OutgoingMoves("write", "push")
  /\ UNCHANGED <<errChan, outgoingChan>>

OutgoingPushErr ==
  /\ OutgoingMoves("push", "exit")
  /\ errChan < ErrChanSize
  /\ errChan' = errChan + 1
  /\ UNCHANGED outgoingChan

-----------------------------------------------------------------------------
(* RPC handlers.                                                            *)

CallerMoves(u, from, to) ==
  /\ caller[u] = from
  /\ caller' = [caller EXCEPT ![u] = to]
  /\ UNCHANGED <<served, verified, incoming, outgoing, errChan>>

\* sessions.Get(req.DeviceId) finds this session.
CallerFinds(u) ==
  /\ CallerMoves(u, "idle", "found")
  /\ registered
  /\ UNCHANGED outgoingChan

\* session.Send prepares its message, for a session that may have ended since.
CallerSends(u) == CallerMoves(u, "found", "send") /\ UNCHANGED outgoingChan

\* s.outgoingChan <- buf, neither with a timeout nor with a context
CallerSent(u) ==
  /\ CallerMoves(u, "send", "sent")
  /\ outgoingChan < OutgoingChanSize
  /\ outgoingChan' = outgoingChan + 1

\* The response comes or the timer fires; the handler returns.
CallerReturns(u) == CallerMoves(u, "sent", "idle") /\ UNCHANGED outgoingChan

-----------------------------------------------------------------------------
ServeSelect == ServeError \/ ServeCtxDone \/ ServeVerifyTimeout

ServeNext ==
  \/ ServeSelect \/ ServeHeartbeatTimeout \/ ServePushErr
  \/ ServeDeferred \/ ServeClose \/ VerifyTimerFires

IncomingNext ==
  \/ IncomingLoop \/ IncomingFails \/ IncomingPushErr
  \/ IncomingRequest \/ IncomingHandled \/ IncomingReply
  \/ VerifyRecv \/ VerifyRefused \/ SendVerifyResp \/ VerifyPassed \/ AddSession

OutgoingNext ==
  \/ OutgoingCtxDone \/ OutgoingTake \/ OutgoingWrites \/ OutgoingFails \/ OutgoingPushErr

CallerNext(u) == CallerFinds(u) \/ CallerSends(u) \/ CallerSent(u) \/ CallerReturns(u)

Next ==
  \/ Stop \/ Cancel
  \/ ServeNext \/ IncomingNext \/ OutgoingNext
  \/ \E u \in User : CallerNext(u)

Spec == Init /\ [][Next]_vars

\* tcpIncomming waits for room in outgoingChan, and reads nothing meanwhile.
Blocked == incoming \in {"reply", "refuse"}

\* Goroutines that can go on do, timers fire, and a closed socket fails reads
\* and writes.  Nothing is assumed of the device (what it sends, whether it
\* reads), of a hand-over, or of callers that have not sent yet.  The heartbeat
\* ticker, which tcpIncomming sets back, ticks when tcpIncomming does not go on.
\* A Verify call of a cancelled context comes back.
Fairness ==
  /\ WF_vars(ServeSelect) /\ WF_vars(ServePushErr)
  /\ WF_vars(ServeDeferred \/ ServeClose)
  /\ WF_vars(VerifyTimerFires)
  /\ WF_vars(Blocked /\ ServeHeartbeatTimeout)
  /\ WF_vars(IncomingLoop \/ IncomingPushErr)
  /\ WF_vars(conn = "closed" /\ IncomingFails)
  /\ WF_vars(CtxDone /\ VerifyRefused)
  /\ SF_vars(IncomingReply \/ SendVerifyResp)
  /\ WF_vars(OutgoingCtxDone \/ OutgoingTake)
  /\ WF_vars(conn = "closed" /\ OutgoingFails)
  /\ WF_vars(OutgoingPushErr)
  /\ \A u \in User : SF_vars(CallerSent(u))

FairSpec == Spec /\ Fairness

\* The device, or the network, lets every write end; no fairness says so.
WritesEnd == WF_vars(OutgoingWrites \/ OutgoingFails)

-----------------------------------------------------------------------------
(* Properties.                                                              *)

\* serve waits for room in the channel that only it empties.
Stuck == serve = "errpush" /\ errChan = ErrChanSize

\* The channel is full and nobody receives any more: whoever sends, hangs.
Clogged ==
  /\ outgoingChan = OutgoingChanSize
  /\ outgoing = "exit" \/ (outgoing = "push" /\ errChan = ErrChanSize /\ serve # "select")

\* A connection that does not get through verification and AddSession is closed
\* once the verify timer fires, unless serve has locked itself out.
VerifyDeadline == serve = "select" ~> registered \/ conn = "closed" \/ Stuck


\* Device and server may each wait for the other to read, every queue between them
\* full.  That does not last: tcpIncomming goes on, or the heartbeat ticker makes
\* serve close the socket, and the device sees an error.
BlockEnds == Blocked ~> ~Blocked \/ conn = "closed"

\* As long as the device reads, a handler gets its message into outgoingChan; it
\* hangs only on a session whose serve has left its select.
CallerUnblocks ==
  WritesEnd =>
    \A u \in User :
      caller[u] = "send" ~> caller[u] # "send" \/ (Clogged /\ serve # "select")
=============================================================================

------------------------------- MODULE Shutdown -------------------------------
(***************************************************************************)
(* The process: main starts the device listener, the RPC server and the   *)
(* user gateway, waits for the three, and SIGTERM ends it                  *)
(* (cmd/rtio/rtio.go main; devicetcp.go Serve, apprpc.go InitRPCServer,    *)
(* usergw.go InitUserGateway).  Two more binaries start a part of it each: *)
(* deviceaccess the first two, useraccess the gateway, which forwards to   *)
(* another process (main of either access_server.go).                      *)
(*                                                                         *)
(* The context of the signal reaches the listener, the sessions, the       *)
(* GracefulStop of the RPC server and the Shutdown of the gateway, but no  *)
(* RPC handler: Send ignores its context, and an observer learns of the    *)
(* end from its session only.                                              *)
(*                                                                         *)
(* A connection counts as verified once it is served, and may be taken     *)
(* over at any time.  The message that tcpOutgoing is writing counts as    *)
(* one of outgoingChan.  The HTTP side of the gateway is left out: it      *)
(* forwards what the RPC handlers answer.                                  *)
(***************************************************************************)
EXTENDS Naturals, FiniteSets

CONSTANTS
  Conn,      \* device connections, each accepted at most once
  User,      \* RPC handlers, each of one request: Get or Post,
  Observer,  \* or ObGet
  QueueSize  \* capacity of outgoingChan: 10 in the code

ASSUME QueueAssumption == QueueSize \in Nat \ {0} /\ IsFiniteSet(User)
ASSUME ObserverAssumption == Observer \subseteq User

NoConn == "none"

VARIABLES
  main,      \* what main is at: "listen", "rpc", "dial", or "forward" of useraccess,
             \* then "wait"; it has come back with an error: "returned"; or after
             \* wait.Wait: "exited"
  signalled, \* ctx of signal.NotifyContext is done
  listener,  \* ServerTCP.listener: "none", "open", "closed"
  acceptor,  \* the goroutine that accepts: "none", "run", "ended"
  serve,     \* serve[c]: Session.serve
  socket,    \* socket[c]: "open", "closed"
  outgoing,  \* outgoing[c]: the requests in outgoingChan
  writer,    \* connections whose tcpOutgoing runs
  reader,    \* connections whose tcpIncomming runs
  rpc,       \* grpc.Server: "none", "serving", "stopping", "stopped"; its Serve has
             \* returned by itself: "failed", and GracefulStop after that: "left"
  gateway,   \* http.Server: "none", "serving", "closed"
  handler,   \* handler[u]: where Get, Post or ObGet is
  of,        \* of[u]: the session that the handler has found, until it returns
  written,   \* requests that tcpOutgoing has written, and whose handler waits
  told,      \* observers with a value in SessionDoneChan
  late,      \* history: observers made after their session had told the others
  stalled    \* users that read no more

tcp == <<listener, acceptor, serve, socket, outgoing, writer, reader, written, told>>
calls == <<handler, of, late, stalled>>
vars == <<main, signalled, rpc, gateway, tcp, calls>>

Init ==
  /\ main \in {"listen", "forward"} /\ signalled = FALSE
  /\ listener = "none" /\ acceptor = "none"
  /\ serve = [c \in Conn |-> "none"] /\ socket = [c \in Conn |-> "closed"]
  /\ outgoing = [c \in Conn |-> {}] /\ writer = {} /\ reader = {}
  /\ rpc = "none" /\ gateway = "none"
  /\ handler = [u \in User |-> "idle"]
  /\ of = [u \in User |-> NoConn]
  /\ written = {} /\ told = {} /\ late = {} /\ stalled = {}

\* errChan := make(chan error, 2)
ErrChanSize == 2

\* The process has ended, and with it all its goroutines.
Over == main \in {"returned", "exited"}

-----------------------------------------------------------------------------
(* main.                                                                    *)

Signal ==
  /\ ~Over /\ ~signalled
  /\ signalled' = TRUE
  /\ UNCHANGED <<main, rpc, gateway, tcp, calls>>

InitTCPServer ==
  /\ main = "listen"
  /\ main' = "rpc" /\ listener' = "open" /\ acceptor' = "run"
  /\ UNCHANGED <<signalled, rpc, gateway, serve, socket, outgoing, writer, reader, written, told,
                 calls>>

InitRPCServer ==
  /\ main = "rpc"
  /\ main' = "dial" /\ rpc' = "serving"
  /\ UNCHANGED <<signalled, gateway, tcp, calls>>

\* InitUserGateway: DialContext blocks until the RPC server answers.
InitUserGateway ==
  /\ main = "dial" /\ rpc = "serving"
  /\ main' = "wait" /\ gateway' = "serving"
  /\ UNCHANGED <<signalled, rpc, tcp, calls>>

\* deviceaccess: main has no gateway to start.
DeviceAccessStarted ==
  /\ main = "dial"
  /\ main' = "wait"
  /\ UNCHANGED <<signalled, rpc, gateway, tcp, calls>>

\* useraccess: main has nothing else to start, and the RPC server of another process
\* has answered.
UserAccessStarted ==
  /\ main = "forward"
  /\ main' = "wait" /\ gateway' = "serving"
  /\ UNCHANGED <<signalled, rpc, tcp, calls>>

\* An address is taken, or the signal ends the dialling: main returns.
InitFails ==
  /\ \/ main \in {"listen", "rpc"}
     \/ main \in {"dial", "forward"} /\ signalled
  /\ main' = "returned"
  /\ UNCHANGED <<signalled, rpc, gateway, tcp, calls>>

\* wait of ServerTCP: the accepting goroutine and every session.
TCPDone == acceptor # "run" /\ \A c \in Conn : serve[c] \in {"none", "ended"}

\* wait.Wait: what main has started has ended.
MainExits ==
  /\ main = "wait"
  /\ TCPDone /\ rpc \notin {"serving", "stopping"} /\ gateway \in {"none", "closed"}
  /\ main' = "exited"
  /\ UNCHANGED <<signalled, rpc, gateway, tcp, calls>>

-----------------------------------------------------------------------------
(* The device listener and its sessions.                                    *)

\* ctx of ServerTCP.Serve: done by the signal, or when nobody accepts any more.
CtxDone == signalled \/ acceptor = "ended"

Accepts(c) ==
  /\ ~Over /\ acceptor = "run" /\ listener = "open" /\ serve[c] = "none"
  /\ serve' = [serve EXCEPT ![c] = "run"]
  /\ socket' = [socket EXCEPT ![c] = "open"]
  /\ writer' = writer \cup {c} /\ reader' = reader \cup {c}
  /\ UNCHANGED <<main, signalled, listener, acceptor, outgoing, rpc, gateway, calls, written,
                 told>>

\* The goroutine with the ticker: Shutdown.
ListenerCloses ==
  /\ ~Over /\ CtxDone /\ listener = "open"
  /\ listener' = "closed"
  /\ UNCHANGED <<main, signalled, acceptor, serve, socket, outgoing, writer, reader, written, told,
                 rpc, gateway, calls>>

\* Accept: net.ErrClosed, or an error of its own such as too many open files.  The
\* goroutine ends and cancels ctx either way.
AcceptFails ==
  /\ ~Over /\ acceptor = "run"
  /\ acceptor' = "ended"
  /\ UNCHANGED <<main, signalled, listener, serve, socket, outgoing, writer, reader, written, told,
                 rpc, gateway, calls>>

\* What is in errChan before serve leaves its select: one error each of tcpOutgoing and
\* tcpIncomming, once they have ended.
Errors(c) == (IF c \in writer THEN 0 ELSE 1) + (IF c \in reader THEN 0 ELSE 1)

\* serve leaves its select.
Leaves(c) ==
  /\ serve' = [serve EXCEPT ![c] = "leave"]
  /\ UNCHANGED <<main, signalled, listener, acceptor, outgoing, writer, written, told, rpc, gateway,
                 calls>>

\* Mutant: the sessions do not look at the context of the server.
ServeCtxDone_Blind(c) ==
  /\ ~Over /\ serve[c] = "run" /\ signalled
  /\ Leaves(c)
  /\ socket' = [socket EXCEPT ![c] = "closed"]
  /\ reader' = reader \ {c}

\* serveCtx.Done: the context of the server, or another session of the device takes
\* over.  The socket is closed, and the read of tcpIncomming fails.
ServeCtxDone(c) ==
  /\ ~Over /\ serve[c] = "run"
  /\ Leaves(c)
  /\ socket' = [socket EXCEPT ![c] = "closed"]
  /\ reader' = reader \ {c}

\* An error of tcpIncomming or tcpOutgoing: the socket stays open until the end.
ServeError(c) ==
  /\ ~Over /\ serve[c] = "run" /\ Errors(c) > 0
  /\ Leaves(c)
  /\ UNCHANGED <<socket, reader>>

\* The verify timer or the heartbeat ticker: on to the push of its error,
ServeTimer(c) ==
  /\ ~Over /\ serve[c] = "run"
  /\ serve' = [serve EXCEPT ![c] = "timer"]
  /\ UNCHANGED <<main, signalled, listener, acceptor, socket, outgoing, writer, reader, written, told,
                 rpc, gateway, calls>>

\* into the channel that only serve receives from.
ServePushErr(c) ==
  /\ ~Over /\ serve[c] = "timer" /\ Errors(c) < ErrChanSize
  /\ Leaves(c)
  /\ UNCHANGED <<socket, reader>>

Observing == {"sending", "waiting", "observing", "frame", "last"}
Observers(c) == {u \in Observer : of[u] = c /\ handler[u] \in Observing}

\* Mutant: the observers are not told.
ServeTells_None(c) ==
  /\ ~Over /\ serve[c] = "leave"
  /\ serve' = [serve EXCEPT ![c] = "told"]
  /\ UNCHANGED <<main, signalled, listener, acceptor, socket, outgoing, writer, reader, written, told,
                 rpc, gateway, calls>>

\* Deferred: observaStore.Range, then delSession.
ServeTells(c) ==
  /\ ~Over /\ serve[c] = "leave"
  /\ serve' = [serve EXCEPT ![c] = "told"]
  /\ told' = told \cup Observers(c)
  /\ UNCHANGED <<main, signalled, listener, acceptor, socket, outgoing, writer, reader, written, rpc,
                 gateway, calls>>

\* Deferred: conn.Close and wait.Done.
ServeEnds(c) ==
  /\ ~Over /\ serve[c] = "told"
  /\ serve' = [serve EXCEPT ![c] = "ended"]
  /\ socket' = [socket EXCEPT ![c] = "closed"]
  /\ reader' = reader \ {c}
  /\ UNCHANGED <<main, signalled, listener, acceptor, outgoing, writer, written, told,
                 rpc, gateway, calls>>

\* tcpOutgoing: takes a message and writes it,
Writes(c) ==
  /\ ~Over /\ c \in writer /\ socket[c] = "open"
  /\ \E u \in outgoing[c] :
       /\ outgoing' = [outgoing EXCEPT ![c] = @ \ {u}]
       /\ written' = IF handler[u] = "waiting" THEN written \cup {u} ELSE written
  /\ UNCHANGED <<main, signalled, listener, acceptor, serve, socket, writer, reader, told, rpc,
                 gateway, calls>>

\* or ends: the write has failed, and its message is gone; or by serveCtx.  That may
\* wait until serve has left too, for it does nothing before.
WriterExits(c) ==
  /\ ~Over /\ c \in writer
  /\ writer' = writer \ {c}
  /\ \/ UNCHANGED outgoing
     \/ \E u \in outgoing[c] : outgoing' = [outgoing EXCEPT ![c] = @ \ {u}]
  /\ UNCHANGED <<main, signalled, listener, acceptor, serve, socket, written, told, reader,
                 rpc, gateway, calls>>

\* tcpIncomming: the read fails, or a message is not understood.
ReaderExits(c) ==
  /\ ~Over /\ c \in reader
  /\ reader' = reader \ {c}
  /\ UNCHANGED <<main, signalled, listener, acceptor, serve, socket, outgoing, writer, written, told,
                 rpc, gateway, calls>>

-----------------------------------------------------------------------------
(* The RPC server and the gateway.                                          *)

\* The goroutine of InitRPCServer: GracefulStop, no new request gets in.
GracefulStop ==
  /\ ~Over /\ signalled
  /\ \/ rpc = "serving" /\ rpc' = "stopping"
     \/ rpc = "failed" /\ rpc' = "left"
  /\ UNCHANGED <<main, signalled, gateway, tcp, calls>>

\* Mutant: Stop instead of GracefulStop.
RPCStops_AtOnce ==
  /\ ~Over /\ rpc = "stopping"
  /\ rpc' = "stopped"
  /\ UNCHANGED <<main, signalled, gateway, tcp, calls>>

\* ... Serve returns when the handlers have.
RPCStops ==
  /\ ~Over /\ rpc = "stopping"
  /\ \A u \in User : handler[u] \in {"idle", "done"}
  /\ rpc' = "stopped"
  /\ UNCHANGED <<main, signalled, gateway, tcp, calls>>

\* Serve returns by itself, for an error of Accept: the listener is closed, but the
\* connections there are keep their handlers and may bring new requests.
RPCFails ==
  /\ ~Over /\ rpc = "serving"
  /\ rpc' = "failed"
  /\ UNCHANGED <<main, signalled, gateway, tcp, calls>>

\* Shutdown with a context that is done waits for nobody; or ListenAndServe fails.
GatewayCloses ==
  /\ ~Over /\ gateway = "serving"
  /\ gateway' = "closed"
  /\ UNCHANGED <<main, signalled, rpc, tcp, calls>>

-----------------------------------------------------------------------------
(* The handlers: Get and Post, and ObGet of the observers.                  *)

\* sessions.Get finds the session, or the device is offline.
Finds(u) ==
  /\ ~Over /\ rpc \in {"serving", "failed"} /\ handler[u] = "idle"
  /\ \/ \E c \in {x \in Conn : serve[x] \notin {"none", "told", "ended"}} :
          /\ handler' = [handler EXCEPT ![u] = "found"]
          /\ of' = [of EXCEPT ![u] = c]
     \/ /\ handler' = [handler EXCEPT ![u] = "done"]
        /\ UNCHANGED of
  /\ UNCHANGED <<main, signalled, rpc, gateway, tcp, late, stalled>>

\* A step of a handler; when it returns it lets go of its session.
Moves(u, from, to) ==
  /\ ~Over /\ handler[u] \in from
  /\ handler' = [handler EXCEPT ![u] = to]
  /\ of' = IF to = "done" THEN [of EXCEPT ![u] = NoConn] ELSE of
  /\ stalled' = IF to = "done" THEN stalled \ {u} ELSE stalled
  /\ late' = IF to \in {"last", "done"} THEN late \ {u}
             ELSE IF to = "sending" /\ u \in Observer /\ serve[of[u]] \in {"told", "ended"}
             THEN late \cup {u}
             ELSE late
  /\ UNCHANGED <<main, signalled, rpc, gateway>>

\* ObGet: CreateObserva; Get and Post: nothing yet.
Starts(u) == Moves(u, {"found"}, "sending") /\ UNCHANGED tcp

\* outgoingChan <- buf
Sends(u) ==
  /\ Moves(u, {"sending"}, "waiting")
  /\ Cardinality(outgoing[of[u]]) < QueueSize
  /\ outgoing' = [outgoing EXCEPT ![of[u]] = @ \cup {u}]
  /\ UNCHANGED <<listener, acceptor, serve, socket, writer, reader, written, told>>

\* The deferred sendIDStore.Del.
Forgets(u) ==
  /\ written' = written \ {u}
  /\ UNCHANGED <<listener, acceptor, serve, socket, outgoing, writer, reader, told>>

\* The device answers; an observer goes on or gets its error.
Answered(u) ==
  /\ handler[u] = "waiting" /\ u \in written /\ of[u] \in reader /\ socket[of[u]] = "open"
  /\ IF u \notin Observer THEN Moves(u, {"waiting"}, "done")
     ELSE \E to \in {"observing", "last"} : Moves(u, {"waiting"}, to)
  /\ Forgets(u)

\* After 10 s or, for an observer, 20 s.
TimesOut(u) ==
  /\ Moves(u, {"waiting"}, IF u \notin Observer THEN "done" ELSE "last")
  /\ Forgets(u)

\* obGetNotifyServe: a notification of the device,
Notified(u) ==
  /\ handler[u] = "observing" /\ of[u] \in reader /\ socket[of[u]] = "open"
  /\ \E to \in {"frame", "last"} : Moves(u, {"observing"}, to)
  /\ UNCHANGED tcp

\* SessionDoneChan,
SessionDone(u) ==
  /\ u \in told
  /\ Moves(u, {"observing"}, "last")
  /\ told' = told \ {u}
  /\ UNCHANGED <<listener, acceptor, serve, socket, outgoing, writer, reader, written>>

\* or the context of the stream, which also ends a stream.Send.
UserLeaves(u) == Moves(u, {"observing", "frame", "last"}, "done") /\ UNCHANGED tcp

\* stream.Send goes through.
UserReads(u) ==
  /\ u \notin stalled
  /\ Moves(u, {"frame", "last"}, IF handler[u] = "frame" THEN "observing" ELSE "done")
  /\ UNCHANGED tcp

UserStalls(u) ==
  /\ ~Over /\ u \notin stalled /\ handler[u] \in {"observing", "frame"}
  /\ stalled' = stalled \cup {u}
  /\ UNCHANGED <<main, signalled, rpc, gateway, tcp, handler, of, late>>

-----------------------------------------------------------------------------
Next ==
  \/ Signal \/ InitTCPServer \/ InitRPCServer \/ InitUserGateway \/ InitFails \/ MainExits
  \/ DeviceAccessStarted \/ UserAccessStarted
  \/ ListenerCloses \/ AcceptFails \/ GracefulStop \/ RPCStops \/ RPCFails
  \/ GatewayCloses
  \/ \E c \in Conn : Accepts(c)
  \/ \E c \in Conn : ServeCtxDone(c)
  \/ \E c \in Conn : ServeError(c)
  \/ \E c \in Conn : ServeTimer(c)
  \/ \E c \in Conn : ServePushErr(c)
  \/ \E c \in Conn : ServeTells(c)
  \/ \E c \in Conn : ServeEnds(c)
  \/ \E c \in Conn : Writes(c)
  \/ \E c \in Conn : WriterExits(c)
  \/ \E c \in Conn : ReaderExits(c)
  \/ \E u \in User : Finds(u)
  \/ \E u \in User : Starts(u)
  \/ \E u \in User : Sends(u)
  \/ \E u \in User : Answered(u)
  \/ \E u \in User : TimesOut(u)
  \/ \E u \in User : Notified(u)
  \/ \E u \in User : SessionDone(u)
  \/ \E u \in User : UserLeaves(u)
  \/ \E u \in User : UserReads(u)
  \/ \E u \in User : UserStalls(u)

Spec == Init /\ [][Next]_vars

\* The goroutines get their turn, timers run off, a user that has not stalled reads.
\* A write to a closed socket fails.  Nothing is assumed of the signal, of the devices,
\* which may stop reading, of when users leave, or of the process that a useraccess
\* dials.
Fairness ==
  /\ WF_vars(\/ InitTCPServer \/ InitRPCServer \/ InitUserGateway \/ DeviceAccessStarted
             \/ (signalled /\ InitFails))
  /\ WF_vars(MainExits) /\ WF_vars(ListenerCloses)
  /\ WF_vars(listener = "closed" /\ AcceptFails)
  /\ WF_vars(GracefulStop) /\ WF_vars(RPCStops) /\ WF_vars(signalled /\ GatewayCloses)
  /\ \A c \in Conn :
       /\ WF_vars((CtxDone /\ ServeCtxDone(c)) \/ ServeError(c)) /\ WF_vars(ServePushErr(c))
       /\ WF_vars(ServeTells(c)) /\ WF_vars(ServeEnds(c))
       /\ WF_vars(socket[c] = "closed" /\ outgoing[c] # {} /\ WriterExits(c))
  /\ \A u \in User :
       /\ WF_vars(Starts(u)) /\ WF_vars(Sends(u)) /\ WF_vars(TimesOut(u))
       /\ WF_vars(SessionDone(u)) /\ WF_vars(UserReads(u))

FairSpec == Spec /\ Fairness

-----------------------------------------------------------------------------
(* Properties.                                                              *)

\* When main comes back from wait.Wait, no session still has its deferred work before
\* it, no socket of a device is open, no server takes anything new, and no request is
\* half dealt with, unless the Serve of gRPC had returned by itself, which nobody
\* waits for the handlers of.
ExitClean ==
  main = "exited" =>
    /\ rpc \notin {"failed", "left"} => \A u \in User : handler[u] \in {"idle", "done"}
    /\ \A c \in Conn : serve[c] \in {"none", "ended"} /\ socket[c] = "closed"
    /\ acceptor # "run" /\ rpc \notin {"serving", "stopping"} /\ gateway # "serving"

\* serve waits for ever for room in the channel that only it empties.
Stuck(c) == serve[c] = "timer" /\ Errors(c) = ErrChanSize

\* What else may keep the process from ending: a handler before the full queue of a
\* session whose tcpOutgoing has gone; an observer that came after its session had
\* told the others; a stream whose user reads no more.
Hung(u) ==
  \/ handler[u] = "sending" /\ of[u] \notin writer /\ Cardinality(outgoing[of[u]]) = QueueSize
  \/ handler[u] = "observing" /\ u \in late
  \/ handler[u] \in {"frame", "last"} /\ u \in stalled

\* After SIGTERM the process ends, unless one of these handlers hangs for ever, or a
\* session before its own errChan.
Exits == signalled ~> Over \/ [](\E u \in User : Hung(u)) \/ \E c \in Conn : Stuck(c)

\* When nobody accepts devices any more, for whatever reason, no session goes on, but
\* one that waits before its own errChan.
SessionsEnd ==
  acceptor = "ended" ~> Over \/ \A c \in Conn : serve[c] \in {"none", "ended"} \/ Stuck(c)
=============================================================================

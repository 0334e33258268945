---------------------------- MODULE ShutdownProofs ----------------------------
(***************************************************************************)
(* main comes back from wait.Wait only when everything it started has come *)
(* to its end, for any number of connections and requests.                 *)
(***************************************************************************)
EXTENDS Shutdown, TLAPS

Types ==
  /\ serve \in [Conn -> {"none", "run", "timer", "leave", "told", "ended"}]
  /\ socket \in [Conn -> {"open", "closed"}]
  /\ handler \in [User -> {"idle", "found", "done"} \cup Observing]
  /\ rpc \in {"none", "serving", "failed", "stopping", "left", "stopped"}

\* GracefulStop has waited, and nothing gets in after it, nor before the server starts.
Drained == rpc \in {"none", "stopped"} => \A u \in User : handler[u] \in {"idle", "done"}

\* A socket is open only while its session has serve.
Served == \A c \in Conn : serve[c] \in {"none", "ended"} => socket[c] = "closed"

Waited ==
  main = "exited" => TCPDone /\ rpc \notin {"serving", "stopping"} /\ gateway # "serving"

IInv == Types /\ Drained /\ Served /\ Waited

\* The invariant holds at first.
LEMMA InitIInv == Init => IInv
  BY DEF Init, IInv, Types, Drained, Served, Waited

\* A step of a handler leaves every other where it is.
LEMMA MovesIInv ==
  ASSUME IInv, NEW u \in User, NEW from, NEW to, Moves(u, from, to),
         from \cap {"idle", "done"} = {},
         to \in {"idle", "found", "done"} \cup Observing,
         serve' = serve, socket' = socket, listener' = listener, acceptor' = acceptor
  PROVE  IInv'
<1>1. /\ ~Over /\ handler[u] \in from /\ handler' = [handler EXCEPT ![u] = to]
      /\ main' = main /\ rpc' = rpc /\ gateway' = gateway
  BY DEF Moves
<1>2. Types'
  BY <1>1 DEF IInv, Types
<1>3. Drained'
  <2>1. handler[u] \notin {"idle", "done"}
    BY <1>1
  <2>2. rpc \notin {"none", "stopped"}
    BY <2>1 DEF IInv, Drained
  <2>3. QED BY <1>1, <2>2 DEF Drained
<1>4. Served' /\ Waited'
  BY <1>1 DEF IInv, Served, Waited, TCPDone
<1>5. QED BY <1>2, <1>3, <1>4 DEF IInv

\* A step of the sessions and their goroutines while the process runs.
LEMMA TCPIInv ==
  ASSUME IInv, ~Over, UNCHANGED <<main, rpc, gateway, calls>>, Types', Served',
         listener' = listener \/ listener' = "closed"
  PROVE  IInv'
  BY DEF IInv, Over, calls, Drained, Waited

\* The steps of main,
LEMMA MainStep ==
  ASSUME IInv, \/ Signal \/ InitTCPServer \/ InitRPCServer \/ InitUserGateway \/ InitFails
               \/ MainExits \/ DeviceAccessStarted \/ UserAccessStarted
  PROVE  IInv'
<1>1. UNCHANGED <<serve, socket, handler>>
  BY DEF Signal, InitTCPServer, InitRPCServer, InitUserGateway, InitFails, MainExits,
         DeviceAccessStarted, UserAccessStarted, tcp, calls
<1>a. rpc' \in {rpc, "serving"}
  BY DEF Signal, InitTCPServer, InitRPCServer, InitUserGateway, InitFails, MainExits,
         DeviceAccessStarted, UserAccessStarted
<1>2. Types' /\ Served'
  BY <1>1, <1>a DEF IInv, Types, Served
<1>3. CASE Signal
  BY <1>2, <1>3 DEF Signal, IInv, Drained, Waited, TCPDone, tcp, calls
<1>4. CASE InitTCPServer
  BY <1>2, <1>4 DEF InitTCPServer, IInv, Drained, Waited, calls
<1>5. CASE InitRPCServer
  BY <1>2, <1>5 DEF InitRPCServer, IInv, Drained, Waited, tcp
<1>6. CASE InitUserGateway
  BY <1>2, <1>6 DEF InitUserGateway, IInv, Drained, Waited, tcp, calls
<1>7. CASE InitFails
  BY <1>2, <1>7 DEF InitFails, IInv, Drained, Waited, tcp, calls
<1>8. CASE MainExits
  BY <1>2, <1>8 DEF MainExits, IInv, Drained, Waited, TCPDone, tcp, calls
<1>9. CASE DeviceAccessStarted \/ UserAccessStarted
  BY <1>2, <1>9 DEF DeviceAccessStarted, UserAccessStarted, IInv, Drained, Waited, tcp, calls
<1>10. QED BY <1>3, <1>4, <1>5, <1>6, <1>7, <1>8, <1>9

\* of the RPC server and the gateway,
LEMMA RPCStep ==
  ASSUME IInv, GracefulStop \/ RPCStops \/ RPCFails \/ GatewayCloses
  PROVE  IInv'
<1>1. /\ ~Over /\ UNCHANGED <<main, serve, socket, handler, listener, acceptor>>
      /\ Drained'
      /\ gateway' \in {gateway, "closed"}
      /\ rpc' \in {rpc, "stopping", "left", "stopped", "failed"}
  BY DEF IInv, GracefulStop, RPCStops, RPCFails, GatewayCloses, Drained, tcp, calls
<1>2. Types' /\ Served' /\ Waited'
  BY <1>1 DEF IInv, Types, Served, Waited, Over
<1>3. QED BY <1>1, <1>2 DEF IInv, Drained

\* of a session,
LEMMA SessionStep ==
  ASSUME IInv, NEW c \in Conn,
         \/ Accepts(c) \/ ServeCtxDone(c) \/ ServeError(c) \/ ServeTimer(c) \/ ServePushErr(c)
         \/ ServeTells(c) \/ ServeEnds(c) \/ Writes(c) \/ WriterExits(c) \/ ReaderExits(c)
  PROVE  IInv'
<1>1. ~Over /\ UNCHANGED <<main, rpc, gateway, calls>> /\ (listener' = listener \/ listener' = "closed")
  BY DEF Accepts, ServeCtxDone, ServeError, ServeTimer, ServePushErr, ServeTells, ServeEnds, Writes,
         WriterExits, ReaderExits, Leaves, calls
<1>2. Types' /\ Served'
  <2>1. CASE Accepts(c)
    BY <2>1 DEF Accepts, IInv, Types, Served, calls
  <2>2. CASE ServeCtxDone(c)
    BY <2>2 DEF ServeCtxDone, Leaves, IInv, Types, Served, calls
  <2>3. CASE ServeError(c) \/ ServeTimer(c) \/ ServePushErr(c)
    BY <2>3 DEF ServeError, ServeTimer, ServePushErr, Leaves, IInv, Types, Served, calls
  <2>4. CASE ServeTells(c)
    BY <2>4 DEF ServeTells, IInv, Types, Served, calls
  <2>5. CASE ServeEnds(c)
    BY <2>5 DEF ServeEnds, IInv, Types, Served, calls
  <2>6. CASE Writes(c) \/ WriterExits(c) \/ ReaderExits(c)
    BY <2>6 DEF Writes, WriterExits, ReaderExits, IInv, Types, Served, calls
  <2>7. QED BY <2>1, <2>2, <2>3, <2>4, <2>5, <2>6
<1>3. QED BY <1>1, <1>2, TCPIInv

\* and of a handler keep the invariant.
LEMMA HandlerStep ==
  ASSUME IInv, NEW u \in User,
         \/ Finds(u) \/ Starts(u) \/ Sends(u) \/ Answered(u) \/ TimesOut(u) \/ Notified(u)
         \/ SessionDone(u) \/ UserLeaves(u) \/ UserReads(u) \/ UserStalls(u)
  PROVE  IInv'
<1>1. CASE Finds(u)
  <2>1. ~Over /\ rpc \in {"serving", "failed"}
        /\ UNCHANGED <<main, rpc, gateway, serve, socket, listener, acceptor>>
    BY <1>1 DEF Finds, tcp
  <2>2. Types'
    BY <1>1, <2>1 DEF Finds, IInv, Types
  <2>3. QED BY <2>1, <2>2 DEF IInv, Over, Drained, Served, Waited
<1>2. CASE UserStalls(u)
  BY <1>2 DEF UserStalls, IInv, Types, Drained, Served, Waited, TCPDone, tcp
<1>3. CASE \/ Starts(u) \/ Sends(u) \/ Answered(u) \/ TimesOut(u) \/ Notified(u)
           \/ SessionDone(u) \/ UserLeaves(u) \/ UserReads(u)
  <2>1. UNCHANGED <<serve, socket, listener, acceptor>>
    BY <1>3 DEF Starts, Sends, Answered, TimesOut, Notified, SessionDone, UserLeaves, UserReads,
                Forgets, tcp
  <2>2. \E from \in SUBSET ({"found"} \cup Observing), to \in {"done"} \cup Observing :
          Moves(u, from, to)
    <3>1. CASE Starts(u)
      BY <3>1 DEF Starts, Observing
    <3>2. CASE Sends(u)
      BY <3>2 DEF Sends, Observing
    <3>3. CASE Answered(u)
      BY <3>3 DEF Answered, Observing
    <3>4. CASE TimesOut(u)
      BY <3>4 DEF TimesOut, Observing
    <3>5. CASE Notified(u)
      BY <3>5 DEF Notified, Observing
    <3>6. CASE SessionDone(u)
      BY <3>6 DEF SessionDone, Observing
    <3>7. CASE UserLeaves(u)
      BY <3>7 DEF UserLeaves, Observing
    <3>8. CASE UserReads(u)
      BY <3>8 DEF UserReads, Observing
    <3>9. QED BY <1>3, <3>1, <3>2, <3>3, <3>4, <3>5, <3>6, <3>7, <3>8
  <2>3. PICK from \in SUBSET ({"found"} \cup Observing), to \in {"done"} \cup Observing :
          Moves(u, from, to)
    BY <2>2
  <2>4. from \cap {"idle", "done"} = {}
    BY <2>3 DEF Observing
  <2>5. QED BY <2>1, <2>3, <2>4, MovesIInv
<1>4. QED BY <1>1, <1>2, <1>3

\* Every step keeps the invariant.
LEMMA NextIInv == IInv /\ [Next]_vars => IInv'
<1>1. ASSUME IInv, UNCHANGED vars PROVE IInv'
  BY <1>1 DEF vars, tcp, calls, IInv, Types, Drained, Served, Waited, TCPDone
<1>2. ASSUME IInv, ListenerCloses \/ AcceptFails PROVE IInv'
  <2>1. ~Over /\ UNCHANGED <<main, rpc, gateway, calls>> /\ (listener' = listener \/ listener' = "closed")
    BY <1>2 DEF ListenerCloses, AcceptFails
  <2>2. Types' /\ Served'
    BY <1>2 DEF ListenerCloses, AcceptFails, IInv, Types, Served, calls
  <2>3. QED BY <1>2, <2>1, <2>2, TCPIInv
<1>3. QED BY <1>1, <1>2, MainStep, RPCStep, SessionStep, HandlerStep DEF Next

\* After SIGTERM nothing is left half done, unless grpc Serve had failed by itself:
\* ServerTCP.wait, grpc Serve and the wait of main are passed in this order only.
THEOREM CleanExit == Spec => []ExitClean
<1>1. IInv => ExitClean
  BY DEF IInv, Types, Drained, Served, Waited, TCPDone, ExitClean
<1>2. QED BY <1>1, InitIInv, NextIInv, PTL DEF Spec
=============================================================================

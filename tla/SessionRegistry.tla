--------------------------- MODULE SessionRegistry ---------------------------
(***************************************************************************)
(* The registry of live device sessions on the access server, and the      *)
(* connections that enter and leave it                                     *)
(* (src/internal/deviceaccess/access_server/devicetcp: devicetcp.go,       *)
(* sessionmap.go and the parts of session.go that call them).              *)
(*                                                                         *)
(* Two goroutines of a connection touch the registry.  tcpIncomming runs   *)
(* AddSession when a verify request passes: it cancels the session that is *)
(* registered under the same identity, waits for its done token and takes  *)
(* its place.  serve deletes the entry when it returns and then gives the  *)
(* token away.  Why and when serve returns is the subject of SessionServe; *)
(* here an error or a timeout may end it at any time.                      *)
(***************************************************************************)
EXTENDS Integers, FiniteSets

CONSTANTS
  Conn,       \* accepted connections; one *Session each
  Device,     \* device identities
  NoConn,     \* "no entry" of SessionMap, and a nil invalid session
  NoDevice,   \* the empty deviceID of a session that has not verified
  Claims,     \* Claims[c]: the identities the peer of c may verify as
  MaxVerify,  \* bound: MaxVerify[c] DeviceVerifyReq messages arrive on c
  MayStop     \* bound: whether the server is shut down in this instance

ASSUME ConnAssumption == NoConn \notin Conn
ASSUME DeviceAssumption == NoDevice \notin Device
ASSUME ClaimsAssumption == Claims \in [Conn -> SUBSET Device]
ASSUME MaxVerifyAssumption == MaxVerify \in [Conn -> Nat]
ASSUME MayStopAssumption == MayStop \in BOOLEAN

VARIABLES
  server,       \* "up", "stopping" (context cancelled), "closed" (listener closed)
  serve,        \* serve[c]: where the goroutine Session.serve of c is
  incoming,     \* incoming[c]: where tcpIncomming of c is
  cancelled,    \* cancelled[c]: Cancel() was called on the session
  conn,         \* conn[c]: "none", "open" or "closed" by this server
  verifies,     \* verifies[c]: DeviceVerifyReq messages received
  reqID,        \* reqID[c]: the identity in the request under verification
  verifyPass,   \* Session.verifyPass
  deviceID,     \* Session.deviceID
  invalid,      \* invalid[c]: local of AddSession, the session it replaces
  done,         \* done[c]: the token of Session.done is in its channel
  sessions,     \* SessionMap.store
  sessionNum,   \* ServerTCP.sessionNum
  created,      \* history: c has put itself into SessionMap
  raced         \* history: devices whose registrations overlapped, see Races

connVars == <<server, serve, conn>>
verifyVars == <<verifies, reqID, verifyPass, deviceID>>
mapVars == <<sessions, sessionNum, created>>
vars == <<connVars, incoming, cancelled, verifyVars, invalid, done, mapVars, raced>>

ServeStates == {"none", "select", "errpush", "deferred", "signal", "close", "ended"}
Adding == {"get", "cancel", "wait", "set"}
IncomingStates == {"none", "read", "verify", "exit"} \cup Adding

TypeOK ==
  /\ server \in {"up", "stopping", "closed"}
  /\ serve \in [Conn -> ServeStates]
  /\ incoming \in [Conn -> IncomingStates]
  /\ cancelled \in [Conn -> BOOLEAN]
  /\ conn \in [Conn -> {"none", "open", "closed"}]
  /\ verifies \in [Conn -> Nat] /\ \A c \in Conn : verifies[c] <= MaxVerify[c]
  /\ reqID \in [Conn -> Device \cup {NoDevice}]
  /\ verifyPass \in [Conn -> BOOLEAN]
  /\ deviceID \in [Conn -> Device \cup {NoDevice}]
  /\ invalid \in [Conn -> Conn \cup {NoConn}]
  /\ done \in [Conn -> BOOLEAN]
  /\ sessions \in [Device -> Conn \cup {NoConn}]
  /\ sessionNum \in Int
  /\ created \in [Conn -> BOOLEAN]
  /\ raced \in SUBSET Device

Init ==
  /\ server = "up"
  /\ serve = [c \in Conn |-> "none"]
  /\ incoming = [c \in Conn |-> "none"]
  /\ cancelled = [c \in Conn |-> FALSE]
  /\ conn = [c \in Conn |-> "none"]
  /\ verifies = [c \in Conn |-> 0]
  /\ reqID = [c \in Conn |-> NoDevice]
  /\ verifyPass = [c \in Conn |-> FALSE]
  /\ deviceID = [c \in Conn |-> NoDevice]
  /\ invalid = [c \in Conn |-> NoConn]
  /\ done = [c \in Conn |-> FALSE]
  /\ sessions = [d \in Device |-> NoConn]
  /\ sessionNum = 0
  /\ created = [c \in Conn |-> FALSE]
  /\ raced = {}

\* serveCtx of c is done: its own cancel, or the parent's.
CtxDone(c) == cancelled[c] \/ server # "up"

-----------------------------------------------------------------------------
(* The listener.                                                            *)

\* The context of the server is cancelled.
Stop ==
  /\ MayStop
  /\ server = "up"
  /\ server' = "stopping"
  /\ UNCHANGED <<serve, conn, incoming, cancelled, verifyVars, invalid, done, mapVars, raced>>

\* Shutdown closes the listener, or Accept fails and the accept loop cancels
\* the context on its way out.
ListenerClose ==
  /\ MayStop
  /\ server # "closed"
  /\ server' = "closed"
  /\ UNCHANGED <<serve, conn, incoming, cancelled, verifyVars, invalid, done, mapVars, raced>>

\* Accept returns a connection; serve starts tcpIncomming and waits.
Accept(c) ==
  /\ server # "closed"
  /\ serve[c] = "none"
  /\ serve' = [serve EXCEPT ![c] = "select"]
  /\ incoming' = [incoming EXCEPT ![c] = "read"]
  /\ conn' = [conn EXCEPT ![c] = "open"]
  /\ UNCHANGED <<server, cancelled, verifyVars, invalid, done, mapVars, raced>>

-----------------------------------------------------------------------------
(* Races.  Nothing in the code orders the registrations of two connections  *)
(* of one device, nor a registration and the exit of its own serve.  The    *)
(* history variable raced collects the devices for which that happened; no  *)
(* guard reads it.                                                          *)

\* serve of c leaves its select while c is inside AddSession.
RacesOnExit(c) == IF incoming[c] \in Adding THEN {deviceID[c]} ELSE {}

\* c starts AddSession under d while another connection is inside AddSession
\* under d, or after c's own serve left its select, or for the second time.
RacesOnAdd(c, d) ==
  IF \/ \E other \in Conn \ {c} : incoming[other] \in Adding /\ deviceID[other] = d
     \/ serve[c] # "select"
     \/ verifyPass[c]
  THEN {d, deviceID[c]} \ {NoDevice}
  ELSE {}

-----------------------------------------------------------------------------
(* serve: one select, then the deferred calls in reverse order.             *)

ServeMoves(c, from, to) ==
  /\ serve[c] = from
  /\ serve' = [serve EXCEPT ![c] = to]
  /\ UNCHANGED <<server, incoming, cancelled, verifyVars, invalid, created>>

\* case err := <-errChan: tcpIncomming or tcpOutgoing failed.
ServeError(c) ==
  /\ serve[c] = "select"
  /\ serve' = [serve EXCEPT ![c] = "deferred"]
  /\ cancelled' = [cancelled EXCEPT ![c] = TRUE]
  /\ raced' = raced \cup RacesOnExit(c)
  /\ UNCHANGED <<server, conn, incoming, verifyVars, invalid, done, mapVars>>

\* case <-serveCtx.Done()
ServeCtxDone(c) ==
  /\ CtxDone(c)
  /\ ServeMoves(c, "select", "deferred")
  /\ conn' = [conn EXCEPT ![c] = "closed"]
  /\ raced' = raced \cup RacesOnExit(c)
  /\ UNCHANGED <<done, sessions, sessionNum>>

\* case <-verifyTimer.C, case <-heartbeatTimer.C: serve sends to errChan.
ServeTimeout(c) ==
  /\ ServeMoves(c, "select", "errpush")
  /\ raced' = raced \cup RacesOnExit(c)
  /\ UNCHANGED <<conn, done, sessions, sessionNum>>

\* The send goes through.  It need not: SessionServe tells when.
ServePushErr(c) ==
  /\ ServeMoves(c, "errpush", "deferred")
  /\ UNCHANGED <<conn, done, sessions, sessionNum, raced>>

\* if s.verifyPass { delSession(s.deviceID) }.  DelSession is two atomic
\* operations on cells that nobody reads together.
ServeDelSession(c) ==
  /\ ServeMoves(c, "deferred", "signal")
  /\ sessions' = IF verifyPass[c] THEN [sessions EXCEPT ![deviceID[c]] = NoConn]
                                  ELSE sessions
  /\ sessionNum' = IF verifyPass[c] THEN sessionNum - 1 ELSE sessionNum
  /\ UNCHANGED <<conn, done, raced>>

\* Mutant: the deferred send of the token is missing.
ServeDone_NoToken(c) ==
  /\ ServeMoves(c, "signal", "close")
  /\ UNCHANGED <<conn, done, sessions, sessionNum, raced>>

\* s.done <- struct{}{}
ServeDone(c) ==
  /\ ServeMoves(c, "signal", "close")
  /\ done' = [done EXCEPT ![c] = TRUE]
  /\ UNCHANGED <<conn, sessions, sessionNum, raced>>

\* The deferred s.conn.Close() and wait.Done().
ServeClose(c) ==
  /\ ServeMoves(c, "close", "ended")
  /\ conn' = [conn EXCEPT ![c] = "closed"]
  /\ UNCHANGED <<done, sessions, sessionNum, raced>>

-----------------------------------------------------------------------------
(* tcpIncomming.                                                            *)

IncomingMoves(c, from, to) ==
  /\ incoming[c] = from
  /\ incoming' = [incoming EXCEPT ![c] = to]
  /\ UNCHANGED connVars

\* The loop sees that serveCtx is done, or a read or a handler fails.
IncomingExits(c) ==
  /\ IncomingMoves(c, "read", "exit")
  /\ UNCHANGED <<cancelled, verifyVars, invalid, done, mapVars, raced>>

\* A DeviceVerifyReq arrives and goes to the device verifier.
VerifyRecv(c, d) ==
  /\ IncomingMoves(c, "read", "verify")
  /\ conn[c] = "open"
  /\ verifies[c] < MaxVerify[c]
  /\ d \in Claims[c]
  /\ verifies' = [verifies EXCEPT ![c] = @ + 1]
  /\ reqID' = [reqID EXCEPT ![c] = d]
  /\ UNCHANGED <<cancelled, verifyPass, deviceID, invalid, done, mapVars, raced>>

\* Mutant: a refusal takes an earlier pass back.
VerifyRefused_Clears(c) ==
  /\ IncomingMoves(c, "verify", "read")
  /\ reqID' = [reqID EXCEPT ![c] = NoDevice]
  /\ verifyPass' = [verifyPass EXCEPT ![c] = FALSE]
  /\ UNCHANGED <<cancelled, verifies, deviceID, invalid, done, mapVars, raced>>

\* Refused: the session keeps what it had, and the connection stays.
VerifyRefused(c) ==
  /\ IncomingMoves(c, "verify", "read")
  /\ reqID' = [reqID EXCEPT ![c] = NoDevice]
  /\ UNCHANGED <<cancelled, verifies, verifyPass, deviceID, invalid, done, mapVars, raced>>

\* The Verify call fails: "return s.verifyPass, ..." keeps the earlier verdict,
\* and an earlier pass registers the session again.
VerifyUnavailable(c) ==
  /\ IncomingMoves(c, "verify", IF verifyPass[c] THEN "get" ELSE "read")
  /\ reqID' = [reqID EXCEPT ![c] = NoDevice]
  /\ raced' = raced \cup (IF verifyPass[c] THEN {deviceID[c]} ELSE {})
  /\ UNCHANGED <<cancelled, verifies, verifyPass, deviceID, invalid, done, mapVars>>

\* The Verify call passes, also when the connection has gone meanwhile.
VerifyPassed(c) ==
  /\ IncomingMoves(c, "verify", "get")
  /\ verifyPass' = [verifyPass EXCEPT ![c] = TRUE]
  /\ deviceID' = [deviceID EXCEPT ![c] = reqID[c]]
  /\ reqID' = [reqID EXCEPT ![c] = NoDevice]
  /\ raced' = raced \cup RacesOnAdd(c, reqID[c])
  /\ UNCHANGED <<cancelled, verifies, invalid, done, mapVars>>

-----------------------------------------------------------------------------
(* AddSession, run by tcpIncomming.                                         *)

\* Mutant: the old entry is overwritten without a look at it.
AddGet_Blind(c) ==
  /\ IncomingMoves(c, "get", "set")
  /\ UNCHANGED <<cancelled, verifyVars, invalid, done, mapVars, raced>>

\* invalid, ok := s.sessions.Get(deviceID)
AddGet(c) ==
  LET old == sessions[deviceID[c]] IN
  /\ IncomingMoves(c, "get", IF old = NoConn THEN "set" ELSE "cancel")
  /\ invalid' = [invalid EXCEPT ![c] = old]
  /\ UNCHANGED <<cancelled, verifyVars, done, mapVars, raced>>

\* Mutant: AddSession does not wait for the cancelled session.
AddCancel_NoWait(c) ==
  /\ IncomingMoves(c, "cancel", "set")
  /\ cancelled' = [cancelled EXCEPT ![invalid[c]] = TRUE]
  /\ UNCHANGED <<verifyVars, invalid, done, mapVars, raced>>

\* Mutant: AddSession waits for the old session and forgets to cancel it.
AddCancel_Forgotten(c) ==
  /\ IncomingMoves(c, "cancel", "wait")
  /\ UNCHANGED <<cancelled, verifyVars, invalid, done, mapVars, raced>>

\* invalid.Cancel()
AddCancel(c) ==
  /\ IncomingMoves(c, "cancel", "wait")
  /\ cancelled' = [cancelled EXCEPT ![invalid[c]] = TRUE]
  /\ UNCHANGED <<verifyVars, invalid, done, mapVars, raced>>

\* Mutant: AddSession waits for the cancel of the old session, not for its end.
AddWait_Cancelled(c) ==
  /\ IncomingMoves(c, "wait", "set")
  /\ cancelled[invalid[c]]
  /\ UNCHANGED <<cancelled, verifyVars, invalid, done, mapVars, raced>>

\* <-invalid.Done()
AddWait(c) ==
  /\ IncomingMoves(c, "wait", "set")
  /\ done[invalid[c]]
  /\ done' = [done EXCEPT ![invalid[c]] = FALSE]
  /\ UNCHANGED <<cancelled, verifyVars, invalid, mapVars, raced>>

\* sessionNum, sessions.Set; AddSession and its local are gone.
AddSet(c) ==
  /\ IncomingMoves(c, "set", "read")
  /\ sessions' = [sessions EXCEPT ![deviceID[c]] = c]
  /\ sessionNum' = sessionNum + 1
  /\ created' = [created EXCEPT ![c] = TRUE]
  /\ invalid' = [invalid EXCEPT ![c] = NoConn]
  /\ UNCHANGED <<cancelled, verifyVars, done, raced>>

-----------------------------------------------------------------------------
ServeStep(c) ==
  \/ ServeError(c) \/ ServeCtxDone(c) \/ ServeTimeout(c) \/ ServePushErr(c)
  \/ ServeDelSession(c) \/ ServeDone(c) \/ ServeClose(c)

VerifyStep(c) ==
  \/ IncomingExits(c)
  \/ \E d \in Device : VerifyRecv(c, d)
  \/ VerifyRefused(c) \/ VerifyUnavailable(c) \/ VerifyPassed(c)

AddStep(c) == AddGet(c) \/ AddCancel(c) \/ AddWait(c) \/ AddSet(c)

ConnStep(c) == Accept(c) \/ ServeStep(c) \/ VerifyStep(c) \/ AddStep(c)

Next == Stop \/ ListenerClose \/ \E c \in Conn : ConnStep(c)

Spec == Init /\ [][Next]_vars

\* The scheduler lets serve and AddSession go on.  No fairness for
\* ServePushErr, which may be blocked, nor for devices and the verifier.
Fairness ==
  \A c \in Conn :
    /\ WF_vars(ServeCtxDone(c))
    /\ WF_vars(ServeDelSession(c) \/ ServeDone(c) \/ ServeClose(c))
    /\ WF_vars(AddStep(c))

FairSpec == Spec /\ Fairness

-----------------------------------------------------------------------------
(* Properties.                                                              *)

\* A session that takes over writes its entry only when the session it replaces
\* is past its own DelSession: the late exit of the old session cannot remove
\* its successor.
HandoverOrdered ==
  \A c \in Conn :
    incoming[c] = "set" /\ invalid[c] # NoConn
      => serve[invalid[c]] \in {"close", "ended"}

\* A session is found only under an identity its peer has been verified as.
RegisteredVerified ==
  \A d \in Device :
    sessions[d] # NoConn => verifyPass[sessions[d]] /\ d \in Claims[sessions[d]]

\* As long as the registrations of a device do not overlap, SessionMap holds
\* exactly its session that has been added and not yet deleted: no stale entry,
\* no live session missing, and never two of them.
RegistryExact ==
  \A d \in Device \ raced : \A c \in Conn :
    sessions[d] = c
      <=> /\ created[c]
          /\ deviceID[c] = d
          /\ serve[c] \in {"select", "errpush", "deferred"}

\* The done token that AddSession waits for is still to come or still there:
\* outside of overlaps no third connection has taken it.
DoneNotStolen ==
  \A c \in Conn :
    incoming[c] = "wait" /\ deviceID[c] \notin raced
      => done[invalid[c]] \/ serve[invalid[c]] \notin {"close", "ended"}

\* The registry implements the directory: a hand-over goes through an empty
\* entry, and a session that has left never shows up again.
Directory == INSTANCE DeviceDirectory WITH
  online <- [d \in Device |-> IF d \in raced THEN NoConn ELSE sessions[d]],
  left <- {c \in Conn : created[c] /\ serve[c] \in {"signal", "close", "ended"}},
  lost <- raced

ImplementsDirectory == Directory!Spec

\* A device that comes back on a new connection gets the entry of its old one:
\* the wait for the cancelled session ends, unless registrations overlapped or
\* the old serve hangs in its send to errChan.
HandoverCompletes ==
  \A c \in Conn :
    incoming[c] = "wait"
      ~> \/ incoming[c] # "wait"
         \/ deviceID[c] \in raced
         \/ serve[invalid[c]] = "errpush"

=============================================================================

------------------------ MODULE SessionRegistryProofs ------------------------
(***************************************************************************)
(* Proofs about SessionRegistry, for any number of connections, devices    *)
(* and verify requests: its safety properties from one inductive           *)
(* invariant, and that it implements DeviceDirectory.                      *)
(***************************************************************************)
EXTENDS SessionRegistry, TLAPS

\* A connection under verification names a device its peer may claim, what has
\* been verified is such a device, and a verified session is, or will be, added.
ClaimInv ==
  \A c \in Conn :
    /\ incoming[c] = "verify" => reqID[c] \in Device /\ reqID[c] \in Claims[c]
    /\ verifyPass[c] => deviceID[c] \in Device /\ deviceID[c] \in Claims[c]
    /\ incoming[c] \in Adding => verifyPass[c]
    /\ created[c] => verifyPass[c]
    /\ verifyPass[c] => created[c] \/ incoming[c] \in Adding
    /\ serve[c] = "none" => incoming[c] = "none" /\ ~verifyPass[c]

\* The done token exists only past the deferred DelSession, and whoever passed
\* the wait for it replaces a session that is there.
TokenInv ==
  \A c \in Conn :
    /\ done[c] => serve[c] \in {"close", "ended"}
    /\ incoming[c] \in {"cancel", "wait"} => invalid[c] \in Conn

\* A registration that has not overlapped with anything is the only one of its
\* device; the session it found is the only one it can still find.
SingleInv ==
  \A c \in Conn :
    incoming[c] \in Adding /\ deviceID[c] \notin raced
      => /\ serve[c] = "select"
         /\ ~created[c]
         /\ \A other \in Conn \ {c} :
              ~(incoming[other] \in Adding /\ deviceID[other] = deviceID[c])
         /\ incoming[c] = "set" => sessions[deviceID[c]] = NoConn
         /\ incoming[c] \in {"cancel", "wait"}
              => sessions[deviceID[c]] \in {invalid[c], NoConn}

\* An entry stands under the identity of its session, and a wait is for a
\* session of the same identity whose token nobody has taken, unless
\* registrations of that identity have overlapped.
EntryInv ==
  /\ \A d \in Device : sessions[d] # NoConn
       => deviceID[sessions[d]] \in raced \cup {d}
  /\ \A c \in Conn :
       incoming[c] \in {"cancel", "wait"}
         => /\ verifyPass[invalid[c]]
            /\ deviceID[invalid[c]] \in raced \cup {deviceID[c]}
            /\ deviceID[c] \notin raced
                 => /\ deviceID[invalid[c]] = deviceID[c]
                    /\ done[invalid[c]] \/ serve[invalid[c]] \notin {"close", "ended"}

IInv ==
  /\ TypeOK
  /\ ClaimInv
  /\ TokenInv
  /\ HandoverOrdered
  /\ RegisteredVerified
  /\ SingleInv
  /\ RegistryExact
  /\ EntryInv

-----------------------------------------------------------------------------
\* Every step keeps the variables in their types.
LEMMA TypeStep ==
  ASSUME TypeOK, ClaimInv, [Next]_vars
  PROVE  TypeOK'
<1> USE DEF connVars, verifyVars, mapVars, ServeMoves, IncomingMoves, ServeStates,
            IncomingStates, Adding, TypeOK, ClaimInv
<1>1. CASE Stop
  BY <1>1 DEF Stop
<1>2. CASE ListenerClose
  BY <1>2 DEF ListenerClose
<1>3. ASSUME NEW c \in Conn, Accept(c) PROVE TypeOK'
  BY <1>3 DEF Accept
<1>4. ASSUME NEW c \in Conn, ServeError(c) PROVE TypeOK'
  BY <1>4 DEF ServeError, RacesOnExit
<1>5. ASSUME NEW c \in Conn, ServeCtxDone(c) PROVE TypeOK'
  BY <1>5 DEF ServeCtxDone, RacesOnExit
<1>6. ASSUME NEW c \in Conn, ServeTimeout(c) PROVE TypeOK'
  BY <1>6 DEF ServeTimeout, RacesOnExit
<1>7. ASSUME NEW c \in Conn, ServePushErr(c) PROVE TypeOK'
  BY <1>7 DEF ServePushErr
<1>8. ASSUME NEW c \in Conn, ServeDelSession(c) PROVE TypeOK'
  BY <1>8 DEF ServeDelSession
<1>9. ASSUME NEW c \in Conn, ServeDone(c) PROVE TypeOK'
  BY <1>9 DEF ServeDone
<1>10. ASSUME NEW c \in Conn, ServeClose(c) PROVE TypeOK'
  BY <1>10 DEF ServeClose
<1>11. ASSUME NEW c \in Conn, IncomingExits(c) PROVE TypeOK'
  BY <1>11 DEF IncomingExits
<1>12. ASSUME NEW c \in Conn, VerifyRefused(c) PROVE TypeOK'
  BY <1>12 DEF VerifyRefused
<1>13. ASSUME NEW c \in Conn, VerifyUnavailable(c) PROVE TypeOK'
  BY <1>13 DEF VerifyUnavailable
<1>14. ASSUME NEW c \in Conn, VerifyPassed(c) PROVE TypeOK'
  BY <1>14 DEF VerifyPassed, RacesOnAdd
<1>15. ASSUME NEW c \in Conn, AddGet(c) PROVE TypeOK'
  BY <1>15 DEF AddGet
<1>16. ASSUME NEW c \in Conn, AddCancel(c) PROVE TypeOK'
  BY <1>16 DEF AddCancel
<1>17. ASSUME NEW c \in Conn, AddWait(c) PROVE TypeOK'
  BY <1>17 DEF AddWait
<1>18. ASSUME NEW c \in Conn, AddSet(c) PROVE TypeOK'
  BY <1>18 DEF AddSet
<1>19. ASSUME NEW c \in Conn, NEW d \in Device, VerifyRecv(c, d) PROVE TypeOK'
  <2>1. verifies[c] \in Nat /\ MaxVerify[c] \in Nat /\ verifies[c] < MaxVerify[c]
    BY <1>19, MaxVerifyAssumption DEF VerifyRecv
  <2>2. verifies' = [verifies EXCEPT ![c] = verifies[c] + 1]
    BY <1>19 DEF VerifyRecv
  <2>3. /\ verifies' \in [Conn -> Nat]
        /\ \A other \in Conn : verifies'[other] <= MaxVerify[other]
    BY <2>1, <2>2
  <2> QED  BY <1>19, <2>3 DEF VerifyRecv
<1>20. CASE UNCHANGED vars
  BY <1>20 DEF vars
<1> QED
  BY <1>1, <1>2, <1>3, <1>4, <1>5, <1>6, <1>7, <1>8, <1>9, <1>10, <1>11, <1>12, <1>13,
     <1>14, <1>15, <1>16, <1>17, <1>18, <1>19, <1>20
     DEF Next, ConnStep, ServeStep, VerifyStep, AddStep

\* Every step keeps what has been verified within the claims of the peer.
LEMMA ClaimStep ==
  ASSUME TypeOK, ClaimInv, [Next]_vars
  PROVE  ClaimInv'
<1> USE DEF connVars, verifyVars, mapVars, ServeMoves, IncomingMoves, ServeStates,
            IncomingStates, Adding, TypeOK, ClaimInv
<1>1. CASE Stop
  BY <1>1 DEF Stop
<1>2. CASE ListenerClose
  BY <1>2 DEF ListenerClose
<1>3. ASSUME NEW c \in Conn, Accept(c) PROVE ClaimInv'
  BY <1>3 DEF Accept
<1>4. ASSUME NEW c \in Conn, ServeError(c) PROVE ClaimInv'
  BY <1>4 DEF ServeError
<1>5. ASSUME NEW c \in Conn, ServeCtxDone(c) PROVE ClaimInv'
  BY <1>5 DEF ServeCtxDone
<1>6. ASSUME NEW c \in Conn, ServeTimeout(c) PROVE ClaimInv'
  BY <1>6 DEF ServeTimeout
<1>7. ASSUME NEW c \in Conn, ServePushErr(c) PROVE ClaimInv'
  BY <1>7 DEF ServePushErr
<1>8. ASSUME NEW c \in Conn, ServeDelSession(c) PROVE ClaimInv'
  BY <1>8 DEF ServeDelSession
<1>9. ASSUME NEW c \in Conn, ServeDone(c) PROVE ClaimInv'
  BY <1>9 DEF ServeDone
<1>10. ASSUME NEW c \in Conn, ServeClose(c) PROVE ClaimInv'
  BY <1>10 DEF ServeClose
<1>11. ASSUME NEW c \in Conn, IncomingExits(c) PROVE ClaimInv'
  BY <1>11 DEF IncomingExits
<1>12. ASSUME NEW c \in Conn, VerifyRefused(c) PROVE ClaimInv'
  BY <1>12 DEF VerifyRefused
<1>13. ASSUME NEW c \in Conn, VerifyUnavailable(c) PROVE ClaimInv'
  BY <1>13 DEF VerifyUnavailable
<1>14. ASSUME NEW c \in Conn, VerifyPassed(c) PROVE ClaimInv'
  BY <1>14 DEF VerifyPassed
<1>15. ASSUME NEW c \in Conn, AddGet(c) PROVE ClaimInv'
  BY <1>15 DEF AddGet
<1>16. ASSUME NEW c \in Conn, AddCancel(c) PROVE ClaimInv'
  BY <1>16 DEF AddCancel
<1>17. ASSUME NEW c \in Conn, AddWait(c) PROVE ClaimInv'
  BY <1>17 DEF AddWait
<1>18. ASSUME NEW c \in Conn, AddSet(c) PROVE ClaimInv'
  BY <1>18 DEF AddSet
<1>19. ASSUME NEW c \in Conn, NEW d \in Device, VerifyRecv(c, d) PROVE ClaimInv'
  BY <1>19 DEF VerifyRecv
<1>20. CASE UNCHANGED vars
  BY <1>20 DEF vars
<1> QED
  BY <1>1, <1>2, <1>3, <1>4, <1>5, <1>6, <1>7, <1>8, <1>9, <1>10, <1>11, <1>12, <1>13,
     <1>14, <1>15, <1>16, <1>17, <1>18, <1>19, <1>20
     DEF Next, ConnStep, ServeStep, VerifyStep, AddStep

\* Every step keeps the order of DelSession, done token and successor.
LEMMA TokenStep ==
  ASSUME TypeOK, ClaimInv, TokenInv, HandoverOrdered, [Next]_vars
  PROVE  (TokenInv /\ HandoverOrdered)'
<1> USE DEF connVars, verifyVars, mapVars, ServeMoves, IncomingMoves, ServeStates,
            IncomingStates, Adding, TypeOK, ClaimInv, TokenInv, HandoverOrdered
<1>1. CASE Stop
  BY <1>1 DEF Stop
<1>2. CASE ListenerClose
  BY <1>2 DEF ListenerClose
<1>3. ASSUME NEW c \in Conn, Accept(c) PROVE (TokenInv /\ HandoverOrdered)'
  BY <1>3 DEF Accept
<1>4. ASSUME NEW c \in Conn, ServeError(c) PROVE (TokenInv /\ HandoverOrdered)'
  BY <1>4 DEF ServeError
<1>5. ASSUME NEW c \in Conn, ServeCtxDone(c) PROVE (TokenInv /\ HandoverOrdered)'
  BY <1>5 DEF ServeCtxDone
<1>6. ASSUME NEW c \in Conn, ServeTimeout(c) PROVE (TokenInv /\ HandoverOrdered)'
  BY <1>6 DEF ServeTimeout
<1>7. ASSUME NEW c \in Conn, ServePushErr(c) PROVE (TokenInv /\ HandoverOrdered)'
  BY <1>7 DEF ServePushErr
<1>8. ASSUME NEW c \in Conn, ServeDelSession(c) PROVE (TokenInv /\ HandoverOrdered)'
  BY <1>8 DEF ServeDelSession
<1>9. ASSUME NEW c \in Conn, ServeDone(c) PROVE (TokenInv /\ HandoverOrdered)'
  BY <1>9 DEF ServeDone
<1>10. ASSUME NEW c \in Conn, ServeClose(c) PROVE (TokenInv /\ HandoverOrdered)'
  BY <1>10 DEF ServeClose
<1>11. ASSUME NEW c \in Conn, IncomingExits(c) PROVE (TokenInv /\ HandoverOrdered)'
  BY <1>11 DEF IncomingExits
<1>12. ASSUME NEW c \in Conn, VerifyRefused(c) PROVE (TokenInv /\ HandoverOrdered)'
  BY <1>12 DEF VerifyRefused
<1>13. ASSUME NEW c \in Conn, VerifyUnavailable(c) PROVE (TokenInv /\ HandoverOrdered)'
  BY <1>13 DEF VerifyUnavailable
<1>14. ASSUME NEW c \in Conn, VerifyPassed(c) PROVE (TokenInv /\ HandoverOrdered)'
  BY <1>14 DEF VerifyPassed
<1>15. ASSUME NEW c \in Conn, AddGet(c) PROVE (TokenInv /\ HandoverOrdered)'
  BY <1>15 DEF AddGet
<1>16. ASSUME NEW c \in Conn, AddCancel(c) PROVE (TokenInv /\ HandoverOrdered)'
  BY <1>16 DEF AddCancel
<1>17. ASSUME NEW c \in Conn, AddWait(c) PROVE (TokenInv /\ HandoverOrdered)'
  BY <1>17 DEF AddWait
<1>18. ASSUME NEW c \in Conn, AddSet(c) PROVE (TokenInv /\ HandoverOrdered)'
  BY <1>18 DEF AddSet
<1>19. ASSUME NEW c \in Conn, NEW d \in Device, VerifyRecv(c, d) PROVE (TokenInv /\ HandoverOrdered)'
  BY <1>19 DEF VerifyRecv
<1>20. CASE UNCHANGED vars
  BY <1>20 DEF vars
<1> QED
  BY <1>1, <1>2, <1>3, <1>4, <1>5, <1>6, <1>7, <1>8, <1>9, <1>10, <1>11, <1>12, <1>13,
     <1>14, <1>15, <1>16, <1>17, <1>18, <1>19, <1>20
     DEF Next, ConnStep, ServeStep, VerifyStep, AddStep

\* Every step keeps the entries of the registry verified.
LEMMA RegisteredStep ==
  ASSUME TypeOK, ClaimInv, RegisteredVerified, [Next]_vars
  PROVE  RegisteredVerified'
<1> USE DEF connVars, verifyVars, mapVars, ServeMoves, IncomingMoves, ServeStates,
            IncomingStates, Adding, TypeOK, ClaimInv, RegisteredVerified
<1>1. CASE Stop
  BY <1>1 DEF Stop
<1>2. CASE ListenerClose
  BY <1>2 DEF ListenerClose
<1>3. ASSUME NEW c \in Conn, Accept(c) PROVE RegisteredVerified'
  BY <1>3 DEF Accept
<1>4. ASSUME NEW c \in Conn, ServeError(c) PROVE RegisteredVerified'
  BY <1>4 DEF ServeError
<1>5. ASSUME NEW c \in Conn, ServeCtxDone(c) PROVE RegisteredVerified'
  BY <1>5 DEF ServeCtxDone
<1>6. ASSUME NEW c \in Conn, ServeTimeout(c) PROVE RegisteredVerified'
  BY <1>6 DEF ServeTimeout
<1>7. ASSUME NEW c \in Conn, ServePushErr(c) PROVE RegisteredVerified'
  BY <1>7 DEF ServePushErr
<1>8. ASSUME NEW c \in Conn, ServeDelSession(c) PROVE RegisteredVerified'
  BY <1>8 DEF ServeDelSession
<1>9. ASSUME NEW c \in Conn, ServeDone(c) PROVE RegisteredVerified'
  BY <1>9 DEF ServeDone
<1>10. ASSUME NEW c \in Conn, ServeClose(c) PROVE RegisteredVerified'
  BY <1>10 DEF ServeClose
<1>11. ASSUME NEW c \in Conn, IncomingExits(c) PROVE RegisteredVerified'
  BY <1>11 DEF IncomingExits
<1>12. ASSUME NEW c \in Conn, VerifyRefused(c) PROVE RegisteredVerified'
  BY <1>12 DEF VerifyRefused
<1>13. ASSUME NEW c \in Conn, VerifyUnavailable(c) PROVE RegisteredVerified'
  BY <1>13 DEF VerifyUnavailable
<1>14. ASSUME NEW c \in Conn, VerifyPassed(c) PROVE RegisteredVerified'
  BY <1>14 DEF VerifyPassed
<1>15. ASSUME NEW c \in Conn, AddGet(c) PROVE RegisteredVerified'
  BY <1>15 DEF AddGet
<1>16. ASSUME NEW c \in Conn, AddCancel(c) PROVE RegisteredVerified'
  BY <1>16 DEF AddCancel
<1>17. ASSUME NEW c \in Conn, AddWait(c) PROVE RegisteredVerified'
  BY <1>17 DEF AddWait
<1>18. ASSUME NEW c \in Conn, AddSet(c) PROVE RegisteredVerified'
  BY <1>18 DEF AddSet
<1>19. ASSUME NEW c \in Conn, NEW d \in Device, VerifyRecv(c, d) PROVE RegisteredVerified'
  BY <1>19 DEF VerifyRecv
<1>20. CASE UNCHANGED vars
  BY <1>20 DEF vars
<1> QED
  BY <1>1, <1>2, <1>3, <1>4, <1>5, <1>6, <1>7, <1>8, <1>9, <1>10, <1>11, <1>12, <1>13,
     <1>14, <1>15, <1>16, <1>17, <1>18, <1>19, <1>20
     DEF Next, ConnStep, ServeStep, VerifyStep, AddStep

\* Every step keeps a registration that has not overlapped alone.
LEMMA SingleStep ==
  ASSUME TypeOK, ClaimInv, TokenInv, SingleInv, RegistryExact, [Next]_vars
  PROVE  SingleInv'
<1> USE DEF connVars, verifyVars, mapVars, ServeMoves, IncomingMoves, ServeStates,
            IncomingStates, Adding, TypeOK, ClaimInv, TokenInv, SingleInv,
            RegistryExact
<1>1. CASE Stop
  BY <1>1 DEF Stop
<1>2. CASE ListenerClose
  BY <1>2 DEF ListenerClose
<1>3. ASSUME NEW c \in Conn, Accept(c) PROVE SingleInv'
  BY <1>3 DEF Accept
<1>4. ASSUME NEW c \in Conn, ServeError(c) PROVE SingleInv'
  BY <1>4 DEF ServeError, RacesOnExit
<1>5. ASSUME NEW c \in Conn, ServeCtxDone(c) PROVE SingleInv'
  BY <1>5 DEF ServeCtxDone, RacesOnExit
<1>6. ASSUME NEW c \in Conn, ServeTimeout(c) PROVE SingleInv'
  BY <1>6 DEF ServeTimeout, RacesOnExit
<1>7. ASSUME NEW c \in Conn, ServePushErr(c) PROVE SingleInv'
  BY <1>7 DEF ServePushErr
<1>8. ASSUME NEW c \in Conn, ServeDelSession(c) PROVE SingleInv'
  BY <1>8 DEF ServeDelSession
<1>9. ASSUME NEW c \in Conn, ServeDone(c) PROVE SingleInv'
  BY <1>9 DEF ServeDone
<1>10. ASSUME NEW c \in Conn, ServeClose(c) PROVE SingleInv'
  BY <1>10 DEF ServeClose
<1>11. ASSUME NEW c \in Conn, IncomingExits(c) PROVE SingleInv'
  BY <1>11 DEF IncomingExits
<1>12. ASSUME NEW c \in Conn, VerifyRefused(c) PROVE SingleInv'
  BY <1>12 DEF VerifyRefused
<1>13. ASSUME NEW c \in Conn, VerifyUnavailable(c) PROVE SingleInv'
  BY <1>13 DEF VerifyUnavailable
<1>14. ASSUME NEW c \in Conn, VerifyPassed(c) PROVE SingleInv'
  <2> SUFFICES ASSUME NEW e \in Conn, incoming'[e] \in Adding, deviceID'[e] \notin raced'
               PROVE  /\ serve'[e] = "select"
                      /\ ~created'[e]
                      /\ \A other \in Conn \ {e} :
                           ~(incoming'[other] \in Adding /\ deviceID'[other] = deviceID'[e])
                      /\ incoming'[e] = "set" => sessions'[deviceID'[e]] = NoConn
                      /\ incoming'[e] \in {"cancel", "wait"}
                           => sessions'[deviceID'[e]] \in {invalid'[e], NoConn}
    BY DEF SingleInv
  <2>1. reqID[c] \in Device /\ raced \subseteq raced'
    BY <1>14 DEF VerifyPassed
  <2>2. CASE e = c
    <3>1. /\ serve[c] = "select"
          /\ ~verifyPass[c]
          /\ \A other \in Conn \ {c} :
               ~(incoming[other] \in Adding /\ deviceID[other] = reqID[c])
      BY <1>14, <2>1, <2>2, DeviceAssumption DEF VerifyPassed, RacesOnAdd
    <3> QED  BY <1>14, <2>2, <3>1 DEF VerifyPassed
  <2>3. CASE e # c
    <3>1. incoming[e] \in Adding /\ deviceID[e] \notin raced /\ deviceID[e] \in Device
      BY <1>14, <2>1, <2>3 DEF VerifyPassed
    <3>2. deviceID[e] # reqID[c]
      BY <1>14, <2>1, <2>3, <3>1, DeviceAssumption DEF VerifyPassed, RacesOnAdd
    <3> QED  BY <1>14, <2>3, <3>1, <3>2 DEF VerifyPassed
  <2> QED  BY <2>2, <2>3
<1>15. ASSUME NEW c \in Conn, AddGet(c) PROVE SingleInv'
  BY <1>15 DEF AddGet
<1>16. ASSUME NEW c \in Conn, AddCancel(c) PROVE SingleInv'
  BY <1>16 DEF AddCancel
<1>17. ASSUME NEW c \in Conn, AddWait(c) PROVE SingleInv'
  BY <1>17 DEF AddWait
<1>18. ASSUME NEW c \in Conn, AddSet(c) PROVE SingleInv'
  BY <1>18 DEF AddSet
<1>19. ASSUME NEW c \in Conn, NEW d \in Device, VerifyRecv(c, d) PROVE SingleInv'
  BY <1>19 DEF VerifyRecv
<1>20. CASE UNCHANGED vars
  BY <1>20 DEF vars
<1> QED
  BY <1>1, <1>2, <1>3, <1>4, <1>5, <1>6, <1>7, <1>8, <1>9, <1>10, <1>11, <1>12, <1>13,
     <1>14, <1>15, <1>16, <1>17, <1>18, <1>19, <1>20
     DEF Next, ConnStep, ServeStep, VerifyStep, AddStep

\* Every step keeps the registry exact for the devices without overlaps.
LEMMA ExactStep ==
  ASSUME TypeOK, ClaimInv, TokenInv, SingleInv, RegistryExact, [Next]_vars
  PROVE  RegistryExact'
<1> USE DEF connVars, verifyVars, mapVars, ServeMoves, IncomingMoves, ServeStates,
            IncomingStates, Adding, TypeOK, ClaimInv, TokenInv, SingleInv,
            RegistryExact
<1>1. CASE Stop
  BY <1>1 DEF Stop
<1>2. CASE ListenerClose
  BY <1>2 DEF ListenerClose
<1>3. ASSUME NEW c \in Conn, Accept(c) PROVE RegistryExact'
  BY <1>3 DEF Accept
<1>4. ASSUME NEW c \in Conn, ServeError(c) PROVE RegistryExact'
  BY <1>4 DEF ServeError, RacesOnExit
<1>5. ASSUME NEW c \in Conn, ServeCtxDone(c) PROVE RegistryExact'
  BY <1>5 DEF ServeCtxDone, RacesOnExit
<1>6. ASSUME NEW c \in Conn, ServeTimeout(c) PROVE RegistryExact'
  BY <1>6 DEF ServeTimeout, RacesOnExit
<1>7. ASSUME NEW c \in Conn, ServePushErr(c) PROVE RegistryExact'
  BY <1>7 DEF ServePushErr
<1>8. ASSUME NEW c \in Conn, ServeDelSession(c) PROVE RegistryExact'
  <2> SUFFICES ASSUME NEW d \in Device, d \notin raced, NEW e \in Conn
               PROVE  sessions'[d] = e
                        <=> /\ created[e]
                            /\ deviceID[e] = d
                            /\ serve'[e] \in {"select", "errpush", "deferred"}
    BY <1>8 DEF RegistryExact, ServeDelSession
  <2>1. CASE ~verifyPass[c] \/ deviceID[c] # d
    <3>1. sessions'[d] = sessions[d]
      BY <1>8, <2>1 DEF ServeDelSession
    <3> QED  BY <1>8, <2>1, <3>1 DEF ServeDelSession
  <2>2. CASE verifyPass[c] /\ deviceID[c] = d
    <3>1. created[c]
      BY <1>8, <2>2 DEF ServeDelSession
    <3>2. sessions[d] = c
      BY <1>8, <2>2, <3>1 DEF ServeDelSession
    <3>3. sessions'[d] = NoConn /\ serve'[c] = "signal"
      BY <1>8, <2>2 DEF ServeDelSession
    <3> QED  BY <1>8, <3>2, <3>3, ConnAssumption DEF ServeDelSession
  <2> QED  BY <2>1, <2>2
<1>9. ASSUME NEW c \in Conn, ServeDone(c) PROVE RegistryExact'
  BY <1>9 DEF ServeDone
<1>10. ASSUME NEW c \in Conn, ServeClose(c) PROVE RegistryExact'
  BY <1>10 DEF ServeClose
<1>11. ASSUME NEW c \in Conn, IncomingExits(c) PROVE RegistryExact'
  BY <1>11 DEF IncomingExits
<1>12. ASSUME NEW c \in Conn, VerifyRefused(c) PROVE RegistryExact'
  BY <1>12 DEF VerifyRefused
<1>13. ASSUME NEW c \in Conn, VerifyUnavailable(c) PROVE RegistryExact'
  BY <1>13 DEF VerifyUnavailable
<1>14. ASSUME NEW c \in Conn, VerifyPassed(c) PROVE RegistryExact'
  <2> SUFFICES ASSUME NEW d \in Device, d \notin raced', NEW e \in Conn
               PROVE  sessions'[d] = e
                        <=> /\ created'[e]
                            /\ deviceID'[e] = d
                            /\ serve'[e] \in {"select", "errpush", "deferred"}
    BY DEF RegistryExact
  <2>1. reqID[c] \in Device /\ d \notin raced
    BY <1>14 DEF VerifyPassed
  <2>2. ~verifyPass[c] \/ (deviceID[c] # d /\ reqID[c] # d)
    BY <1>14, <2>1, DeviceAssumption DEF VerifyPassed, RacesOnAdd
  <2>3. CASE ~verifyPass[c]
    BY <1>14, <2>1, <2>3 DEF VerifyPassed
  <2>4. CASE deviceID[c] # d /\ reqID[c] # d
    BY <1>14, <2>1, <2>4 DEF VerifyPassed
  <2> QED  BY <2>2, <2>3, <2>4
<1>15. ASSUME NEW c \in Conn, AddGet(c) PROVE RegistryExact'
  BY <1>15 DEF AddGet
<1>16. ASSUME NEW c \in Conn, AddCancel(c) PROVE RegistryExact'
  BY <1>16 DEF AddCancel
<1>17. ASSUME NEW c \in Conn, AddWait(c) PROVE RegistryExact'
  BY <1>17 DEF AddWait
<1>18. ASSUME NEW c \in Conn, AddSet(c) PROVE RegistryExact'
  <2> SUFFICES ASSUME NEW d \in Device, d \notin raced, NEW e \in Conn
               PROVE  sessions'[d] = e
                        <=> /\ created'[e]
                            /\ deviceID[e] = d
                            /\ serve[e] \in {"select", "errpush", "deferred"}
    BY <1>18 DEF RegistryExact, AddSet
  <2>1. CASE deviceID[c] # d
    BY <1>18, <2>1 DEF AddSet
  <2>2. CASE deviceID[c] = d
    <3>1. sessions[d] = NoConn /\ serve[c] = "select"
      BY <1>18, <2>2 DEF AddSet
    <3>2. sessions'[d] = c /\ created' = [created EXCEPT ![c] = TRUE]
      BY <1>18, <2>2 DEF AddSet
    <3> QED  BY <2>2, <3>1, <3>2, ConnAssumption
  <2> QED  BY <2>1, <2>2
<1>19. ASSUME NEW c \in Conn, NEW d \in Device, VerifyRecv(c, d) PROVE RegistryExact'
  BY <1>19 DEF VerifyRecv
<1>20. CASE UNCHANGED vars
  BY <1>20 DEF vars
<1> QED
  BY <1>1, <1>2, <1>3, <1>4, <1>5, <1>6, <1>7, <1>8, <1>9, <1>10, <1>11, <1>12, <1>13,
     <1>14, <1>15, <1>16, <1>17, <1>18, <1>19, <1>20
     DEF Next, ConnStep, ServeStep, VerifyStep, AddStep

\* Every step keeps the waits for sessions of the same identity, and leaves
\* the token to the one that waits for it.
LEMMA EntryStep ==
  ASSUME IInv, [Next]_vars
  PROVE  EntryInv'
<1> USE DEF connVars, verifyVars, mapVars, ServeMoves, IncomingMoves, ServeStates,
            IncomingStates, Adding, TypeOK, ClaimInv, TokenInv, RegisteredVerified,
            EntryInv, IInv
<1>1. CASE Stop
  BY <1>1 DEF Stop
<1>2. CASE ListenerClose
  BY <1>2 DEF ListenerClose
<1>3. ASSUME NEW c \in Conn, Accept(c) PROVE EntryInv'
  BY <1>3 DEF Accept
<1>4. ASSUME NEW c \in Conn, ServeError(c) PROVE EntryInv'
  BY <1>4 DEF ServeError, RacesOnExit
<1>5. ASSUME NEW c \in Conn, ServeCtxDone(c) PROVE EntryInv'
  BY <1>5 DEF ServeCtxDone, RacesOnExit
<1>6. ASSUME NEW c \in Conn, ServeTimeout(c) PROVE EntryInv'
  BY <1>6 DEF ServeTimeout, RacesOnExit
<1>7. ASSUME NEW c \in Conn, ServePushErr(c) PROVE EntryInv'
  BY <1>7 DEF ServePushErr
<1>8. ASSUME NEW c \in Conn, ServeDelSession(c) PROVE EntryInv'
  BY <1>8 DEF ServeDelSession
<1>9. ASSUME NEW c \in Conn, ServeDone(c) PROVE EntryInv'
  BY <1>9 DEF ServeDone
<1>10. ASSUME NEW c \in Conn, ServeClose(c) PROVE EntryInv'
  BY <1>10 DEF ServeClose
<1>11. ASSUME NEW c \in Conn, IncomingExits(c) PROVE EntryInv'
  BY <1>11 DEF IncomingExits
<1>12. ASSUME NEW c \in Conn, VerifyRefused(c) PROVE EntryInv'
  BY <1>12 DEF VerifyRefused
<1>13. ASSUME NEW c \in Conn, VerifyUnavailable(c) PROVE EntryInv'
  BY <1>13 DEF VerifyUnavailable
<1>14. ASSUME NEW c \in Conn, VerifyPassed(c) PROVE EntryInv'
  <2>1. reqID[c] \in Device /\ raced \subseteq raced'
    BY <1>14 DEF VerifyPassed
  <2>2. verifyPass[c] => reqID[c] \in raced' /\ deviceID[c] \in raced'
    BY <1>14, <2>1, DeviceAssumption DEF VerifyPassed, RacesOnAdd
  <2>3. /\ deviceID' = [deviceID EXCEPT ![c] = reqID[c]]
        /\ verifyPass' = [verifyPass EXCEPT ![c] = TRUE]
        /\ incoming' = [incoming EXCEPT ![c] = "get"]
        /\ UNCHANGED <<sessions, invalid, done, serve>>
    BY <1>14 DEF VerifyPassed
  <2>4. ASSUME NEW d \in Device, sessions[d] # NoConn
        PROVE  deviceID'[sessions[d]] \in raced' \cup {d}
    BY <2>1, <2>2, <2>3, <2>4
  <2>5. ASSUME NEW other \in Conn, incoming'[other] \in {"cancel", "wait"}
        PROVE  /\ incoming[other] \in {"cancel", "wait"} /\ other # c
               /\ invalid[other] \in Conn /\ verifyPass[invalid[other]]
               /\ deviceID'[other] = deviceID[other]
    BY <2>3, <2>5
  <2>6. ASSUME NEW other \in Conn, incoming'[other] \in {"cancel", "wait"}
        PROVE  /\ verifyPass'[invalid[other]]
               /\ deviceID'[invalid[other]] \in raced' \cup {deviceID'[other]}
               /\ deviceID'[other] \notin raced'
                    => /\ deviceID'[invalid[other]] = deviceID'[other]
                       /\ done[invalid[other]] \/ serve[invalid[other]] \notin {"close", "ended"}
    BY <2>1, <2>2, <2>3, <2>5, <2>6
  <2> QED  BY <2>3, <2>4, <2>6
<1>15. ASSUME NEW c \in Conn, AddGet(c) PROVE EntryInv'
  BY <1>15 DEF AddGet, RegistryExact
<1>16. ASSUME NEW c \in Conn, AddCancel(c) PROVE EntryInv'
  BY <1>16 DEF AddCancel
<1>17. ASSUME NEW c \in Conn, AddWait(c) PROVE EntryInv'
  BY <1>17 DEF AddWait, SingleInv
<1>18. ASSUME NEW c \in Conn, AddSet(c) PROVE EntryInv'
  BY <1>18 DEF AddSet
<1>19. ASSUME NEW c \in Conn, NEW d \in Device, VerifyRecv(c, d) PROVE EntryInv'
  BY <1>19 DEF VerifyRecv
<1>20. CASE UNCHANGED vars
  BY <1>20 DEF vars
<1> QED
  BY <1>1, <1>2, <1>3, <1>4, <1>5, <1>6, <1>7, <1>8, <1>9, <1>10, <1>11, <1>12, <1>13,
     <1>14, <1>15, <1>16, <1>17, <1>18, <1>19, <1>20
     DEF Next, ConnStep, ServeStep, VerifyStep, AddStep

-----------------------------------------------------------------------------
LEMMA InitIInv == Init => IInv
  BY ConnAssumption, MaxVerifyAssumption
     DEF Init, IInv, TypeOK, ClaimInv, TokenInv, HandoverOrdered, RegisteredVerified,
         SingleInv, RegistryExact, EntryInv, ServeStates, IncomingStates, Adding

LEMMA NextIInv == IInv /\ [Next]_vars => IInv'
  BY TypeStep, ClaimStep, TokenStep, RegisteredStep, SingleStep, ExactStep, EntryStep DEF IInv

\* The strengthening holds in every reachable state.
THEOREM Invariance == Spec => []IInv
  BY InitIInv, NextIInv, PTL DEF Spec

\* Every variable keeps its type.
THEOREM TypeCorrect == Spec => []TypeOK
<1>1. IInv => TypeOK
  BY DEF IInv
<1> QED  BY <1>1, Invariance, PTL

\* AddSession lets a session write its entry only after the one it supersedes
\* has run its DelSession.
THEOREM HandoverIsOrdered == Spec => []HandoverOrdered
<1>1. IInv => HandoverOrdered
  BY DEF IInv
<1> QED  BY <1>1, Invariance, PTL

\* The entries of SessionMap are verified sessions of a device of their peer.
THEOREM EntriesVerified == Spec => []RegisteredVerified
<1>1. IInv => RegisteredVerified
  BY DEF IInv
<1> QED  BY <1>1, Invariance, PTL

\* SessionMap is exact for every device whose registrations do not overlap.
THEOREM RegistryIsExact == Spec => []RegistryExact
<1>1. IInv => RegistryExact
  BY DEF IInv
<1> QED  BY <1>1, Invariance, PTL

\* The token AddSession waits for is not taken by a third connection, while the
\* registrations of the device do not overlap.
THEOREM TokenKept == Spec => []DoneNotStolen
<1>1. IInv => DoneNotStolen
  BY DEF IInv, EntryInv, DoneNotStolen
<1> QED  BY <1>1, Invariance, PTL

-----------------------------------------------------------------------------
(* The registry implements the directory.                                   *)

Online == [d \in Device |-> IF d \in raced THEN NoConn ELSE sessions[d]]

Left == {c \in Conn : created[c] /\ serve[c] \in {"signal", "close", "ended"}}

\* A step that neither writes an entry nor takes a session past its DelSession
\* gives up the devices whose registrations it finds to overlap, or none.
LoseStep ==
  /\ raced \subseteq raced'
  /\ UNCHANGED <<sessions, created>>
  /\ \A c \in Conn : serve'[c] \in {"signal", "close", "ended"}
                       <=> serve[c] \in {"signal", "close", "ended"}

LEMMA OthersLose ==
  ASSUME IInv, [Next]_vars,
         \A c \in Conn : ~AddSet(c) /\ ~ServeDelSession(c)
  PROVE  LoseStep
<1> USE DEF connVars, verifyVars, mapVars, ServeMoves, IncomingMoves, IInv, TypeOK, LoseStep
<1>1. CASE Stop \/ ListenerClose
  BY <1>1 DEF Stop, ListenerClose
<1>2. ASSUME NEW c \in Conn, Accept(c) PROVE LoseStep
  BY <1>2 DEF Accept
<1>3. ASSUME NEW c \in Conn, ServeError(c) \/ ServeCtxDone(c) \/ ServeTimeout(c)
      PROVE  LoseStep
  BY <1>3 DEF ServeError, ServeCtxDone, ServeTimeout
<1>4. ASSUME NEW c \in Conn, ServePushErr(c) \/ ServeDone(c) \/ ServeClose(c)
      PROVE  LoseStep
  BY <1>4 DEF ServePushErr, ServeDone, ServeClose
<1>5. ASSUME NEW c \in Conn, NEW d \in Device, VerifyRecv(c, d) PROVE LoseStep
  BY <1>5 DEF VerifyRecv
<1>6. ASSUME NEW c \in Conn, IncomingExits(c) \/ VerifyRefused(c) PROVE LoseStep
  BY <1>6 DEF IncomingExits, VerifyRefused
<1>7. ASSUME NEW c \in Conn, VerifyUnavailable(c) \/ VerifyPassed(c) PROVE LoseStep
  BY <1>7 DEF VerifyUnavailable, VerifyPassed
<1>8. ASSUME NEW c \in Conn, AddGet(c) \/ AddCancel(c) \/ AddWait(c) PROVE LoseStep
  BY <1>8 DEF AddGet, AddCancel, AddWait
<1>9. CASE UNCHANGED vars
  BY <1>9 DEF vars
<1> QED
  BY <1>1, <1>2, <1>3, <1>4, <1>5, <1>6, <1>7, <1>8, <1>9
     DEF Next, ConnStep, ServeStep, VerifyStep, AddStep

\* Such a step is a Lose of the directory.
LEMMA LoseRefines ==
  ASSUME IInv, [Next]_vars, LoseStep
  PROVE  Directory!Next
<1>1. raced' \in SUBSET Device
  BY TypeStep DEF IInv, TypeOK
<1>2. Left' = Left
  BY DEF Left, LoseStep
<1>3. Online' = [d \in Device |-> IF d \in raced' THEN NoConn ELSE Online[d]]
  BY DEF Online, LoseStep
<1>4. raced' = raced \cup raced'
  BY DEF LoseStep
<1>5. Directory!Lose(raced')
  BY <1>2, <1>3, <1>4, Zenon DEF Directory!Lose, Online, Left
<1> QED  BY <1>1, <1>5 DEF Directory!Next, Directory!Lose

\* A session that joins: alone and found from now on, or one of a lost device.
LEMMA SetRefines ==
  ASSUME IInv, NEW c \in Conn, AddSet(c)
  PROVE  [Directory!Next]_(Directory!vars)
<1> DEFINE d == deviceID[c]
<1>1. /\ incoming[c] = "set" /\ d \in Device /\ d \in Claims[c]
      /\ sessions' = [sessions EXCEPT ![d] = c]
      /\ created' = [created EXCEPT ![c] = TRUE]
      /\ UNCHANGED <<serve, raced>>
  BY DEF AddSet, IncomingMoves, connVars, IInv, ClaimInv, Adding
<1>2. CASE d \notin raced
  <2>1. serve[c] = "select" /\ ~created[c] /\ sessions[d] = NoConn
    BY <1>1, <1>2 DEF IInv, SingleInv, Adding
  <2>2. \A e \in Device : Online[e] # c
    BY <2>1, ConnAssumption DEF IInv, RegistryExact, Online
  <2>3. Left' = Left /\ c \notin Left
    BY <1>1, <2>1 DEF Left, IInv, TypeOK
  <2>4. Online' = [Online EXCEPT ![d] = c] /\ Online[d] = NoConn
    BY <1>1, <1>2, <2>1 DEF Online, IInv, TypeOK
  <2>5. Directory!Join(c, d)
    BY <1>1, <1>2, <2>2, <2>3, <2>4, Zenon DEF Directory!Join, Online, Left
  <2> QED  BY <1>1, <2>5 DEF Directory!Next, Directory!Join
<1>3. CASE d \in raced
  <2>1. Online' = Online
    BY <1>1, <1>3 DEF Online, IInv, TypeOK
  <2>2. CASE created[c] \/ serve[c] \notin {"signal", "close", "ended"}
    <3>1. Left' = Left
      BY <1>1, <2>2 DEF Left, IInv, TypeOK
    <3> QED  BY <1>1, <2>1, <3>1 DEF Directory!vars, Online, Left
  <2>3. CASE ~created[c] /\ serve[c] \in {"signal", "close", "ended"}
    <3>1. Left' = Left \cup {c}
      BY <1>1, <2>3 DEF Left, IInv, TypeOK
    <3>2. \A e \in Device : Online[e] # c
      BY <2>3, ConnAssumption DEF IInv, RegistryExact, Online
    <3>3. Directory!Retire(c)
      BY <1>1, <2>1, <3>1, <3>2 DEF Directory!Retire, Online, Left
    <3> QED  BY <3>3 DEF Directory!Next
  <2> QED  BY <2>2, <2>3
<1> QED  BY <1>2, <1>3

\* A session that leaves: the one that is found, or one of a lost device.
LEMMA DelRefines ==
  ASSUME IInv, NEW c \in Conn, ServeDelSession(c)
  PROVE  [Directory!Next]_(Directory!vars)
<1> DEFINE d == deviceID[c]
<1>1. /\ serve[c] = "deferred"
      /\ serve' = [serve EXCEPT ![c] = "signal"]
      /\ sessions' = IF verifyPass[c] THEN [sessions EXCEPT ![d] = NoConn] ELSE sessions
      /\ UNCHANGED <<created, raced>>
  BY DEF ServeDelSession, ServeMoves
<1>2. CASE created[c] /\ d \notin raced
  <2>1. d \in Device /\ verifyPass[c]
    BY <1>2 DEF IInv, ClaimInv
  <2>2. sessions[d] = c
    BY <1>1, <1>2, <2>1 DEF IInv, RegistryExact
  <2>3. Online[d] = c /\ Online' = [Online EXCEPT ![d] = NoConn]
    BY <1>1, <1>2, <2>1, <2>2 DEF Online, IInv, TypeOK
  <2>4. Left' = Left \cup {c}
    BY <1>1, <1>2 DEF Left, IInv, TypeOK
  <2>5. Directory!Leave(d)
    <3>1. Online[d] # NoConn /\ Left' = Left \cup {Online[d]} /\ UNCHANGED raced
      BY <1>1, <2>3, <2>4, ConnAssumption
    <3> QED  BY <2>3, <3>1, Zenon DEF Directory!Leave, Online, Left
  <2> QED  BY <2>1, <2>5 DEF Directory!Next, Directory!Leave
<1>3. CASE created[c] /\ d \in raced
  <2>1. Online' = Online
    BY <1>1, <1>3 DEF Online, IInv, TypeOK
  <2>2. Left' = Left \cup {c}
    BY <1>1, <1>3 DEF Left, IInv, TypeOK
  <2>3. \A e \in Device : Online[e] # c
    BY <1>3, ConnAssumption DEF IInv, RegistryExact, Online
  <2>4. Directory!Retire(c)
    BY <1>1, <2>1, <2>2, <2>3 DEF Directory!Retire, Online, Left
  <2> QED  BY <2>4 DEF Directory!Next
<1>4. CASE ~created[c]
  <2>1. verifyPass[c] => d \in raced
    BY <1>1, <1>4 DEF IInv, ClaimInv, SingleInv
  <2>2. Online' = Online
    BY <1>1, <2>1 DEF Online, IInv, TypeOK
  <2>3. Left' = Left
    BY <1>1, <1>4 DEF Left, IInv, TypeOK
  <2> QED  BY <1>1, <2>2, <2>3 DEF Directory!vars, Online, Left
<1> QED  BY <1>2, <1>3, <1>4

LEMMA InitRefines == Init => Directory!Init
  BY DEF Init, Directory!Init

LEMMA NextRefines == IInv /\ [Next]_vars => [Directory!Next]_(Directory!vars)
<1> SUFFICES ASSUME IInv, [Next]_vars PROVE [Directory!Next]_(Directory!vars)
  OBVIOUS
<1>1. CASE \A c \in Conn : ~AddSet(c) /\ ~ServeDelSession(c)
  BY <1>1, OthersLose, LoseRefines
<1>2. ASSUME NEW c \in Conn, AddSet(c) \/ ServeDelSession(c)
      PROVE  [Directory!Next]_(Directory!vars)
  BY <1>2, SetRefines, DelRefines
<1> QED  BY <1>1, <1>2

\* The registry keeps the promises of the directory: at most one connection per
\* device, a hand-over through an empty entry, nobody back who has left.
THEOREM RegistryImplementsDirectory == Spec => ImplementsDirectory
  BY InitRefines, NextRefines, Invariance, PTL DEF Spec, Directory!Spec, ImplementsDirectory
=============================================================================

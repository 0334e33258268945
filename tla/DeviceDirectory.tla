--------------------------- MODULE DeviceDirectory ---------------------------
(***************************************************************************)
(* What the session registry of the access server promises its users (the  *)
(* RPC handlers that look a device up): a directory with at most one       *)
(* connection per device.  A connection joins a device only when nobody    *)
(* holds it, leaves it once, and never comes back.  The directory promises *)
(* nothing for a device that is lost, one whose registrations overlapped.  *)
(***************************************************************************)
CONSTANTS Conn, Device, NoConn, Claims

VARIABLES
  online,   \* online[d]: the connection under which d can be reached
  left,     \* connections that have left for good
  lost      \* devices the directory has given up on

vars == <<online, left, lost>>

Init ==
  /\ online = [d \in Device |-> NoConn]
  /\ left = {}
  /\ lost = {}

Join(c, d) ==
  /\ d \in Claims[c] \ lost
  /\ online[d] = NoConn
  /\ c \notin left
  /\ \A e \in Device : online[e] # c
  /\ online' = [online EXCEPT ![d] = c]
  /\ UNCHANGED <<left, lost>>

Leave(d) ==
  /\ online[d] # NoConn
  /\ online' = [online EXCEPT ![d] = NoConn]
  /\ left' = left \cup {online[d]}
  /\ UNCHANGED lost

\* A connection of a lost device goes away.
Retire(c) ==
  /\ \A d \in Device : online[d] # c
  /\ left' = left \cup {c}
  /\ UNCHANGED <<online, lost>>

Lose(D) ==
  /\ online' = [d \in Device |-> IF d \in D THEN NoConn ELSE online[d]]
  /\ lost' = lost \cup D
  /\ UNCHANGED left

Next ==
  \/ \E c \in Conn, d \in Device : Join(c, d)
  \/ \E d \in Device : Leave(d)
  \/ \E c \in Conn : Retire(c)
  \/ \E D \in SUBSET Device : Lose(D)

Spec == Init /\ [][Next]_vars
=============================================================================

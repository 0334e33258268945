----------------------------- MODULE RequestReply -----------------------------
(***************************************************************************)
(* What session.Send promises the RPC handlers of the access server: every *)
(* request ends at most once, with the answer the device gave to this very *)
(* request, or with a timeout.  A timeout says nothing about the device,   *)
(* which may answer before or after it.  The promise is void once a header *)
(* id has been given out twice at a time.                                  *)
(***************************************************************************)
EXTENDS Naturals

CONSTANTS
  Request,
  None       \* no answer

VARIABLES
  issued,     \* requests made
  answered,   \* requests the device has answered
  returned,   \* returned[r]: the request whose answer r has returned
  expired,    \* requests that returned a timeout
  void        \* the promise is off

vars == <<issued, answered, returned, expired, void>>

Ended(r) == returned[r] # None \/ r \in expired

Init ==
  /\ issued = {}
  /\ answered = {}
  /\ returned = [r \in Request |-> None]
  /\ expired = {}
  /\ void = FALSE

Issue(r) ==
  /\ r \notin issued
  /\ issued' = issued \cup {r}
  /\ UNCHANGED <<answered, returned, expired, void>>

Answer(r) ==
  /\ r \in issued \ answered
  /\ answered' = answered \cup {r}
  /\ UNCHANGED <<issued, returned, expired, void>>

Return(r) ==
  /\ r \in answered
  /\ ~Ended(r)
  /\ returned' = [returned EXCEPT ![r] = r]
  /\ UNCHANGED <<issued, answered, expired, void>>

Expire(r) ==
  /\ r \in issued
  /\ ~Ended(r)
  /\ expired' = expired \cup {r}
  /\ UNCHANGED <<issued, answered, returned, void>>

\* Nothing binds a step that ends in a void promise.
Void == void' = TRUE

Next ==
  \/ \E r \in Request : Issue(r) \/ Answer(r) \/ Return(r) \/ Expire(r)
  \/ Void

Spec == Init /\ [][Next]_vars
=============================================================================

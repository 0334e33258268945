---------------------------- MODULE ObservedStream ----------------------------
(***************************************************************************)
(* What ObGet promises its user: the frames of the stream are those the    *)
(* device sent, in order, none lost and none twice, numbered from 0; the   *)
(* stream ends with Terminate only when it is complete, and otherwise with *)
(* an error frame or because the user has gone.                            *)
(***************************************************************************)
EXTENDS Naturals, Sequences

CONSTANTS
  Observer,
  Terminate,  \* the last frame of a complete stream
  Failure     \* the last frame of a stream that breaks off

VARIABLES
  sent,       \* sent[o]: data frames the device has sent; frame k carries k
  finished,   \* observers whose data has come to its end
  got,        \* got[o]: the frames the user has received, as <<number, content>>
  over        \* observers whose stream has ended

vars == <<sent, finished, got, over>>

Init ==
  /\ sent = [o \in Observer |-> 0]
  /\ finished = {}
  /\ got = [o \in Observer |-> <<>>]
  /\ over = {}

Produce(o) ==
  /\ o \notin finished
  /\ sent' = [sent EXCEPT ![o] = @ + 1]
  /\ UNCHANGED <<finished, got, over>>

Finish(o) ==
  /\ finished' = finished \cup {o}
  /\ UNCHANGED <<sent, got, over>>

Receive(o, content) ==
  /\ o \notin over
  /\ got' = [got EXCEPT ![o] = Append(@, <<Len(@), content>>)]
  /\ UNCHANGED <<sent, finished>>

Deliver(o) ==
  /\ Len(got[o]) < sent[o]
  /\ Receive(o, Len(got[o]) + 1)
  /\ UNCHANGED over

Complete(o) ==
  /\ o \in finished
  /\ Len(got[o]) = sent[o]
  /\ Receive(o, Terminate)
  /\ over' = over \cup {o}

Break(o) ==
  /\ Receive(o, Failure)
  /\ over' = over \cup {o}

UserLeaves(o) ==
  /\ over' = over \cup {o}
  /\ UNCHANGED <<sent, finished, got>>

Next ==
  \E o \in Observer :
    Produce(o) \/ Finish(o) \/ Deliver(o) \/ Complete(o) \/ Break(o) \/ UserLeaves(o)

Spec == Init /\ [][Next]_vars
=============================================================================

------------------------------ MODULE Heartbeat ------------------------------
(***************************************************************************)
(* The heartbeat of one connection in discrete time: the ticker of the     *)
(* device, which every message out sets back (tcpOutgoing of               *)
(* devicesession.go), and the ticker of the server's session, which the    *)
(* messages in set back, but only after they have been dealt with          *)
(* (tcpIncomming of session.go): while the verifier or a service is asked, *)
(* or a notification is held up by a user who does not read, what the      *)
(* device sends waits unread.                                              *)
(*                                                                         *)
(* An age counts the units of time since something happened.  Time stands  *)
(* still while something is due.  Assumed of the connection: it takes what *)
(* is written, on both sides, so that no queue of outgoing messages is     *)
(* full (those which are: CoRequest, Observation, SessionServe).           *)
(***************************************************************************)
EXTENDS Naturals, Sequences

CONSTANTS
  H,           \* the heartbeat of the device: 60 s
  Default,     \* DEVICE_HEARTBEAT_SECONDS_DEFAULT, and NewSession: 300 s
  MinTimeout,  \* the least timeout that a ping may ask for: 30 s
  MaxTimeout,  \* the greatest: 43200 s
  MaxDelay,    \* how long a message is under way at most
  MaxVerify,   \* how long the verification may take: the 15 s of verifyTimer
  MaxBusy,     \* how long a service may take: the 10 s of accessResource
  MaxWire      \* bound: messages under way, pings not counted

ASSUME TimeAssumption ==
  /\ H \in Nat /\ Default \in Nat /\ MinTimeout \in Nat \ {0} /\ MaxTimeout \in Nat
  /\ MaxDelay \in Nat /\ MaxVerify \in Nat /\ MaxBusy \in Nat /\ MaxWire \in Nat
  /\ MinTimeout <= H /\ H <= MaxTimeout
  /\ MinTimeout <= Default /\ Default <= MaxTimeout
  /\ MaxTimeout <= 43200

\* What may go by between a message of the device and the end of its handling by a
\* service is less than the half of a heartbeat, and a verification takes no longer
\* than one.  Of a notification nothing is assumed.
ASSUME SlackAssumption ==
  /\ MaxDelay + MaxBusy < H \div 2
  /\ MaxVerify <= H
  /\ MaxDelay + MaxVerify < Default + Default \div 2

Kinds == {"verify", "set", "ping", "req", "notify", "resp"}
Idle == [kind |-> "none", age |-> 0]

VARIABLES
  alive,      \* the device runs; its end is not seen by the server
  phase,      \* what serve of the device is about to send: "verify", "set"; or "up"
  sinceWrite, \* the age of the last message of the device
  wire,       \* the messages under way and unread: [kind, age]
  work,       \* what tcpIncomming of the session is at: [kind, age], or Idle
  open,       \* the session has not ended
  heartbeatSeconds, \* Session.heartbeatSeconds
  sinceReset  \* the age of the last Reset of the session's heartbeatTimer

vars == <<alive, phase, sinceWrite, wire, work, open, heartbeatSeconds, sinceReset>>
device == <<alive, phase, sinceWrite>>
server == <<work, open, heartbeatSeconds, sinceReset>>

Init ==
  /\ alive = TRUE /\ phase = "verify" /\ sinceWrite = 0
  /\ wire = <<>>
  /\ work = Idle /\ open = TRUE
  /\ heartbeatSeconds = Default /\ sinceReset = 0

calcuCheckSenconds(heartbeat) == (heartbeat + heartbeat \div 2) % 65536

-----------------------------------------------------------------------------
(* The device.                                                              *)

\* tcpOutgoing: the ticker starts anew, the message is written.
Writes(kind) ==
  /\ alive
  /\ sinceWrite' = 0
  /\ wire' = Append(wire, [kind |-> kind, age |-> 0])
  /\ UNCHANGED <<alive, server>>

\* serve: verify, then pingRemoteSet unless the heartbeat is the default.
DeviceVerifies ==
  /\ phase = "verify" /\ Writes("verify")
  /\ phase' = IF H = Default THEN "up" ELSE "set"
DeviceSets == phase = "set" /\ Writes("set") /\ phase' = "up"

\* The ticker of serve: ping.
DevicePings ==
  /\ phase = "up" /\ sinceWrite = H
  /\ Writes("ping")
  /\ UNCHANGED phase

\* A request of the device, one of its notifications, or its response to a user.
DeviceSends ==
  /\ phase = "up" /\ Len(wire) < MaxWire
  /\ \E kind \in {"req", "notify", "resp"} : Writes(kind)
  /\ UNCHANGED phase

\* The device stops without the connection being closed.
DeviceDies ==
  /\ alive /\ phase = "up"
  /\ alive' = FALSE
  /\ UNCHANGED <<phase, sinceWrite, wire, server>>

-----------------------------------------------------------------------------
(* The session of the server.                                               *)

\* tcpIncomming reads the next message.
ServerReads ==
  /\ open /\ work = Idle /\ wire # <<>>
  /\ work' = [kind |-> Head(wire).kind, age |-> 0]
  /\ wire' = Tail(wire)
  /\ UNCHANGED <<device, open, heartbeatSeconds, sinceReset>>

\* Mutants: the ping does not change the heartbeat; only a ping sets the ticker back.
ServerDone_KeepsDefault ==
  /\ open /\ work # Idle
  /\ work' = Idle
  /\ sinceReset' = IF work.kind = "verify" THEN sinceReset ELSE 0
  /\ UNCHANGED <<device, wire, open, heartbeatSeconds>>
ServerDone_PingsOnly ==
  /\ open /\ work # Idle
  /\ work' = Idle
  /\ heartbeatSeconds' = IF work.kind = "set" /\ H \in MinTimeout .. MaxTimeout THEN H
                         ELSE heartbeatSeconds
  /\ sinceReset' = IF work.kind \in {"set", "ping"} THEN 0 ELSE sinceReset
  /\ UNCHANGED <<device, wire, open>>

\* ... and has dealt with it: a ping may change the heartbeat, and every message
\* but a verification sets the ticker back.  A notification has been dealt with once
\* its user has taken the one before it (NotifyChan <- req), or has left.
ServerDone ==
  /\ open /\ work # Idle
  /\ work' = Idle
  /\ heartbeatSeconds' = IF work.kind = "set" /\ H \in MinTimeout .. MaxTimeout THEN H
                         ELSE heartbeatSeconds
  /\ sinceReset' = IF work.kind = "verify" THEN sinceReset ELSE 0
  /\ UNCHANGED <<device, wire, open>>

\* serve: heartbeatTimer ticks, the session ends without a word.
ServerCuts ==
  /\ open /\ sinceReset >= calcuCheckSenconds(heartbeatSeconds)
  /\ open' = FALSE
  /\ UNCHANGED <<device, wire, work, heartbeatSeconds, sinceReset>>

-----------------------------------------------------------------------------
(* Time.                                                                    *)

\* The period of the session's ticker, once it goes by the device's heartbeat.
Hold == H + H \div 2

\* Bound: the age of the last message is counted up to here.
Longest == MaxDelay + MaxVerify + (MaxWire + 1) * Hold + 2 * H + 2 * Default

\* The handling of a notification has no bound of its own: NotifyChan <- req waits
\* for as long as its user does not read.
MaxAge(kind) == IF kind = "verify" THEN MaxVerify ELSE IF kind = "req" THEN MaxBusy ELSE 0

\* Something must happen before time goes on.
DeviceDue == alive /\ (phase # "up" \/ sinceWrite >= H)
WireDue == work = Idle /\ wire # <<>> /\ Head(wire).age >= MaxDelay
WorkDue == work # Idle /\ work.kind # "notify" /\ work.age >= MaxAge(work.kind)
CutDue == sinceReset >= calcuCheckSenconds(heartbeatSeconds)

Tick ==
  /\ open /\ ~DeviceDue /\ ~WireDue /\ ~WorkDue /\ ~CutDue
  /\ sinceWrite' = IF sinceWrite < Longest THEN sinceWrite + 1 ELSE Longest
  /\ sinceReset' = sinceReset + 1
  /\ wire' = [i \in DOMAIN wire |-> [kind |-> wire[i].kind, age |-> wire[i].age + 1]]
  /\ work' = IF work = Idle THEN Idle ELSE [kind |-> work.kind, age |-> work.age + 1]
  /\ UNCHANGED <<alive, phase, open, heartbeatSeconds>>

Next ==
  \/ DeviceVerifies \/ DeviceSets \/ DevicePings \/ DeviceSends \/ DeviceDies
  \/ ServerReads \/ ServerDone \/ ServerCuts
  \/ Tick

Spec == Init /\ [][Next]_vars

-----------------------------------------------------------------------------
(* Properties.                                                              *)

\* A user who does not read has held up a notification for half a heartbeat, less
\* what it was under way.
HeldUp == work.kind = "notify" /\ work.age + MaxDelay >= H \div 2

\* The server cuts off a device that keeps its heartbeat only if a single user who
\* does not read its notifications has kept tcpIncomming from the messages behind
\* them for that long; however long the verifier, the services and the network take
\* within their bounds it does not, although the ticker runs on while they are asked.
AliveNotCut == alive => open \/ HeldUp

\* The ping that asks for the heartbeat has been dealt with.
Negotiated ==
  phase = "up" /\ \A m \in {work} \cup {wire[i] : i \in DOMAIN wire} : m.kind # "set"

\* A device that has stopped is cut off: at the latest one and a half of its own
\* heartbeats after the last of its messages has been dealt with.  Those before it
\* may be notifications, each of which its user may hold up for as long as the
\* ticker runs; when he reads at last, the ticker of a dead device starts anew.
DeadCutInTime ==
  open => sinceWrite <= MaxDelay + MaxVerify + (MaxWire + 1) * Hold
                        + (IF Negotiated THEN H + H \div 2 ELSE Default + Default \div 2)

=============================================================================

--------------------------- MODULE HeartbeatProofs ---------------------------
(***************************************************************************)
(* A device that keeps its heartbeat is cut off only while a user holds up *)
(* its notifications, and one that has stopped is cut off in time, for     *)
(* every heartbeat and every delay that TimeAssumption and SlackAssumption *)
(* admit.                                                                  *)
(*                                                                         *)
(* The age of the last Reset of the session's ticker is bounded by that of *)
(* the first message unread plus a heartbeat (Queued), of that which is    *)
(* dealt with (Worked), or of the device's last (Queued).  Until the       *)
(* session has dealt with the ping that asks for the heartbeat, it is as   *)
(* old as that ping (Awaited), and the session goes by the default.        *)
(*                                                                         *)
(* For a device that has stopped, DebtInv bounds by when all it has sent   *)
(* is dealt with: each message up to a request or a notification may cost  *)
(* a period of the ticker, Hold, and a notification no more than that,     *)
(* since it is only sent when the ping that asks for the heartbeat is on   *)
(* its way before it (OrderInv).                                           *)
(***************************************************************************)
EXTENDS Heartbeat, Integers, SequenceTheorems, TLAPS

Msg == [kind : Kinds, age : Nat]

Types ==
  /\ alive \in BOOLEAN /\ open \in BOOLEAN /\ phase \in {"verify", "set", "up"}
  /\ sinceWrite \in Nat /\ sinceReset \in Nat
  /\ wire \in Seq(Msg)
  /\ work \in Msg \cup {Idle}
  /\ heartbeatSeconds \in {Default, H}

\* The session still goes by the default: where the ping that changes it is.
Awaited ==
  /\ heartbeatSeconds = Default
  /\ \/ phase = "verify"
     \/ phase = "set" /\ Len(wire) = 0 /\ (work = Idle \/ work.kind = "verify")
     \/ phase = "set" /\ work = Idle /\ Len(wire) = 1 /\ wire[1].kind = "verify"
     \/ /\ phase = "up" /\ work = Idle /\ Len(wire) >= 2
        /\ wire[1].kind = "verify" /\ wire[2].kind = "set" /\ sinceReset = wire[2].age
     \/ /\ phase = "up" /\ work.kind = "verify" /\ Len(wire) >= 1
        /\ wire[1].kind = "set" /\ sinceReset = wire[1].age
     \/ /\ phase = "up" /\ work = Idle /\ Len(wire) >= 1
        /\ wire[1].kind = "set" /\ sinceReset = wire[1].age
        /\ sinceReset <= MaxDelay + MaxVerify
     \/ phase = "up" /\ work.kind = "set" /\ sinceReset <= MaxDelay + MaxVerify

\* Nothing ages before the device is up, and only its first message is a verification.
Start ==
  /\ phase # "up" => sinceReset = 0 /\ sinceWrite = 0
  /\ phase = "verify" => wire = <<>> /\ work = Idle
  /\ \A i \in 2 .. Len(wire) : wire[i].kind # "verify"
  /\ work # Idle /\ Len(wire) > 0 => wire[1].kind # "verify"

\* With nothing in hand that will set the ticker back, the first unread message does.
Queued ==
  work = Idle \/ work.kind = "verify" =>
    /\ Len(wire) = 0 => sinceReset <= sinceWrite
    /\ Len(wire) > 0 => sinceReset <= wire[1].age + H

\* Before time is up the first message is read, and a verification is early.
Unread ==
  work = Idle /\ Len(wire) > 0 =>
    /\ wire[1].age <= MaxDelay \/ sinceReset <= MaxDelay + MaxVerify
    /\ wire[1].kind = "verify" =>
         /\ sinceReset <= wire[1].age /\ wire[1].age <= MaxDelay
         /\ Len(wire) = 1 => sinceReset <= sinceWrite
         /\ Len(wire) >= 2 => sinceReset <= wire[2].age + H

\* What is dealt with was read in time.
Worked ==
  work # Idle =>
    /\ work.kind # "notify" => work.age <= MaxAge(work.kind)
    /\ sinceReset <= work.age + MaxDelay + H
    /\ work.kind = "verify" => sinceReset <= work.age + MaxDelay

Timely ==
  /\ open \/ HeldUp
  /\ sinceWrite <= H
  /\ Start /\ Queued /\ Unread /\ Worked
  /\ heartbeatSeconds # H => Awaited

IInv == Types /\ (alive => Timely)

\* No timeout that a ping may ask for overflows the 16 bits of calcuCheckSenconds.
LEMMA CheckSeconds ==
  ASSUME NEW h \in Nat, h <= 43200
  PROVE  calcuCheckSenconds(h) = h + h \div 2
  BY SMT DEF calcuCheckSenconds

\* What the two assumptions say of the checks.
LEMMA Slack ==
  /\ H \in Nat /\ Default \in Nat /\ MaxDelay \in Nat /\ MaxVerify \in Nat /\ MaxBusy \in Nat
  /\ calcuCheckSenconds(H) = H + H \div 2
  /\ calcuCheckSenconds(Default) = Default + Default \div 2
  /\ H + MaxDelay + MaxBusy < calcuCheckSenconds(H)
  /\ MaxDelay + MaxVerify < calcuCheckSenconds(Default)
  /\ MaxVerify <= H
<1>1. H \in Nat /\ Default \in Nat /\ MaxDelay \in Nat /\ MaxVerify \in Nat /\ MaxBusy \in Nat
  BY TimeAssumption
<1>2. H <= 43200 /\ Default <= 43200
  BY TimeAssumption, SMT
<1>3. /\ calcuCheckSenconds(H) = H + H \div 2
      /\ calcuCheckSenconds(Default) = Default + Default \div 2
  BY <1>1, <1>2, CheckSeconds, SMT
<1>4. QED BY <1>1, <1>3, SlackAssumption, SMT

\* The first message of the wire is a message.
LEMMA First ==
  ASSUME wire \in Seq(Msg), Len(wire) > 0
  PROVE  wire[1] \in Msg /\ wire[1].age \in Nat /\ wire[1].kind \in Kinds
<1>1. wire[1] \in Msg
  BY SMT
<1>2. QED BY <1>1, SMT DEF Msg

\* The lengths that the steps tell apart.
LEMMA Lengths ==
  ASSUME NEW n \in Nat
  PROVE  n = 0 \/ n = 1 \/ n >= 2
  BY SMT

\* Where the invariant holds the ticker is not due, unless a notification is held up.
LEMMA NotDue ==
  ASSUME Types, alive, Timely, ~HeldUp
  PROVE  sinceReset < calcuCheckSenconds(heartbeatSeconds)
<1>1. CASE heartbeatSeconds = H
  <2>1. CASE work = Idle /\ Len(wire) = 0
    BY <1>1, <2>1, Slack, SMT DEF Types, Timely, Queued
  <2>2. CASE work = Idle /\ Len(wire) > 0
    <3>1. wire[1].age \in Nat
      BY <2>2, First, SMT DEF Types
    <3>2. sinceReset <= wire[1].age + H
      BY <2>2, Zenon DEF Timely, Queued
    <3>3. wire[1].age <= MaxDelay \/ sinceReset <= MaxDelay + MaxVerify
      BY <2>2, Zenon DEF Timely, Unread
    <3>4. QED BY <1>1, <3>1, <3>2, <3>3, Slack, SMT DEF Types
  <2>3. CASE work # Idle
    <3>1. \/ work.age <= MaxVerify /\ work.kind = "verify"
          \/ work.age <= MaxBusy
          \/ work.age + MaxDelay < H \div 2
      BY <2>3, Slack, SMT DEF Types, Timely, Worked, MaxAge, Msg, Idle, HeldUp
    <3>2. QED BY <1>1, <2>3, <3>1, Slack, SMT DEF Types, Timely, Worked, Msg
  <2>4. Len(wire) \in Nat
    BY SMT DEF Types
  <2>5. QED BY <2>1, <2>2, <2>3, <2>4, SMT
<1>2. CASE heartbeatSeconds # H
  <2>1. sinceReset <= MaxDelay + MaxVerify
    <3>1. CASE phase # "up"
      BY <3>1, Slack, SMT DEF Types, Timely, Start
    <3>2. CASE /\ phase = "up" /\ work = Idle /\ Len(wire) >= 2 /\ wire[1].kind = "verify"
      <4>1. wire[1].age \in Nat
        BY <3>2, First, SMT DEF Types
      <4>2. sinceReset <= wire[1].age /\ wire[1].age <= MaxDelay
        BY <3>2, Slack, SMT DEF Types, Timely, Unread
      <4>3. QED BY <4>1, <4>2, Slack, SMTT(30) DEF Types
    <3>3. CASE work.kind = "verify"
      BY <3>3, Slack, SMT DEF Types, Timely, Worked, MaxAge, Msg, Idle
    <3>4. CASE sinceReset <= MaxDelay + MaxVerify
      BY <3>4
    <3>5. Awaited
      BY <1>2, Zenon DEF Timely
    <3>6. QED BY <3>1, <3>2, <3>3, <3>4, <3>5, SMT DEF Awaited
  <2>2. QED BY <1>2, <2>1, Slack, SMT DEF Types
<1>3. QED BY <1>1, <1>2

\* Tick changes the ages on the wire only.
LEMMA AgedWire ==
  ASSUME wire \in Seq(Msg), NEW w,
         w = [i \in DOMAIN wire |-> [kind |-> wire[i].kind, age |-> wire[i].age + 1]]
  PROVE  /\ w \in Seq(Msg) /\ Len(w) = Len(wire)
         /\ \A i \in 1 .. Len(wire) : w[i].kind = wire[i].kind /\ w[i].age = wire[i].age + 1
<1>1. DOMAIN wire = 1 .. Len(wire) /\ Len(wire) \in Nat
  BY SMT
<1>2. \A i \in 1 .. Len(wire) : wire[i] \in Msg
  BY SMT
<1>3. w \in [1 .. Len(wire) -> Msg]
  BY <1>1, <1>2, SMT DEF Msg
<1>4. QED BY <1>1, <1>3, SMT

\* What the period of the ticker and the bound of sinceWrite are.
LEMMA Periods ==
  /\ Hold \in Nat /\ Hold = H + H \div 2 /\ calcuCheckSenconds(H) = Hold /\ MaxBusy <= Hold
  /\ Longest \in Nat /\ H <= Longest
<1>1. Hold \in Nat /\ Hold = H + H \div 2
  BY TimeAssumption, SMT DEF Hold
<1>2. calcuCheckSenconds(H) = Hold /\ MaxBusy <= Hold
  BY <1>1, Slack, SMT
<1>3. PICK p \in Nat : p = (MaxWire + 1) * Hold
  <2>1. (MaxWire + 1) * Hold \in Nat
    BY <1>1, TimeAssumption, SMT
  <2>2. QED BY <2>1
<1>4. Longest = MaxDelay + MaxVerify + p + 2 * H + 2 * Default
  BY <1>3 DEF Longest
<1>5. Longest \in Nat /\ H <= Longest
  BY <1>4, TimeAssumption, SMT
<1>6. QED BY <1>1, <1>2, <1>5

\* The invariant holds at first.
LEMMA InitIInv == Init => IInv
<1>1. ASSUME Init PROVE Types
  BY <1>1, TimeAssumption, SMT DEF Init, Types
<1>2. ASSUME Init PROVE Timely
  BY <1>2, TimeAssumption, SMT DEF Init, Timely, Start, Queued, Unread, Worked, Awaited
<1>3. QED BY <1>1, <1>2 DEF IInv

\* A message of a device that is up keeps it.
LEMMA WriteStep ==
  ASSUME NEW kind \in Kinds, IInv, Writes(kind), kind # "verify",
         phase = "up" /\ phase' = "up"
  PROVE  IInv'
<1>1. /\ alive /\ alive' = alive /\ sinceWrite' = 0 /\ work' = work /\ open' = open
      /\ heartbeatSeconds' = heartbeatSeconds /\ sinceReset' = sinceReset
      /\ wire' = Append(wire, [kind |-> kind, age |-> 0])
  BY SMT DEF Writes, server
<1>2. Types /\ Timely
  BY <1>1 DEF IInv
<1>3. [kind |-> kind, age |-> 0] \in Msg
  BY SMT DEF Msg
<1>4. /\ wire' \in Seq(Msg) /\ Len(wire') = Len(wire) + 1 /\ Len(wire) \in Nat
      /\ wire'[Len(wire) + 1] = [kind |-> kind, age |-> 0]
      /\ \A i \in 1 .. Len(wire) : wire'[i] = wire[i]
  BY <1>1, <1>2, <1>3, SMT DEF Types
<1>5. Types'
  BY <1>1, <1>2, <1>4, SMT DEF Types
<1>6. Start'
  BY <1>1, <1>2, <1>4, SMT DEF Timely, Start
<1>7. CASE Len(wire) = 0
  <2>1. wire'[1].kind = kind /\ wire'[1].age = 0
    BY <1>4, <1>7, SMT
  <2>2. Queued'
    BY <1>1, <1>2, <1>4, <1>7, <2>1, Slack, SMT DEF Types, Timely, Queued
  <2>3. Unread'
    BY <1>1, <1>2, <1>4, <1>7, <2>1, Slack, SMT DEF Types, Timely, Unread
  <2>4. Worked'
    BY <1>1, <1>2, Zenon DEF Timely, Worked
  <2>5. heartbeatSeconds' # H => Awaited'
    BY <1>1, <1>2, <1>4, <1>7, <2>1, SMT DEF Timely, Awaited
  <2>6. QED BY <1>1, <1>2, <1>5, <1>6, <2>2, <2>3, <2>4, <2>5, Slack, SMT DEF IInv, Timely, HeldUp
<1>8. CASE Len(wire) > 0
  <2>1. wire'[1] = wire[1] /\ Len(wire') > 0
    BY <1>4, <1>8, SMT
  <2>2. Queued'
    BY <1>1, <1>2, <1>4, <1>8, <2>1, SMT DEF Timely, Queued
  <2>3. Unread'
    <3>1. CASE Len(wire) = 1
      <4>1. wire'[2].age = 0
        BY <1>4, <3>1, SMT
      <4>2. QED BY <1>1, <1>2, <1>4, <2>1, <3>1, <4>1, Slack, SMT DEF Types, Timely, Unread
    <3>2. CASE Len(wire) >= 2
      <4>1. wire'[2] = wire[2]
        BY <1>4, <3>2, SMT
      <4>2. QED BY <1>1, <1>2, <1>4, <2>1, <3>2, <4>1, SMT DEF Timely, Unread
    <3>3. Len(wire) = 0 \/ Len(wire) = 1 \/ Len(wire) >= 2
      BY <1>4, Lengths, Zenon
    <3>a. Len(wire) # 0
      BY <1>8, SMT
    <3>4. QED BY <3>1, <3>2, <3>3, <3>a
  <2>4. Worked'
    BY <1>1, <1>2, Zenon DEF Timely, Worked
  <2>5. heartbeatSeconds' # H => Awaited'
    <3>1. Len(wire) >= 2 => wire'[2] = wire[2] /\ Len(wire') >= 2
      BY <1>4, SMT
    <3>2. Len(wire') >= 1
      BY <1>4, SMT
    <3>3. QED BY <1>1, <1>2, <1>8, <2>1, <3>1, <3>2, SMT DEF Timely, Awaited
  <2>6. QED BY <1>1, <1>2, <1>5, <1>6, <2>2, <2>3, <2>4, <2>5, Slack, SMT DEF IInv, Timely, HeldUp
<1>9. QED BY <1>4, <1>7, <1>8, SMT

\* So does its verification,
LEMMA VerifyStep ==
  ASSUME IInv, DeviceVerifies
  PROVE  IInv'
<1>1. /\ alive /\ alive' = alive /\ sinceWrite' = 0 /\ work' = work /\ open' = open
      /\ heartbeatSeconds' = heartbeatSeconds /\ sinceReset' = sinceReset
      /\ wire' = Append(wire, [kind |-> "verify", age |-> 0]) /\ phase = "verify"
      /\ phase' = IF H = Default THEN "up" ELSE "set"
  BY SMT DEF DeviceVerifies, Writes, server
<1>2. Types /\ Timely
  BY <1>1 DEF IInv
<1>3. wire = <<>> /\ work = Idle /\ sinceReset = 0
  BY <1>1, <1>2, SMT DEF Timely, Start
<1>4. [kind |-> "verify", age |-> 0] \in Msg
  BY SMT DEF Msg, Kinds
<1>5. /\ wire' \in Seq(Msg) /\ Len(wire') = 1
      /\ wire'[1] = [kind |-> "verify", age |-> 0]
  BY <1>1, <1>3, <1>4, SMT
<1>6. Types'
  BY <1>1, <1>2, <1>5, SMT DEF Types
<1>7. Start' /\ Queued' /\ Unread' /\ Worked'
  BY <1>1, <1>3, <1>5, Slack, SMT DEF Start, Queued, Unread, Worked
<1>8. heartbeatSeconds' # H => Awaited'
  BY <1>1, <1>2, <1>3, <1>5, SMT DEF Types, Awaited
<1>9. QED BY <1>1, <1>2, <1>6, <1>7, <1>8, Slack, SMT DEF IInv, Timely, HeldUp

\* the ping that asks for the heartbeat,
LEMMA SetStep ==
  ASSUME IInv, DeviceSets
  PROVE  IInv'
<1>1. /\ alive /\ alive' = alive /\ sinceWrite' = 0 /\ work' = work /\ open' = open
      /\ heartbeatSeconds' = heartbeatSeconds /\ sinceReset' = sinceReset
      /\ wire' = Append(wire, [kind |-> "set", age |-> 0]) /\ phase = "set" /\ phase' = "up"
  BY SMT DEF DeviceSets, Writes, server
<1>2. Types /\ Timely
  BY <1>1 DEF IInv
<1>3. sinceReset = 0
  BY <1>1, <1>2, SMT DEF Timely, Start
<1>4. [kind |-> "set", age |-> 0] \in Msg
  BY SMT DEF Msg, Kinds
<1>5. /\ wire' \in Seq(Msg) /\ Len(wire') = Len(wire) + 1 /\ Len(wire) \in Nat
      /\ wire'[Len(wire) + 1] = [kind |-> "set", age |-> 0]
      /\ \A i \in 1 .. Len(wire) : wire'[i] = wire[i]
  BY <1>1, <1>2, <1>4, SMT DEF Types
<1>6. Types'
  BY <1>1, <1>2, <1>5, SMT DEF Types
<1>7. Start'
  BY <1>1, <1>2, <1>5, SMT DEF Timely, Start
<1>8. Worked'
  BY <1>1, <1>2, Zenon DEF Timely, Worked
<1>9. wire'[1].age \in Nat /\ Len(wire') > 0
  <2>1. Len(wire') > 0
    BY <1>5, SMT
  <2>2. wire'[1] \in Msg
    BY <1>5, <2>1, SMT
  <2>3. QED BY <2>1, <2>2, SMT DEF Msg
<1>10. Queued' /\ (Len(wire) = 0 => Unread')
  BY <1>1, <1>3, <1>5, <1>9, Slack, SMTT(30) DEF Queued, Unread
<1>11. Len(wire) > 0 => Unread'
  <2>1. CASE Len(wire) = 1
    <3>1. wire'[2].age = 0 /\ wire'[1] = wire[1]
      BY <1>5, <2>1, SMT
    <3>2. QED BY <1>1, <1>2, <1>3, <1>5, <2>1, <3>1, Slack, SMT DEF Types, Timely, Unread
  <2>2. CASE Len(wire) >= 2
    <3>1. wire'[2] = wire[2] /\ wire'[1] = wire[1]
      BY <1>5, <2>2, SMT
    <3>2. QED BY <1>1, <1>2, <1>5, <2>2, <3>1, SMT DEF Timely, Unread
  <2>3. Len(wire) = 0 \/ Len(wire) = 1 \/ Len(wire) >= 2
    BY <1>5, Lengths, Zenon
  <2>4. QED BY <2>1, <2>2, <2>3, SMT
<1>12. heartbeatSeconds' # H => Awaited'
  <2>1. CASE Len(wire) = 0
    <3>1. wire'[1].kind = "set" /\ wire'[1].age = 0
      BY <1>5, <2>1, SMT
    <3>2. QED BY <1>1, <1>2, <1>3, <1>5, <2>1, <3>1, Slack, SMT DEF Timely, Awaited
  <2>2. CASE Len(wire) > 0
    <3>1. heartbeatSeconds # H => Len(wire) = 1 /\ work = Idle /\ wire[1].kind = "verify"
      BY <1>1, <1>2, <2>2, SMT DEF Timely, Awaited
    <3>2. CASE heartbeatSeconds # H
      <4>1. /\ wire'[1].kind = "verify" /\ Len(wire') >= 2
            /\ wire'[2].kind = "set" /\ wire'[2].age = 0
        <5>1. Len(wire) = 1 /\ 1 \in 1 .. Len(wire)
          BY <3>1, <3>2, SMT
        <5>2. wire'[1] = wire[1] /\ wire'[2] = [kind |-> "set", age |-> 0] /\ Len(wire') = 2
          BY <1>5, <5>1, SMT
        <5>3. QED BY <3>1, <3>2, <5>2, SMT
      <4>2. heartbeatSeconds = Default
        BY <1>2, <3>2 DEF Types
      <4>3. QED BY <1>1, <1>3, <3>1, <3>2, <4>1, <4>2, Zenon DEF Awaited
    <3>3. QED BY <1>1, <3>2
  <2>3. QED BY <2>1, <2>2, <1>5, SMT
<1>13. QED BY <1>1, <1>2, <1>6, <1>7, <1>8, <1>10, <1>11, <1>12, <1>5, Slack, SMT DEF IInv, Timely, HeldUp

\* tcpIncomming reading a message,
LEMMA ReadStep ==
  ASSUME IInv, ServerReads
  PROVE  IInv'
<1>1. /\ alive' = alive /\ phase' = phase /\ sinceWrite' = sinceWrite /\ open /\ open' = open
      /\ heartbeatSeconds' = heartbeatSeconds /\ sinceReset' = sinceReset
      /\ work = Idle /\ wire' = Tail(wire) /\ work' = [kind |-> Head(wire).kind, age |-> 0]
  BY SMT DEF ServerReads, device
<1>2. Types
  BY DEF IInv
<1>3. /\ Len(wire) > 0 /\ Len(wire) \in Nat /\ Head(wire) = wire[1]
      /\ wire' \in Seq(Msg) /\ Len(wire') = Len(wire) - 1
      /\ \A i \in 1 .. Len(wire') : wire'[i] = wire[i + 1]
  BY <1>1, <1>2, SMT DEF Types, ServerReads
<1>4. wire[1].age \in Nat /\ wire[1].kind \in Kinds
  BY <1>2, <1>3, First DEF Types
<1>5. work'.kind = wire[1].kind /\ work'.age = 0 /\ work' \in Msg /\ work' # Idle
  BY <1>1, <1>3, <1>4, SMT DEF Msg, Idle, Kinds
<1>6. Types'
  BY <1>1, <1>2, <1>3, <1>5, SMT DEF Types
<1>7. SUFFICES ASSUME alive PROVE Timely'
  BY <1>1, <1>6 DEF IInv
<1>8. Timely
  BY <1>7 DEF IInv
<1>9. Start'
  <2>1. phase # "verify"
    BY <1>3, <1>8, SMT DEF Timely, Start
  <2>2. \A i \in 1 .. Len(wire') : wire'[i].kind # "verify"
    BY <1>3, <1>8, SMT DEF Timely, Start
  <2>3. QED BY <1>1, <1>3, <1>8, <2>1, <2>2, SMT DEF Timely, Start
<1>10. Queued'
  <2>1. CASE wire[1].kind # "verify"
    BY <1>5, <2>1, SMT DEF Queued
  <2>2. CASE wire[1].kind = "verify"
    <3>1. sinceReset <= MaxDelay
      BY <1>1, <1>2, <1>3, <1>4, <1>8, <2>2, Slack, SMT DEF Types, Timely, Unread
    <3>2. Len(wire) = 1 => sinceReset <= sinceWrite
      BY <1>1, <1>3, <1>8, <2>2, SMT DEF Timely, Unread
    <3>3. Len(wire) >= 2 => sinceReset <= wire'[1].age + H
      BY <1>1, <1>3, <1>8, <2>2, SMT DEF Timely, Unread
    <3>4. QED BY <1>1, <1>3, <3>2, <3>3, SMT DEF Queued
  <2>3. QED BY <2>1, <2>2
<1>11. Unread'
  BY <1>5, SMT DEF Unread
<1>12. Worked'
  BY <1>1, <1>2, <1>3, <1>4, <1>5, <1>8, Slack, SMT DEF Types, Timely, Queued, Unread, Worked, MaxAge
<1>13. heartbeatSeconds' # H => Awaited'
  <2>1. Len(wire) >= 2 => wire'[1] = wire[2] /\ Len(wire') >= 1
    BY <1>3, SMT
  <2>2. QED BY <1>1, <1>2, <1>3, <1>5, <1>8, <2>1, Slack, SMT DEF Timely, Awaited, Idle
<1>14. QED BY <1>1, <1>8, <1>9, <1>10, <1>11, <1>12, <1>13 DEF Timely

\* and having dealt with it,
LEMMA DoneStep ==
  ASSUME IInv, ServerDone
  PROVE  IInv'
<1>1. /\ alive' = alive /\ phase' = phase /\ sinceWrite' = sinceWrite /\ open /\ open' = open
      /\ wire' = wire /\ work # Idle /\ work' = Idle
      /\ heartbeatSeconds' = IF work.kind = "set" /\ H \in MinTimeout .. MaxTimeout THEN H
                             ELSE heartbeatSeconds
      /\ sinceReset' = IF work.kind = "verify" THEN sinceReset ELSE 0
  BY SMT DEF ServerDone, device
<1>2. Types
  BY DEF IInv
<1>3. H \in MinTimeout .. MaxTimeout
  BY TimeAssumption, SMT
<1>4. Types'
  BY <1>1, <1>2, <1>3, SMT DEF Types
<1>5. SUFFICES ASSUME alive PROVE Timely'
  BY <1>1, <1>4 DEF IInv
<1>6. Timely
  BY <1>5 DEF IInv
<1>7. Len(wire) \in Nat
  BY <1>2, SMT DEF Types
<1>8. Start'
  BY <1>1, <1>2, <1>6, SMT DEF Types, Timely, Start
<1>9. ASSUME Len(wire) > 0 PROVE wire[1].age \in Nat /\ wire[1].kind \in Kinds
  BY <1>2, <1>9, First DEF Types
<1>10. Queued'
  BY <1>1, <1>2, <1>6, <1>7, <1>9, Slack, SMT DEF Types, Timely, Queued
<1>11. Unread'
  <2>1. ASSUME Len(wire) > 0, wire[1].kind = "verify"
        PROVE  FALSE
    BY <1>1, <1>6, <2>1, SMT DEF Timely, Start
  <2>2. QED BY <1>1, <1>2, <1>6, <1>7, <1>9, <2>1, Slack, SMT
     DEF Types, Timely, Unread, Worked, MaxAge, Msg, Idle
<1>12. Worked'
  BY <1>1, Zenon DEF Worked
<1>13. heartbeatSeconds' # H => Awaited'
  <2>1. CASE work.kind = "set"
    BY <1>1, <1>3, <2>1, SMT
  <2>2. CASE work.kind # "set" /\ heartbeatSeconds # H
    <3>1. Awaited /\ (phase = "verify" => FALSE)
      BY <1>1, <1>6, <2>2, SMT DEF Timely, Start
    <3>2. CASE work.kind = "verify"
      BY <1>1, <1>2, <1>6, <2>2, <3>1, <3>2, Slack, SMT DEF Types, Timely, Awaited, Worked, MaxAge, Msg, Idle
    <3>3. CASE work.kind # "verify"
      BY <1>1, <2>2, <3>1, <3>3, SMT DEF Awaited
    <3>4. QED BY <3>2, <3>3
  <2>3. QED BY <1>1, <2>1, <2>2, SMT
<1>14. QED BY <1>1, <1>6, <1>8, <1>10, <1>11, <1>12, <1>13 DEF Timely

\* and time.
LEMMA TickStep ==
  ASSUME IInv, Tick
  PROVE  IInv'
<1>1. /\ open /\ ~DeviceDue /\ ~WireDue /\ ~WorkDue
      /\ alive' = alive /\ phase' = phase /\ open' = open
      /\ heartbeatSeconds' = heartbeatSeconds /\ sinceReset' = sinceReset + 1
      /\ sinceWrite' = IF sinceWrite < Longest THEN sinceWrite + 1 ELSE Longest
      /\ work' = IF work = Idle THEN Idle ELSE [kind |-> work.kind, age |-> work.age + 1]
  BY SMT DEF Tick
<1>2. Types
  BY DEF IInv
<1>3. /\ wire' \in Seq(Msg) /\ Len(wire') = Len(wire) /\ Len(wire) \in Nat
      /\ \A i \in 1 .. Len(wire) :
           wire'[i].kind = wire[i].kind /\ wire'[i].age = wire[i].age + 1
  BY <1>2, AgedWire, SMT DEF Tick, Types
<1>4. Longest \in Nat /\ H <= Longest
  BY Periods
<1>5. /\ work \in Msg \cup {Idle} /\ work' \in Msg \cup {Idle}
      /\ (work = Idle) = (work' = Idle) /\ work.kind = work'.kind
      /\ work # Idle => work'.age = work.age + 1 /\ work.age \in Nat
  BY <1>1, <1>2, SMT DEF Types, Msg, Idle, Kinds
<1>6. Types'
  BY <1>1, <1>2, <1>3, <1>4, <1>5, SMT DEF Types
<1>7. SUFFICES ASSUME alive PROVE Timely'
  BY <1>1, <1>6 DEF IInv
<1>8. Timely
  BY <1>7 DEF IInv
<1>a. /\ sinceReset \in Nat /\ sinceWrite \in Nat /\ H \in Nat
      /\ MaxDelay \in Nat /\ MaxVerify \in Nat /\ MaxBusy \in Nat
  BY <1>2, Slack DEF Types
<1>9. phase = "up" /\ sinceWrite < H /\ sinceWrite' = sinceWrite + 1
  <2>1. phase = "up" /\ sinceWrite < H
    BY <1>1, <1>2, <1>7, <1>a, SMT DEF DeviceDue, Types
  <2>2. QED BY <1>1, <1>4, <1>a, <2>1, SMT
<1>10. Start'
  BY <1>1, <1>3, <1>5, <1>8, <1>9, SMT DEF Timely, Start
<1>11. ASSUME Len(wire) > 0
       PROVE  /\ wire[1].age \in Nat /\ wire'[1].age = wire[1].age + 1
              /\ wire'[1].kind = wire[1].kind
  BY <1>2, <1>3, <1>11, First, SMT DEF Types
<1>12. ASSUME Len(wire) >= 2
       PROVE  /\ wire[2].age \in Nat /\ wire'[2].age = wire[2].age + 1
              /\ wire'[2].kind = wire[2].kind
  <2>1. wire[2] \in Msg
    BY <1>2, <1>3, <1>12, SMT DEF Types
  <2>2. QED BY <1>3, <1>12, <2>1, SMT DEF Msg
<1>13. Queued'
  <2>1. CASE Len(wire) = 0
    BY <1>1, <1>3, <1>5, <1>8, <1>9, <1>a, <2>1, SMT DEF Timely, Queued
  <2>2. CASE Len(wire) > 0
    BY <1>1, <1>3, <1>5, <1>8, <1>11, <1>a, <2>2, SMTT(30) DEF Timely, Queued
  <2>3. QED BY <1>3, <2>1, <2>2, SMT
<1>14. Unread'
  <2>1. CASE work = Idle /\ Len(wire) > 0
    <3>1. wire # <<>> /\ Head(wire) = wire[1]
      BY <1>2, <2>1, SMT DEF Types
    <3>2. wire[1].age < MaxDelay
      BY <1>1, <1>11, <1>a, <2>1, <3>1, SMT DEF WireDue
    <3>3. wire'[1].age <= MaxDelay
      BY <1>11, <1>a, <2>1, <3>2, SMT
    <3>4. ASSUME wire[1].kind = "verify"
          PROVE  /\ sinceReset' <= wire'[1].age
                 /\ Len(wire') = 1 => sinceReset' <= sinceWrite'
                 /\ Len(wire') >= 2 => sinceReset' <= wire'[2].age + H
      <4>1. /\ sinceReset <= wire[1].age
            /\ Len(wire) = 1 => sinceReset <= sinceWrite
            /\ Len(wire) >= 2 => sinceReset <= wire[2].age + H
        BY <1>8, <2>1, <3>4, Zenon DEF Timely, Unread
      <4>2. sinceReset' <= wire'[1].age
        BY <1>1, <1>11, <1>a, <2>1, <4>1, SMT
      <4>3. Len(wire') = 1 => sinceReset' <= sinceWrite'
        <5>1. ASSUME Len(wire') = 1 PROVE sinceReset <= sinceWrite
          BY <1>3, <4>1, <5>1, Zenon
        <5>2. sinceReset' = sinceReset + 1 /\ sinceWrite' = sinceWrite + 1
          BY <1>1, <1>9
        <5>3. QED BY <1>a, <5>1, <5>2, SMT
      <4>4. Len(wire') >= 2 => sinceReset' <= wire'[2].age + H
        BY <1>1, <1>3, <1>12, <1>a, <4>1, SMT
      <4>5. QED BY <4>2, <4>3, <4>4
    <3>5. wire'[1].kind = wire[1].kind
      BY <1>11, <2>1
    <3>6. QED BY <3>3, <3>4, <3>5, Zenon DEF Unread
  <2>2. CASE ~(work = Idle /\ Len(wire) > 0)
    BY <1>3, <1>5, <2>2, Zenon DEF Unread
  <2>3. QED BY <2>1, <2>2
<1>15. Worked'
  <2>1. CASE work # Idle
    <3>1. work.kind # "notify" => work.age < MaxAge(work.kind)
      BY <1>1, <1>5, <1>a, <2>1, SMT DEF WorkDue, MaxAge
    <3>2. /\ sinceReset <= work.age + MaxDelay + H
          /\ work.kind = "verify" => sinceReset <= work.age + MaxDelay
      BY <1>8, <2>1, Zenon DEF Timely, Worked
    <3>3. MaxAge(work.kind) \in Nat
      BY <1>a, SMT DEF MaxAge
    <3>4. work'.age = work.age + 1 /\ work.age \in Nat /\ work'.kind = work.kind
      BY <1>5, <2>1
    <3>5. work.kind # "notify" => work'.age <= MaxAge(work.kind)
      BY <3>1, <3>3, <3>4, SMT
    <3>6. sinceReset' <= work'.age + MaxDelay + H
      BY <1>1, <1>a, <3>2, <3>4, SMT
    <3>7. work'.kind = "verify" => sinceReset' <= work'.age + MaxDelay
      BY <1>1, <1>a, <3>2, <3>4, SMT
    <3>8. QED BY <3>4, <3>5, <3>6, <3>7, Zenon DEF Worked
  <2>2. CASE work = Idle
    BY <1>5, <2>2, Zenon DEF Worked
  <2>3. QED BY <2>1, <2>2
<1>16. ASSUME heartbeatSeconds' # H PROVE Awaited'
  <2>1. Awaited /\ heartbeatSeconds' = Default
    BY <1>1, <1>8, <1>16, Zenon DEF Timely, Awaited
  <2>2. CASE /\ work = Idle /\ Len(wire) >= 2
             /\ wire[1].kind = "verify" /\ wire[2].kind = "set" /\ sinceReset = wire[2].age
    <3>1. /\ wire'[1].kind = "verify" /\ wire'[2].kind = "set"
          /\ sinceReset' = wire'[2].age /\ Len(wire') >= 2
      BY <1>1, <1>3, <1>11, <1>12, <2>2, SMT
    <3>2. QED BY <1>1, <1>5, <1>9, <2>1, <2>2, <3>1, Zenon DEF Awaited
  <2>3. CASE /\ work.kind = "verify" /\ Len(wire) >= 1
             /\ wire[1].kind = "set" /\ sinceReset = wire[1].age
    <3>1. wire'[1].kind = "set" /\ sinceReset' = wire'[1].age /\ Len(wire') >= 1
      BY <1>1, <1>3, <1>11, <2>3, SMT
    <3>2. QED BY <1>1, <1>5, <1>9, <2>1, <2>3, <3>1, Zenon DEF Awaited
  <2>4. CASE /\ work = Idle /\ Len(wire) >= 1
             /\ wire[1].kind = "set" /\ sinceReset = wire[1].age
    <3>1. wire # <<>> /\ Head(wire) = wire[1] /\ Len(wire) > 0
      BY <1>2, <2>4, SMT DEF Types
    <3>2. wire[1].age < MaxDelay
      BY <1>1, <1>11, <1>a, <2>4, <3>1, SMT DEF WireDue
    <3>3. wire'[1].kind = "set" /\ sinceReset' = wire'[1].age /\ Len(wire') >= 1
      BY <1>1, <1>3, <1>11, <2>4, <3>1, SMT
    <3>4. sinceReset' <= MaxDelay + MaxVerify
      BY <1>1, <1>a, <2>4, <3>2, SMT
    <3>5. QED BY <1>1, <1>5, <1>9, <2>1, <2>4, <3>3, <3>4, Zenon DEF Awaited
  <2>5. CASE work.kind = "set"
    <3>1. work # Idle
      BY <2>5, SMT DEF Idle
    <3>2. work.age \in Nat
      BY <1>5, <3>1
    <3>3. MaxAge(work.kind) = 0
      BY <2>5, SMT DEF MaxAge
    <3>4. QED BY <1>1, <2>5, <3>1, <3>2, <3>3, SMT DEF WorkDue
  <2>6. QED BY <1>9, <2>1, <2>2, <2>3, <2>4, <2>5, SMT DEF Awaited
<1>17. open' /\ sinceWrite' <= H
  BY <1>1, <1>9, <1>a, SMT
<1>18. QED BY <1>10, <1>13, <1>14, <1>15, <1>16, <1>17, Zenon DEF Timely

\* Every step keeps the invariant.
LEMMA NextIInv == IInv /\ [Next]_vars => IInv'
<1>1. ASSUME IInv, DeviceVerifies PROVE IInv'
  BY <1>1, VerifyStep
<1>2. ASSUME IInv, DeviceSets PROVE IInv'
  BY <1>2, SetStep
<1>3. ASSUME IInv, DevicePings PROVE IInv'
  <2>1. Writes("ping") /\ phase = "up" /\ phase' = "up" /\ "ping" \in Kinds
    BY <1>3 DEF DevicePings, Kinds
  <2>2. QED BY <1>3, <2>1, WriteStep
<1>4. ASSUME IInv, DeviceSends PROVE IInv'
  <2>1. phase = "up" /\ phase' = "up"
    BY <1>4 DEF DeviceSends
  <2>2. PICK kind \in {"req", "notify", "resp"} : Writes(kind)
    BY <1>4 DEF DeviceSends
  <2>3. kind \in Kinds /\ kind # "verify"
    BY <2>2 DEF Kinds
  <2>4. QED BY <1>4, <2>1, <2>2, <2>3, WriteStep
<1>5. ASSUME IInv, DeviceDies PROVE IInv'
  BY <1>5 DEF DeviceDies, IInv, Types, server
<1>6. ASSUME IInv, ServerReads PROVE IInv'
  BY <1>6, ReadStep
<1>7. ASSUME IInv, ServerDone PROVE IInv'
  BY <1>7, DoneStep
<1>8. ASSUME IInv, ServerCuts PROVE IInv'
  <2>1. Types'
    BY <1>8 DEF ServerCuts, IInv, Types, device
  <2>2. ASSUME alive PROVE Timely /\ HeldUp
    <3>1. Types /\ Timely
      BY <1>8, <2>2 DEF IInv
    <3>2. ASSUME ~HeldUp PROVE FALSE
      <4>1. sinceReset < calcuCheckSenconds(heartbeatSeconds)
        BY <2>2, <3>1, <3>2, NotDue
      <4>2. sinceReset \in Nat /\ calcuCheckSenconds(heartbeatSeconds) \in Nat
        BY <3>1, Slack, SMT DEF Types
      <4>3. QED BY <1>8, <4>1, <4>2, SMT DEF ServerCuts
    <3>3. QED BY <3>1, <3>2
  <2>3. UNCHANGED <<alive, phase, sinceWrite, wire, work, heartbeatSeconds, sinceReset>>
    BY <1>8 DEF ServerCuts, device
  <2>4. Timely /\ HeldUp => Timely'
    BY <2>3, Zenon DEF Timely, HeldUp, Start, Queued, Unread, Worked, Awaited
  <2>5. QED BY <2>1, <2>2, <2>3, <2>4 DEF IInv
<1>9. ASSUME IInv, Tick PROVE IInv'
  BY <1>9, TickStep
<1>10. ASSUME IInv, UNCHANGED vars PROVE IInv'
  BY <1>10 DEF vars, IInv, Types, Timely, HeldUp, Start, Queued, Unread, Worked, Awaited
<1>11. QED
  BY <1>1, <1>2, <1>3, <1>4, <1>5, <1>6, <1>7, <1>8, <1>9, <1>10 DEF Next

\* A device that keeps its heartbeat is cut off by the ticker of the session only while
\* one user who does not read has held up a notification for half a heartbeat, less
\* what it was under way: however many messages came before, and although
\* devicePingProcess and the other handlers run while the ticker goes on.
THEOREM AliveKept == Spec => []AliveNotCut
<1>1. IInv => AliveNotCut
  BY DEF IInv, Timely, AliveNotCut
<1>2. QED BY <1>1, InitIInv, NextIInv, PTL DEF Spec

-----------------------------------------------------------------------------
(* A device that has stopped is cut off in time.                            *)

\* The kind of the message in hand (0) and of those on the wire.
Kind(i) == IF i = 0 THEN work.kind ELSE wire[i].kind

\* The ping that changes the heartbeat is under way, in hand, or dealt with.
SetInv ==
  /\ phase # "up" => heartbeatSeconds = Default
  /\ \A i \in 0 .. Len(wire) : Kind(i) = "set" => phase = "up" /\ heartbeatSeconds = Default
  /\ \A i, j \in 0 .. Len(wire) : Kind(i) = "set" /\ Kind(j) = "set" => i = j
  /\ phase = "up" /\ heartbeatSeconds # H => \E i \in 0 .. Len(wire) : Kind(i) = "set"

\* A notification is sent once the ping that changes the heartbeat is on its way.
OrderInv ==
  \A i \in 0 .. Len(wire) : Kind(i) = "notify" =>
    phase = "up" /\ \A j \in i .. Len(wire) : Kind(j) # "set"

\* The kinds of message that a service or a user may hold up for as long as the ticker
\* runs, and how long the handling of a message takes at most.
Holding == {"req", "notify"}
AgeBound(kind) == IF kind = "verify" THEN MaxVerify ELSE IF kind \in Holding THEN Hold ELSE 0

\* What is under way is as old as the last message of the device at least; only a
\* verification or one of the first MaxWire messages may keep the session busy.
WireInv ==
  /\ phase = "verify" => wire = <<>> /\ work = Idle
  /\ \A i \in 1 .. Len(wire) :
       /\ sinceWrite <= wire[i].age
       /\ wire[i].kind \in Holding => i <= MaxWire
       /\ wire[i].kind = "verify" => i = 1 /\ work = Idle /\ sinceWrite <= MaxDelay
  /\ work # Idle => work.age <= AgeBound(work.kind)
  /\ work # Idle /\ work.kind = "notify" => work.age <= sinceReset
  /\ open => sinceReset <= calcuCheckSenconds(heartbeatSeconds)

\* How long the message in hand may still keep the session busy, and when all
\* that the device has sent is dealt with, counted from its last message.
Rem == IF work = Idle THEN 0 ELSE AgeBound(work.kind) - work.age
Late == MaxDelay + MaxVerify + (MaxWire + 1) * Hold

\* The session gets through in time: the messages up to a request on the wire keep
\* it busy for Hold each at most, and what is dealt with sets the ticker back.
DebtInv ==
  /\ \A i \in 1 .. Len(wire) :
       wire[i].kind \in Holding => sinceWrite + i * Hold + Rem <= Late
  /\ Len(wire) > 0 \/ work # Idle => sinceWrite + Rem <= Late
  /\ sinceWrite <= Late + sinceReset

CutInv == IInv /\ SetInv /\ OrderInv /\ WireInv /\ DebtInv

\* A message that is written is the last on the wire.
LEMMA WriteFacts ==
  ASSUME Types, NEW kind \in Kinds, Writes(kind)
  PROVE  /\ Len(wire) \in Nat /\ Len(wire') = Len(wire) + 1
         /\ \A i \in 1 .. Len(wire) : wire'[i] = wire[i]
         /\ wire'[Len(wire) + 1] = [kind |-> kind, age |-> 0]
         /\ sinceWrite' = 0
         /\ UNCHANGED <<alive, work, open, heartbeatSeconds, sinceReset>>
<1>1. [kind |-> kind, age |-> 0] \in Msg
  BY SMT DEF Msg
<1>2. wire \in Seq(Msg) /\ wire' = Append(wire, [kind |-> kind, age |-> 0])
  BY SMT DEF Writes, Types
<1>3. QED BY <1>1, <1>2, SMT DEF Writes, server

\* The message that is read is the first.
LEMMA ReadFacts ==
  ASSUME Types, ServerReads
  PROVE  /\ Len(wire) \in Nat /\ Len(wire) > 0 /\ Len(wire') = Len(wire) - 1
         /\ wire[1] \in Msg
         /\ \A i \in 1 .. Len(wire') : wire'[i] = wire[i + 1]
         /\ work = Idle /\ work' # Idle /\ work'.kind = wire[1].kind /\ work'.age = 0
         /\ UNCHANGED <<device, open, heartbeatSeconds, sinceReset>>
<1>1. /\ work = Idle /\ wire' = Tail(wire) /\ work' = [kind |-> Head(wire).kind, age |-> 0]
      /\ wire \in Seq(Msg) /\ wire # <<>>
      /\ UNCHANGED <<device, open, heartbeatSeconds, sinceReset>>
  BY SMT DEF ServerReads, Types
<1>2. Len(wire) > 0 /\ Len(wire) \in Nat /\ Head(wire) = wire[1]
  BY <1>1, SMT
<1>3. wire[1] \in Msg
  BY <1>1, <1>2, First
<1>4. /\ Len(wire') = Len(wire) - 1
      /\ \A i \in 1 .. Len(wire') : wire'[i] = wire[i + 1]
  BY <1>1, <1>2, SMT
<1>5. work' # Idle
  BY <1>1, <1>2, <1>3, SMT DEF Msg, Idle, Kinds
<1>6. QED BY <1>1, <1>2, <1>3, <1>4, <1>5, SMT

\* Time makes everything older by one.
LEMMA TickFacts ==
  ASSUME Types, Tick
  PROVE  /\ Len(wire) \in Nat /\ Len(wire') = Len(wire)
         /\ \A i \in 1 .. Len(wire) :
              /\ wire[i] \in Msg
              /\ wire'[i].kind = wire[i].kind /\ wire'[i].age = wire[i].age + 1
         /\ work'.kind = work.kind /\ (work = Idle) = (work' = Idle)
         /\ work # Idle => work'.age = work.age + 1 /\ work.age \in Nat
         /\ sinceWrite' \in Nat /\ sinceWrite' <= sinceWrite + 1
         /\ sinceReset' = sinceReset + 1
         /\ ~WireDue /\ ~WorkDue /\ ~CutDue
         /\ UNCHANGED <<alive, phase, open, heartbeatSeconds>>
<1>1. Longest \in Nat
  BY Periods
<1>2. /\ work' = IF work = Idle THEN Idle ELSE [kind |-> work.kind, age |-> work.age + 1]
      /\ sinceWrite' = IF sinceWrite < Longest THEN sinceWrite + 1 ELSE Longest
      /\ sinceReset' = sinceReset + 1
      /\ ~WireDue /\ ~WorkDue /\ ~CutDue
      /\ UNCHANGED <<alive, phase, open, heartbeatSeconds>>
  BY SMT DEF Tick
<1>3. /\ Len(wire) \in Nat /\ Len(wire') = Len(wire)
      /\ \A i \in 1 .. Len(wire) :
           wire'[i].kind = wire[i].kind /\ wire'[i].age = wire[i].age + 1
  BY AgedWire, SMT DEF Tick, Types
<1>4. \A i \in 1 .. Len(wire) : wire[i] \in Msg
  BY SMT DEF Types
<1>5. /\ work'.kind = work.kind /\ (work = Idle) = (work' = Idle)
      /\ work # Idle => work'.age = work.age + 1 /\ work.age \in Nat
  BY <1>2, SMT DEF Types, Msg, Idle, Kinds
<1>6. sinceWrite' \in Nat /\ sinceWrite' <= sinceWrite + 1
  BY <1>1, <1>2, SMT DEF Types
<1>7. QED BY <1>2, <1>3, <1>4, <1>5, <1>6

\* The steps of a run: what is written, and in which phase.
LEMMA StepCases ==
  ASSUME [Next]_vars
  PROVE  \/ DeviceVerifies
         \/ \E kind \in Kinds \ {"verify"} :
              /\ Writes(kind) /\ phase' = "up"
              /\ \/ phase = "up" /\ kind # "set" /\ (kind \in Holding => Len(wire) < MaxWire)
                 \/ phase = "set" /\ kind = "set"
         \/ ServerReads \/ ServerDone \/ ServerCuts \/ Tick
         \/ UNCHANGED <<phase, sinceWrite, wire, server>>
<1>1. ASSUME DeviceSets PROVE Writes("set") /\ phase = "set" /\ phase' = "up" /\ "set" \in Kinds \ {"verify"}
  BY <1>1 DEF DeviceSets, Kinds
<1>2. ASSUME DevicePings
      PROVE  /\ Writes("ping") /\ phase = "up" /\ phase' = "up"
             /\ "ping" \in Kinds \ {"verify"} /\ "ping" \notin Holding
  BY <1>2 DEF DevicePings, Kinds, Holding
<1>3. ASSUME DeviceSends
      PROVE  \E kind \in Kinds \ {"verify"} :
               /\ Writes(kind) /\ phase = "up" /\ phase' = "up" /\ kind # "set"
               /\ Len(wire) < MaxWire
  BY <1>3 DEF DeviceSends, Kinds
<1>4. ASSUME DeviceDies \/ UNCHANGED vars PROVE UNCHANGED <<phase, sinceWrite, wire, server>>
  BY <1>4 DEF DeviceDies, vars, server
<1>5. QED BY <1>1, <1>2, <1>3, <1>4 DEF Next

LEMMA SetKept ==
  ASSUME CutInv, [Next]_vars
  PROVE  SetInv'
<1>1. Types /\ SetInv /\ WireInv
  BY DEF CutInv, IInv
<1>2. Types'
  BY NextIInv DEF CutInv, IInv
<1>3. H # Default => heartbeatSeconds \in {Default, H}
  BY <1>1 DEF Types
<1>4. ASSUME DeviceVerifies PROVE SetInv'
  <2>1. /\ Writes("verify") /\ phase = "verify" /\ "verify" \in Kinds
        /\ phase' = IF H = Default THEN "up" ELSE "set"
    BY <1>4 DEF DeviceVerifies, Kinds
  <2>2. wire = <<>> /\ work = Idle /\ heartbeatSeconds = Default
    BY <1>1, <2>1 DEF WireInv, SetInv
  <2>3. /\ Len(wire') = 1 /\ wire'[1] = [kind |-> "verify", age |-> 0]
        /\ work' = Idle /\ heartbeatSeconds' = Default
    BY <1>1, <2>1, <2>2, WriteFacts, SMT
  <2>4. \A i \in 0 .. Len(wire') : Kind(i)' # "set"
    BY <2>3, SMT DEF Kind, Idle
  <2>5. QED BY <2>1, <2>3, <2>4, SMT DEF SetInv
<1>5. ASSUME NEW kind \in Kinds \ {"verify"}, Writes(kind), phase' = "up",
             phase = "up" /\ kind # "set"
      PROVE  SetInv'
  <2>1. /\ Len(wire) \in Nat /\ Len(wire') = Len(wire) + 1
        /\ \A i \in 1 .. Len(wire) : wire'[i] = wire[i]
        /\ wire'[Len(wire) + 1] = [kind |-> kind, age |-> 0]
        /\ work' = work /\ heartbeatSeconds' = heartbeatSeconds
    BY <1>1, <1>5, WriteFacts
  <2>2. \A i \in 0 .. Len(wire) : Kind(i)' = Kind(i)
    BY <2>1, SMT DEF Kind
  <2>3. \A i \in 0 .. Len(wire') : i \in 0 .. Len(wire) \/ i = Len(wire) + 1
    BY <2>1, SMT
  <2>4. \A i \in 0 .. Len(wire') : i \in 0 .. Len(wire) \/ Kind(i)' # "set"
    BY <1>5, <2>1, <2>3, SMT DEF Kind
  <2>5. QED BY <1>1, <1>5, <2>1, <2>2, <2>4, SMT DEF SetInv
<1>6. ASSUME Writes("set"), phase' = "up", phase = "set"
      PROVE  SetInv'
  <2>1. /\ Len(wire) \in Nat /\ Len(wire') = Len(wire) + 1
        /\ \A i \in 1 .. Len(wire) : wire'[i] = wire[i]
        /\ wire'[Len(wire) + 1].kind = "set"
        /\ work' = work /\ heartbeatSeconds' = Default
    BY <1>1, <1>6, WriteFacts, SMT DEF Kinds, SetInv
  <2>2. \A i \in 0 .. Len(wire) : Kind(i)' # "set"
    BY <1>1, <1>6, <2>1, SMT DEF Kind, SetInv
  <2>3. \A i \in 0 .. Len(wire') : i \in 0 .. Len(wire) \/ i = Len(wire')
    BY <2>1, SMT
  <2>4. Len(wire') \in 0 .. Len(wire') /\ wire'[Len(wire')].kind = "set" /\ Len(wire') # 0
    BY <2>1, SMT
  <2>5. Kind(Len(wire))' = "set"
    BY <2>4, SMT DEF Kind
  <2>6. QED BY <1>6, <2>1, <2>2, <2>3, <2>4, <2>5, Zenon DEF SetInv
<1>7. ASSUME ServerReads PROVE SetInv'
  <2>1. /\ Len(wire) \in Nat /\ Len(wire) > 0 /\ Len(wire') = Len(wire) - 1
        /\ \A i \in 1 .. Len(wire') : wire'[i] = wire[i + 1]
        /\ work = Idle /\ work'.kind = wire[1].kind
        /\ phase' = phase /\ heartbeatSeconds' = heartbeatSeconds
    BY <1>1, <1>7, ReadFacts DEF device
  <2>2. \A i \in 0 .. Len(wire') : Kind(i)' = Kind(i + 1) /\ i + 1 \in 0 .. Len(wire)
    BY <2>1, SMT DEF Kind
  <2>3. \A i \in 0 .. Len(wire) : Kind(i) = "set" => i - 1 \in 0 .. Len(wire')
    BY <2>1, SMT DEF Kind, Idle
  <2>4. \A i, j \in 0 .. Len(wire') : Kind(i)' = "set" /\ Kind(j)' = "set" => i = j
    BY <1>1, <2>1, <2>2, SMT DEF SetInv
  <2>5. phase' = "up" /\ heartbeatSeconds' # H => \E i \in 0 .. Len(wire') : Kind(i)' = "set"
    <3>1. SUFFICES ASSUME phase' = "up" /\ heartbeatSeconds' # H
                   PROVE  \E i \in 0 .. Len(wire') : Kind(i)' = "set"
      OBVIOUS
    <3>2. PICK i \in 0 .. Len(wire) : Kind(i) = "set"
      BY <1>1, <2>1, <3>1 DEF SetInv
    <3>3. i - 1 \in 0 .. Len(wire') /\ (i - 1) + 1 = i
      BY <2>3, <3>2, SMT
    <3>4. Kind(i - 1)' = "set"
      BY <2>2, <3>2, <3>3
    <3>5. QED BY <3>3, <3>4
  <2>6. QED BY <1>1, <2>1, <2>2, <2>4, <2>5, SMT DEF SetInv
<1>8. ASSUME ServerDone PROVE SetInv'
  <2>1. /\ H \in MinTimeout .. MaxTimeout
        /\ wire' = wire /\ work' = Idle /\ phase' = phase
        /\ heartbeatSeconds' = IF Kind(0) = "set" THEN H ELSE heartbeatSeconds
    BY <1>8, TimeAssumption, SMT DEF ServerDone, device, Kind
  <2>2. \A i \in 1 .. Len(wire) : Kind(i)' = Kind(i)
    BY <2>1, SMT DEF Kind
  <2>3. Kind(0)' # "set"
    BY <2>1, SMT DEF Kind, Idle
  <2>4. /\ Len(wire) \in Nat /\ 0 \in 0 .. Len(wire)
        /\ \A i \in 0 .. Len(wire) : i = 0 \/ i \in 1 .. Len(wire)
        /\ \A i \in 1 .. Len(wire) : i # 0 /\ i \in 0 .. Len(wire)
    BY <1>1, SMT DEF Types
  <2>5. CASE Kind(0) = "set"
    <3>1. phase = "up" /\ \A i \in 1 .. Len(wire) : Kind(i) # "set"
      BY <1>1, <2>4, <2>5, Zenon DEF SetInv
    <3>2. \A i \in 0 .. Len(wire') : Kind(i)' # "set"
      BY <2>1, <2>2, <2>3, <2>4, <3>1
    <3>3. QED BY <2>1, <2>5, <3>1, <3>2, Zenon DEF SetInv
  <2>6. CASE Kind(0) # "set"
    <3>1. \A i \in 0 .. Len(wire') : Kind(i)' = "set" <=> Kind(i) = "set"
      BY <2>1, <2>2, <2>3, <2>4, <2>6
    <3>2. QED BY <1>1, <2>1, <2>6, <3>1, Zenon DEF SetInv
  <2>7. QED BY <2>5, <2>6
<1>9. ASSUME Tick PROVE SetInv'
  <2>1. /\ Len(wire) \in Nat /\ Len(wire') = Len(wire) /\ work'.kind = work.kind
        /\ \A i \in 1 .. Len(wire) : wire'[i].kind = wire[i].kind
        /\ phase' = phase /\ heartbeatSeconds' = heartbeatSeconds
    BY <1>1, <1>9, TickFacts
  <2>2. \A i \in 0 .. Len(wire') : Kind(i)' = Kind(i)
    BY <2>1, SMT DEF Kind
  <2>3. QED BY <1>1, <2>1, <2>2, Zenon DEF SetInv
<1>10. ASSUME ServerCuts \/ UNCHANGED <<phase, sinceWrite, wire, server>> PROVE SetInv'
  <2>1. UNCHANGED <<phase, wire, work, heartbeatSeconds>>
    BY <1>10 DEF ServerCuts, device, server
  <2>2. QED BY <1>1, <2>1, Zenon DEF SetInv, Kind
<1>11. QED
  BY StepCases, <1>4, <1>5, <1>6, <1>7, <1>8, <1>9, <1>10

\* The bounds of what a message may cost.
LEMMA Costs ==
  /\ MaxWire \in Nat /\ Hold \in Nat /\ MaxDelay \in Nat /\ MaxVerify \in Nat
  /\ \A kind : AgeBound(kind) \in Nat
  /\ calcuCheckSenconds(H) \in Nat /\ calcuCheckSenconds(Default) \in Nat
<1>1. MaxWire \in Nat /\ Hold \in Nat /\ MaxDelay \in Nat /\ MaxVerify \in Nat
  BY Periods, TimeAssumption
<1>2. \A kind : AgeBound(kind) \in Nat
  BY <1>1, SMT DEF AgeBound
<1>3. QED BY <1>1, <1>2, TimeAssumption, SMT DEF calcuCheckSenconds

\* A message of one of the other kinds is not held up.
LEMMA OrderKept ==
  ASSUME CutInv, [Next]_vars
  PROVE  OrderInv'
<1>1. Types /\ SetInv /\ OrderInv /\ WireInv
  BY DEF CutInv, IInv
<1>2. Len(wire) \in Nat
  BY <1>1, SMT DEF Types
<1>3. ASSUME NEW kind \in Kinds, Writes(kind), phase' = "up",
             phase = "up" \/ kind # "notify", kind = "set" => phase # "up"
      PROVE  OrderInv'
  <2>1. /\ Len(wire') = Len(wire) + 1
        /\ \A i \in 1 .. Len(wire) : wire'[i] = wire[i]
        /\ wire'[Len(wire) + 1] = [kind |-> kind, age |-> 0]
        /\ work' = work
    BY <1>1, <1>3, WriteFacts
  <2>2. \A i \in 0 .. Len(wire) : Kind(i)' = Kind(i)
    BY <2>1, SMT DEF Kind
  <2>3. \A i : i = Len(wire) + 1 => Kind(i)' = kind
    BY <1>2, <2>1, SMT DEF Kind
  <2>4. ASSUME NEW i \in 0 .. Len(wire'), Kind(i)' = "notify",
               NEW j \in i .. Len(wire')
        PROVE  Kind(j)' # "set"
    <3>1. CASE i = Len(wire) + 1
      <4>1. j = i
        BY <1>2, <2>1, <3>1, SMT
      <4>2. QED BY <2>4, <4>1
    <3>2. CASE i \in 0 .. Len(wire)
      <4>1. phase = "up" /\ \A k \in i .. Len(wire) : Kind(k) # "set"
        BY <1>1, <2>2, <2>4, <3>2 DEF OrderInv
      <4>2. kind # "set"
        BY <1>3, <4>1
      <4>3. j = Len(wire) + 1 \/ (j \in i .. Len(wire) /\ j \in 0 .. Len(wire))
        BY <1>2, <2>1, <3>2, SMT
      <4>4. CASE j = Len(wire) + 1
        BY <2>3, <4>2, <4>4
      <4>5. CASE j \in i .. Len(wire) /\ j \in 0 .. Len(wire)
        BY <2>2, <4>1, <4>5
      <4>6. QED BY <4>3, <4>4, <4>5
    <3>3. i = Len(wire) + 1 \/ i \in 0 .. Len(wire)
      BY <1>2, <2>1, SMT
    <3>4. QED BY <3>1, <3>2, <3>3
  <2>5. QED BY <1>3, <2>4 DEF OrderInv
<1>4. ASSUME DeviceVerifies PROVE OrderInv'
  <2>1. Writes("verify") /\ phase = "verify" /\ "verify" \in Kinds
    BY <1>4 DEF DeviceVerifies, Kinds
  <2>2. wire = <<>> /\ work = Idle
    BY <1>1, <2>1 DEF WireInv
  <2>3. Len(wire') = 1 /\ wire'[1].kind = "verify" /\ work' = Idle
    <3>1. /\ Len(wire') = Len(wire) + 1 /\ work' = work
          /\ wire'[Len(wire) + 1] = [kind |-> "verify", age |-> 0]
      BY <1>1, <2>1, WriteFacts
    <3>2. Len(wire) = 0
      BY <2>2, SMT
    <3>3. QED BY <2>2, <3>1, <3>2, SMT
  <2>4. \A i \in 0 .. Len(wire') : Kind(i)' # "notify"
    BY <2>3, SMT DEF Kind, Idle
  <2>5. QED BY <2>4 DEF OrderInv
<1>5. ASSUME ServerReads PROVE OrderInv'
  <2>1. /\ Len(wire) > 0 /\ Len(wire') = Len(wire) - 1
        /\ \A i \in 1 .. Len(wire') : wire'[i] = wire[i + 1]
        /\ work'.kind = wire[1].kind /\ phase' = phase
    BY <1>1, <1>5, ReadFacts DEF device
  <2>2. \A i \in 0 .. Len(wire') : Kind(i)' = Kind(i + 1) /\ i + 1 \in 0 .. Len(wire)
    BY <1>2, <2>1, SMT DEF Kind
  <2>3. ASSUME NEW i \in 0 .. Len(wire'), Kind(i)' = "notify"
        PROVE  phase' = "up" /\ \A j \in i .. Len(wire') : Kind(j)' # "set"
    <3>1. phase = "up" /\ \A j \in i + 1 .. Len(wire) : Kind(j) # "set"
      BY <1>1, <2>2, <2>3 DEF OrderInv
    <3>2. \A j \in i .. Len(wire') : j \in 0 .. Len(wire') /\ j + 1 \in i + 1 .. Len(wire)
      BY <1>2, <2>1, SMT
    <3>3. QED BY <2>1, <2>2, <3>1, <3>2
  <2>4. QED BY <2>3 DEF OrderInv
<1>6. ASSUME ServerDone PROVE OrderInv'
  <2>1. wire' = wire /\ work' = Idle /\ phase' = phase
    BY <1>6 DEF ServerDone, device
  <2>2. \A i \in 1 .. Len(wire) : Kind(i)' = Kind(i)
    BY <2>1, SMT DEF Kind
  <2>3. Kind(0)' = "none"
    BY <2>1, SMT DEF Kind, Idle
  <2>4. ASSUME NEW i \in 0 .. Len(wire'), Kind(i)' = "notify"
        PROVE  phase' = "up" /\ \A j \in i .. Len(wire') : Kind(j)' # "set"
    <3>1. i # 0 /\ i \in 1 .. Len(wire) /\ Kind(i) = "notify" /\ i \in 0 .. Len(wire)
      BY <1>2, <2>1, <2>2, <2>3, <2>4, SMT
    <3>2. phase = "up" /\ \A j \in i .. Len(wire) : Kind(j) # "set"
      BY <1>1, <3>1 DEF OrderInv
    <3>3. \A j \in i .. Len(wire) : j \in 1 .. Len(wire)
      BY <1>2, <3>1, SMT
    <3>4. QED BY <2>1, <2>2, <3>2, <3>3
  <2>5. QED BY <2>4 DEF OrderInv
<1>7. ASSUME Tick PROVE OrderInv'
  <2>1. /\ Len(wire') = Len(wire) /\ work'.kind = work.kind /\ phase' = phase
        /\ \A i \in 1 .. Len(wire) : wire'[i].kind = wire[i].kind
    BY <1>1, <1>7, TickFacts
  <2>2. \A i \in 0 .. Len(wire') : Kind(i)' = Kind(i)
    BY <1>2, <2>1, SMT DEF Kind
  <2>3. \A i \in 0 .. Len(wire) : \A j \in i .. Len(wire) : j \in 0 .. Len(wire)
    BY <1>2, SMT
  <2>4. QED BY <1>1, <2>1, <2>2, <2>3, Zenon DEF OrderInv
<1>8. ASSUME ServerCuts \/ UNCHANGED <<phase, sinceWrite, wire, server>> PROVE OrderInv'
  <2>1. UNCHANGED <<phase, wire, work>>
    BY <1>8 DEF ServerCuts, device, server
  <2>2. QED BY <1>1, <2>1, Zenon DEF OrderInv, Kind
<1>9. QED
  BY StepCases, <1>3, <1>4, <1>5, <1>6, <1>7, <1>8

\* A notification in hand is no older than the last Reset, and held up for a period of
\* the ticker at most.
LEMMA Held ==
  ASSUME Types, SetInv, OrderInv, work.kind = "notify"
  PROVE  heartbeatSeconds = H
<1>1. Len(wire) \in Nat /\ 0 \in 0 .. Len(wire) /\ Kind(0) = "notify"
  BY SMT DEF Types, Kind
<1>2. phase = "up" /\ \A j \in 0 .. Len(wire) : Kind(j) # "set"
  BY <1>1 DEF OrderInv
<1>3. QED BY <1>2 DEF SetInv

LEMMA WireKept ==
  ASSUME CutInv, [Next]_vars
  PROVE  WireInv'
<1>1. Types /\ SetInv /\ OrderInv /\ WireInv
  BY DEF CutInv, IInv
<1>2. Len(wire) \in Nat /\ sinceWrite \in Nat /\ sinceReset \in Nat
  BY <1>1, SMT DEF Types
<1>3. ASSUME NEW kind \in Kinds, Writes(kind), phase' # "verify",
             kind \in Holding => Len(wire) < MaxWire,
             kind = "verify" => phase = "verify"
      PROVE  WireInv'
  <2>1. /\ Len(wire') = Len(wire) + 1
        /\ \A i \in 1 .. Len(wire) : wire'[i] = wire[i]
        /\ wire'[Len(wire) + 1] = [kind |-> kind, age |-> 0]
        /\ sinceWrite' = 0
        /\ UNCHANGED <<alive, work, open, heartbeatSeconds, sinceReset>>
    BY <1>1, <1>3, WriteFacts
  <2>2. \A i \in 1 .. Len(wire') : i \in 1 .. Len(wire) \/ i = Len(wire) + 1
    BY <1>2, <2>1, SMT
  <2>3. ASSUME NEW i \in 1 .. Len(wire)
        PROVE  /\ sinceWrite' <= wire'[i].age
               /\ wire'[i].kind \in Holding => i <= MaxWire
               /\ wire'[i].kind = "verify" => i = 1 /\ work' = Idle /\ sinceWrite' <= MaxDelay
    <3>a. wire[i] \in Msg
      BY <1>1, SMT DEF Types
    <3>1. wire[i].age \in Nat
      BY <3>a DEF Msg
    <3>2. QED BY <1>1, <2>1, <2>3, <3>1, Costs, SMT DEF WireInv
  <2>4. /\ sinceWrite' <= 0
        /\ kind \in Holding => Len(wire) + 1 <= MaxWire
        /\ kind = "verify" => Len(wire) + 1 = 1 /\ work' = Idle /\ sinceWrite' <= MaxDelay
    <3>1. kind = "verify" => wire = <<>> /\ work = Idle
      BY <1>1, <1>3 DEF WireInv
    <3>2. QED BY <1>2, <1>3, <2>1, <3>1, Costs, SMT
  <2>5. \A i \in 1 .. Len(wire') :
          /\ sinceWrite' <= wire'[i].age
          /\ wire'[i].kind \in Holding => i <= MaxWire
          /\ wire'[i].kind = "verify" => i = 1 /\ work' = Idle /\ sinceWrite' <= MaxDelay
    BY <2>1, <2>2, <2>3, <2>4
  <2>6. QED BY <1>1, <1>3, <2>1, <2>5, Zenon DEF WireInv
<1>4. ASSUME DeviceVerifies PROVE WireInv'
  BY <1>3, <1>4, SMT DEF DeviceVerifies, Kinds, Holding
<1>5. ASSUME ServerReads PROVE WireInv'
  <2>1. /\ Len(wire) > 0 /\ Len(wire') = Len(wire) - 1
        /\ \A i \in 1 .. Len(wire') : wire'[i] = wire[i + 1]
        /\ work' # Idle /\ work'.age = 0
        /\ UNCHANGED <<phase, sinceWrite, open, heartbeatSeconds, sinceReset>>
    BY <1>1, <1>5, ReadFacts DEF device
  <2>2. phase # "verify"
    BY <1>1, <2>1, SMT DEF WireInv
  <2>3. ASSUME NEW i \in 1 .. Len(wire')
        PROVE  /\ sinceWrite' <= wire'[i].age
               /\ wire'[i].kind \in Holding => i <= MaxWire
               /\ wire'[i].kind # "verify"
    <3>1. i + 1 \in 1 .. Len(wire) /\ i + 1 # 1 /\ i \in Nat
      BY <1>2, <2>1, SMT
    <3>2. QED BY <1>1, <2>1, <3>1, Costs, SMT DEF WireInv
  <2>4. work'.age <= AgeBound(work'.kind) /\ work'.age <= sinceReset'
    BY <1>2, <2>1, Costs, SMT
  <2>5. QED BY <1>1, <2>1, <2>2, <2>3, <2>4, Zenon DEF WireInv
<1>6. ASSUME ServerDone PROVE WireInv'
  <2>1. /\ wire' = wire /\ work # Idle /\ work' = Idle
        /\ UNCHANGED <<phase, sinceWrite, open>>
        /\ sinceReset' = IF work.kind = "verify" THEN sinceReset ELSE 0
        /\ work.kind = "verify" => heartbeatSeconds' = heartbeatSeconds
    BY <1>6, SMT DEF ServerDone, device
  <2>2. Types'
    BY NextIInv DEF CutInv, IInv
  <2>3. open' => sinceReset' <= calcuCheckSenconds(heartbeatSeconds')
    BY <1>1, <2>1, <2>2, Costs, SMT DEF Types, WireInv
  <2>4. phase # "verify"
    BY <1>1, <2>1, Zenon DEF WireInv
  <2>5. QED BY <1>1, <2>1, <2>3, <2>4, Zenon DEF WireInv
<1>7. ASSUME ServerCuts PROVE WireInv'
  BY <1>1, <1>7, Zenon DEF ServerCuts, device, WireInv
<1>8. ASSUME Tick PROVE WireInv'
  <2>1. /\ Len(wire') = Len(wire)
        /\ \A i \in 1 .. Len(wire) :
              /\ wire[i] \in Msg
              /\ wire'[i].kind = wire[i].kind /\ wire'[i].age = wire[i].age + 1
        /\ work'.kind = work.kind /\ (work = Idle) = (work' = Idle)
        /\ work # Idle => work'.age = work.age + 1 /\ work.age \in Nat
        /\ sinceWrite' \in Nat /\ sinceWrite' <= sinceWrite + 1
        /\ sinceReset' = sinceReset + 1
        /\ ~WireDue /\ ~WorkDue /\ ~CutDue
        /\ UNCHANGED <<phase, open, heartbeatSeconds>>
    BY <1>1, <1>8, TickFacts
  <2>2. phase = "verify" => wire' = <<>> /\ work' = Idle
    BY <1>1, <1>8, <2>1, SMT DEF WireInv, Tick
  <2>3. ASSUME NEW i \in 1 .. Len(wire)
        PROVE  /\ sinceWrite' <= wire'[i].age
               /\ wire'[i].kind \in Holding => i <= MaxWire
               /\ wire'[i].kind = "verify" => i = 1 /\ work' = Idle /\ sinceWrite' <= MaxDelay
    <3>1. wire[i].age \in Nat /\ wire'[i].age = wire[i].age + 1 /\ wire'[i].kind = wire[i].kind
      BY <2>1 DEF Msg
    <3>2. sinceWrite' <= wire'[i].age
      BY <1>1, <1>2, <2>1, <3>1, SMT DEF WireInv
    <3>3. ASSUME wire[i].kind = "verify" PROVE i = 1 /\ work' = Idle /\ sinceWrite' <= MaxDelay
      <4>1. i = 1 /\ work = Idle
        BY <1>1, <3>3 DEF WireInv
      <4>2. wire # <<>> /\ Head(wire) = wire[1]
        BY <1>1, <4>1, SMT DEF Types
      <4>3. wire[1].age < MaxDelay
        BY <2>1, <3>1, <4>1, <4>2, Costs, SMT DEF WireDue
      <4>4. QED BY <2>1, <3>1, <3>2, <4>1, <4>3, Costs, SMT
    <3>4. QED BY <1>1, <3>1, <3>2, <3>3 DEF WireInv
  <2>5. sinceReset' <= calcuCheckSenconds(heartbeatSeconds)
    BY <1>1, <1>2, <2>1, Costs, SMT DEF CutDue, Types
  <2>4. ASSUME work' # Idle
        PROVE  /\ work'.age <= AgeBound(work'.kind)
               /\ work'.kind = "notify" => work'.age <= sinceReset'
    <3>1. work # Idle /\ work.age \in Nat /\ work'.age = work.age + 1 /\ work'.kind = work.kind
      BY <2>1, <2>4
    <3>2. CASE work.kind = "notify"
      <4>1. heartbeatSeconds = H
        BY <1>1, <3>2, Held
      <4>2. sinceReset' <= Hold /\ work.age <= sinceReset
        BY <1>1, <2>5, <3>1, <3>2, <4>1, Periods DEF WireInv
      <4>3. work'.age <= sinceReset'
        BY <1>2, <2>1, <3>1, <4>2, SMT
      <4>4. AgeBound(work.kind) = Hold
        BY <3>2, SMT DEF AgeBound, Holding
      <4>5. work'.age <= Hold
        BY <1>2, <2>1, <3>1, <4>2, <4>3, Costs, SMT
      <4>6. QED BY <3>1, <4>3, <4>4, <4>5
    <3>3. CASE work.kind # "notify"
      <4>1. work.age < MaxAge(work.kind)
        <5>1. MaxAge(work.kind) \in Nat
          BY TimeAssumption, SMT DEF MaxAge
        <5>2. QED BY <2>1, <3>1, <3>3, <5>1, SMT DEF WorkDue
      <4>2. MaxAge(work.kind) <= AgeBound(work.kind) /\ MaxAge(work.kind) \in Nat
        BY Periods, TimeAssumption, SMT DEF MaxAge, AgeBound, Holding
      <4>3. work'.age <= AgeBound(work.kind)
        BY <3>1, <4>1, <4>2, Costs, SMT
      <4>4. QED BY <3>1, <3>3, <4>3
    <3>4. QED BY <3>2, <3>3
  <2>6. QED BY <2>1, <2>2, <2>3, <2>4, <2>5, Zenon DEF WireInv
<1>9. ASSUME UNCHANGED <<phase, sinceWrite, wire, server>> PROVE WireInv'
  BY <1>1, <1>9, Zenon DEF WireInv, server
<1>10. ASSUME NEW kind \in Kinds \ {"verify"}, Writes(kind), phase' = "up",
              \/ phase = "up" /\ kind # "set" /\ (kind \in Holding => Len(wire) < MaxWire)
              \/ phase = "set" /\ kind = "set"
       PROVE  WireInv'
  <2>1. kind \in Holding => Len(wire) < MaxWire
    BY <1>10 DEF Holding
  <2>2. kind \in Kinds /\ kind # "verify" /\ phase' # "verify"
    BY <1>10
  <2>3. QED BY <1>3, <1>10, <2>1, <2>2
<1>11. QED
  BY StepCases, <1>4, <1>5, <1>6, <1>7, <1>8, <1>9, <1>10

\* A message that is dealt with keeps the session busy for so long at most.
LEMMA RemBounds ==
  ASSUME NEW w \in Msg \cup {Idle}, w # Idle => w.age <= AgeBound(w.kind),
         NEW r, r = IF w = Idle THEN 0 ELSE AgeBound(w.kind) - w.age
  PROVE  r \in Nat /\ r <= MaxVerify + Hold
<1>1. CASE w = Idle
  BY <1>1, Costs, SMT
<1>2. CASE w # Idle
  <2>1. w.age \in Nat /\ w.age <= AgeBound(w.kind)
    BY <1>2, SMT DEF Msg
  <2>2. AgeBound(w.kind) <= MaxVerify + Hold /\ AgeBound(w.kind) \in Nat
    BY Costs, SMT DEF AgeBound, Holding
  <2>3. QED BY <1>2, <2>1, <2>2, Costs, SMT
<1>3. QED BY <1>1, <1>2

\* Time for what the first MaxWire messages may cost.
LEMMA Products ==
  /\ MaxWire * Hold \in Nat
  /\ Late = MaxDelay + MaxVerify + MaxWire * Hold + Hold
  /\ Late \in Nat
  /\ \A i \in Nat : i <= MaxWire => i * Hold \in Nat /\ i * Hold <= MaxWire * Hold
  /\ \A i \in Nat : (i + 1) * Hold = i * Hold + Hold
  BY Costs, SMT DEF Late

LEMMA LateBounds ==
  /\ Late \in Nat /\ MaxDelay + MaxVerify + Hold <= Late
  /\ \A i \in Nat : i <= MaxWire => /\ i * Hold \in Nat
                                  /\ MaxDelay + MaxVerify + Hold + i * Hold <= Late
<1>1. Late \in Nat /\ MaxDelay + MaxVerify + Hold <= Late
  BY Products, Costs, SMT
<1>2. ASSUME NEW i \in Nat, i <= MaxWire
      PROVE  /\ i * Hold \in Nat
             /\ MaxDelay + MaxVerify + Hold + i * Hold <= Late
  <2>1. PICK p \in Nat : p = i * Hold
    BY <1>2, Products
  <2>2. PICK q \in Nat : q = MaxWire * Hold
    BY Products
  <2>3. p <= q /\ Late = MaxDelay + MaxVerify + q + Hold
    BY <1>2, <2>1, <2>2, Products
  <2>4. MaxDelay + MaxVerify + Hold + p <= Late
    BY <2>3, Costs, SMT
  <2>5. QED BY <2>1, <2>4
<1>3. QED BY <1>1, <1>2

LEMMA DebtKept ==
  ASSUME CutInv, [Next]_vars
  PROVE  DebtInv'
<1>1. Types /\ SetInv /\ WireInv /\ DebtInv /\ WireInv' /\ Types'
  BY WireKept, NextIInv DEF CutInv, IInv
<1>2. Len(wire) \in Nat /\ sinceWrite \in Nat /\ sinceReset \in Nat 
  BY <1>1, SMT DEF Types
<1>r. PICK r : r = Rem
  OBVIOUS
<1>p. PICK rp : rp = Rem'
  OBVIOUS
<1>3. r \in Nat /\ r <= MaxVerify + Hold /\ rp \in Nat
  BY <1>1, <1>r, <1>p, RemBounds DEF Types, WireInv, Rem
<1>w. PICK sw : sw = sinceWrite'
  OBVIOUS
<1>s. PICK sr : sr = sinceReset'
  OBVIOUS
<1>t. sw \in Nat /\ sr \in Nat
  BY <1>1, <1>w, <1>s DEF Types
<1>d. /\ \A i \in 1 .. Len(wire) : wire[i].kind \in Holding => sinceWrite + i * Hold + r <= Late
      /\ Len(wire) > 0 \/ work # Idle => sinceWrite + r <= Late
      /\ sinceWrite <= Late + sinceReset
  BY <1>1, <1>r DEF DebtInv
<1>n. Late \in Nat /\ MaxDelay + MaxVerify + Hold <= Late
  BY LateBounds
<1> DEFINE Paid ==
      /\ \A i \in 1 .. Len(wire') :
           wire'[i].kind \in Holding => sw + i * Hold + rp <= Late
      /\ Len(wire') > 0 \/ work' # Idle => sw + rp <= Late
      /\ sw <= Late + sr
<1> SUFFICES Paid
  BY <1>p, <1>w, <1>s DEF DebtInv, Late
<1>4. ASSUME NEW kind \in Kinds, Writes(kind)
      PROVE  Paid
  <2>1. sw = 0 /\ rp = r
    BY <1>w, <1>s, <1>r, <1>p, <1>1, <1>4, WriteFacts DEF Rem
  <2>2. ASSUME NEW i \in 1 .. Len(wire'), wire'[i].kind \in Holding
        PROVE  sw + i * Hold + rp <= Late
    <3>1. i \in Nat /\ i <= MaxWire
      BY <1>t, <1>1, <2>2, SMT DEF WireInv
    <3>2. /\ i * Hold \in Nat
          /\ MaxDelay + MaxVerify + Hold + i * Hold <= Late
      BY <3>1, LateBounds
    <3>3. QED BY <1>t, <1>3, <2>1, <3>2, <1>n, Costs, SMT
  <2>3. sw + rp <= Late
    BY <1>t, <1>3, <2>1, <1>n, Costs, SMT
  <2>a. sw <= Late + sr
    BY <1>2, <1>t, <2>1, <1>n, SMT
  <2>4. QED BY <2>2, <2>3, <2>a
<1>5. ASSUME ServerReads PROVE Paid
  <2>1. /\ Len(wire) > 0 /\ Len(wire') = Len(wire) - 1
        /\ \A i \in 1 .. Len(wire') : wire'[i] = wire[i + 1]
        /\ work = Idle /\ work' # Idle /\ work'.kind = wire[1].kind /\ work'.age = 0
        /\ sw = sinceWrite /\ sr = sinceReset
    BY <1>w, <1>s, <1>1, <1>5, ReadFacts DEF device
  <2>2. r = 0 /\ rp = AgeBound(wire[1].kind) /\ 1 \in 1 .. Len(wire)
    BY <1>t, <1>r, <1>p, <1>2, <2>1, Costs, SMT DEF Rem
  <2>3. sw + rp <= Late
    <3>1. CASE wire[1].kind = "verify"
      <4>1. sinceWrite <= MaxDelay /\ rp = MaxVerify
        BY <1>t, <1>1, <2>2, <3>1, SMT DEF WireInv, AgeBound, Holding
      <4>2. QED BY <1>2, <1>t, <2>1, <4>1, <1>n, Costs, SMT
    <3>2. CASE wire[1].kind \in Holding
      <4>1. sinceWrite + 1 * Hold + 0 <= Late /\ rp = Hold
        BY <1>t, <1>1, <1>d, <2>2, <3>2, SMT DEF AgeBound, Holding
      <4>2. QED BY <1>2, <1>t, <2>1, <4>1, <1>n, Costs, SMT
    <3>3. CASE wire[1].kind \notin Holding \cup {"verify"}
      <4>1. sinceWrite + 0 <= Late /\ rp = 0
        BY <1>t, <1>1, <1>d, <2>1, <2>2, <3>3, SMT DEF AgeBound, Holding
      <4>2. QED BY <1>2, <1>t, <2>1, <4>1, <1>n, Costs, SMT
    <3>4. QED BY <3>1, <3>2, <3>3
  <2>4. ASSUME NEW i \in 1 .. Len(wire'), wire'[i].kind \in Holding
        PROVE  sw + i * Hold + rp <= Late
    <3>1. /\ i \in Nat /\ i + 1 \in 1 .. Len(wire) /\ wire[i + 1].kind \in Holding
          /\ i * Hold \in Nat /\ (i + 1) * Hold = i * Hold + Hold
      BY <1>2, <1>t, <2>1, <2>4, Products, Costs, SMT
    <3>2. sinceWrite + (i + 1) * Hold + 0 <= Late
      BY <1>1, <1>d, <2>2, <3>1
    <3>3. CASE wire[1].kind = "verify"
      <4>1. sinceWrite <= MaxDelay /\ rp = MaxVerify
        BY <1>t, <1>1, <2>2, <3>3, SMT DEF WireInv, AgeBound, Holding
      <4>2. i <= MaxWire
        <5>1. i + 1 <= MaxWire
          BY <1>1, <3>1 DEF WireInv
        <5>2. QED BY <1>t, <3>1, <5>1, Costs, SMT
      <4>3. MaxDelay + MaxVerify + Hold + i * Hold <= Late
        BY <3>1, <4>2, LateBounds
      <4>4. /\ i * Hold \in Nat /\ sw \in Nat /\ sw <= MaxDelay /\ rp = MaxVerify
            /\ MaxDelay \in Nat /\ MaxVerify \in Nat /\ Hold \in Nat /\ Late \in Nat
        BY <1>t, <2>1, <3>1, <4>1, <1>n, Costs
      <4>5. QED BY <4>3, <4>4, SMT
    <3>4. CASE wire[1].kind # "verify"
      <4>1. rp <= Hold
        BY <1>t, <2>2, <3>4, Costs, SMT DEF AgeBound, Holding
      <4>2. /\ sw \in Nat /\ rp \in Nat /\ Hold \in Nat /\ Late \in Nat
            /\ i * Hold \in Nat /\ sw + i * Hold + Hold <= Late
        BY <1>2, <1>t, <1>3, <2>1, <3>1, <3>2, <1>n, Costs, SMTT(30)
      <4>3. QED BY <4>1, <4>2, SMT
    <3>5. QED BY <3>3, <3>4
  <2>5. QED BY <1>1, <1>d, <2>1, <2>3, <2>4
<1>6. ASSUME ServerDone PROVE Paid
  <2>1. /\ wire' = wire /\ work # Idle /\ work' = Idle /\ sw = sinceWrite
    BY <1>w, <1>s, <1>6, SMT DEF ServerDone, device
  <2>2. rp = 0
    BY <1>r, <1>p, <2>1 DEF Rem
  <2>3. sinceWrite + r <= Late
    BY <1>1, <1>d, <2>1
  <2>4. sw + rp <= Late
    BY <1>2, <1>t, <1>3, <2>1, <2>2, <2>3, <1>n, SMT
  <2>a. sw <= Late + sr
    <3>1. sinceWrite <= Late
      BY <1>2, <1>t, <1>3, <2>3, <1>n, SMT
    <3>2. QED BY <1>2, <1>t, <2>1, <3>1, <1>n, SMT
  <2>5. ASSUME NEW i \in 1 .. Len(wire'), wire'[i].kind \in Holding
        PROVE  sw + i * Hold + rp <= Late
    <3>1. i * Hold \in Nat
      BY <1>t, <2>5, Costs, SMT
    <3>2. sinceWrite + i * Hold + r <= Late
      BY <1>1, <1>d, <2>1, <2>5
    <3>3. QED BY <1>2, <1>t, <1>3, <2>1, <2>2, <3>1, <3>2, <1>n, SMT
  <2>6. QED BY <1>d, <2>4, <2>5, <2>a
<1>7. ASSUME ServerCuts \/ UNCHANGED <<phase, sinceWrite, wire, server>> PROVE Paid
  <2>1. UNCHANGED <<sinceWrite, wire, work, sinceReset>>
    BY <1>7 DEF ServerCuts, device, server
  <2>2. QED BY <1>1, <1>r, <1>p, <1>d, <1>w, <1>s, <2>1 DEF Rem
<1>8. ASSUME Tick PROVE Paid
  <2>1. /\ Len(wire') = Len(wire)
        /\ \A i \in 1 .. Len(wire) :
              /\ wire[i] \in Msg
              /\ wire'[i].kind = wire[i].kind /\ wire'[i].age = wire[i].age + 1
        /\ work'.kind = work.kind /\ (work = Idle) = (work' = Idle)
        /\ work # Idle => work'.age = work.age + 1 /\ work.age \in Nat
        /\ sw <= sinceWrite + 1
        /\ sr = sinceReset + 1
        /\ ~WireDue
    BY <1>w, <1>s, <1>1, <1>8, TickFacts
  <2>2. sw <= Late + sr
    BY <1>t, <1>1, <1>d, <1>2, <2>1, <1>n, SMT
  <2>3. CASE work # Idle
    <3>1. rp = r - 1
      BY <1>t, <1>r, <1>p, <2>1, <2>3, Costs, SMTT(30) DEF Rem
    <3>2. sw + rp <= sinceWrite + r
      BY <1>2, <1>t, <1>3, <2>1, <3>1, SMT
    <3>3. sinceWrite + r <= Late
      BY <1>1, <1>d, <2>3
    <3>4. ASSUME NEW i \in 1 .. Len(wire'), wire'[i].kind \in Holding
          PROVE  sw + i * Hold + rp <= Late
      <4>1. i * Hold \in Nat
        BY <1>t, <3>4, Costs, SMT
      <4>2. sinceWrite + i * Hold + r <= Late
        BY <1>1, <1>d, <2>1, <3>4
      <4>3. QED BY <1>2, <1>t, <1>3, <2>1, <3>2, <4>1, <4>2, <1>n, SMT
    <3>5. sw + rp <= Late
      BY <1>2, <1>t, <1>3, <2>1, <3>2, <3>3, <1>n, SMT
    <3>6. QED BY <1>d, <2>2, <3>4, <3>5
  <2>4. CASE work = Idle /\ Len(wire) > 0
    <3>1. rp = 0 /\ wire # <<>> /\ Head(wire) = wire[1] /\ 1 \in 1 .. Len(wire)
      BY <1>t, <1>r, <1>p, <1>1, <1>2, <2>1, <2>4, SMT DEF Rem, Types
    <3>2. wire[1].age \in Nat /\ wire[1].age < MaxDelay
      BY <1>t, <2>1, <2>4, <3>1, Costs, SMT DEF WireDue, Msg
    <3>3. sinceWrite <= wire[1].age
      BY <1>1, <3>1 DEF WireInv
    <3>4. sw <= MaxDelay
      BY <1>2, <1>t, <2>1, <3>2, <3>3, Costs, SMT
    <3>5. ASSUME NEW i \in 1 .. Len(wire'), wire'[i].kind \in Holding
          PROVE  sw + i * Hold + rp <= Late
      <4>1. i \in Nat /\ i <= MaxWire
        BY <1>t, <1>1, <3>5, SMT DEF WireInv
      <4>2. /\ i * Hold \in Nat
          /\ MaxDelay + MaxVerify + Hold + i * Hold <= Late
        BY <4>1, LateBounds
      <4>3. QED BY <1>t, <2>1, <3>1, <3>4, <4>2, <1>n, Costs, SMT
    <3>6. sw + rp <= Late
      BY <1>t, <2>1, <3>1, <3>4, <1>n, Costs, SMT
    <3>7. QED BY <1>d, <2>2, <3>5, <3>6
  <2>5. CASE work = Idle /\ Len(wire) = 0
    <3>1. work' = Idle /\ Len(wire') = 0 /\ ~(Len(wire') > 0)
          /\ \A i \in 1 .. Len(wire') : FALSE
      BY <1>t, <2>1, <2>5, SMT
    <3>2. QED BY <1>d, <2>2, <3>1
  <2>6. QED BY <1>2, <1>t, <2>3, <2>4, <2>5, SMT
<1>9. ASSUME DeviceVerifies PROVE Paid
  BY <1>4, <1>9 DEF DeviceVerifies, Kinds
<1>10. QED
  BY StepCases, <1>4, <1>5, <1>6, <1>7, <1>8, <1>9

LEMMA InitCutInv == Init => CutInv
<1>1. ASSUME Init PROVE SetInv
  BY <1>1, SMT DEF Init, SetInv, Kind, Idle
<1>2. ASSUME Init PROVE WireInv
  BY <1>2, Costs, SMT DEF Init, WireInv
<1>3. ASSUME Init PROVE DebtInv
  BY <1>3, Products, Costs, SMT DEF Init, DebtInv, Rem
<1>4. ASSUME Init PROVE OrderInv
  BY <1>4, SMT DEF Init, OrderInv, Kind, Idle
<1>5. QED BY <1>1, <1>2, <1>3, <1>4, InitIInv DEF CutInv

LEMMA NextCutInv == CutInv /\ [Next]_vars => CutInv'
  BY NextIInv, SetKept, OrderKept, WireKept, DebtKept DEF CutInv

\* Once the heartbeat is negotiated the session goes by it, until then by the default.
LEMMA NegotiatedSet ==
  ASSUME Types, SetInv
  PROVE  heartbeatSeconds = IF Negotiated THEN H ELSE Default
<1>1. Len(wire) \in Nat /\ DOMAIN wire = 1 .. Len(wire)
  BY SMT DEF Types
<1>2. Negotiated <=> phase = "up" /\ \A i \in 0 .. Len(wire) : Kind(i) # "set"
  BY <1>1, SMT DEF Negotiated, Kind
<1>3. CASE Negotiated
  BY <1>2, <1>3 DEF SetInv
<1>4. CASE ~Negotiated
  BY <1>2, <1>4 DEF SetInv
<1>5. QED BY <1>3, <1>4

\* The ticker of the session ends that of a device that has stopped, at the latest
\* one and a half of its heartbeats after all that it has sent is dealt with.
THEOREM DeadIsCutInTime == Spec => []DeadCutInTime
<1>1. ASSUME CutInv PROVE DeadCutInTime
  <2>1. Types /\ SetInv /\ WireInv /\ DebtInv
    BY <1>1 DEF CutInv, IInv
  <2>2. sinceWrite \in Nat /\ sinceReset \in Nat
    BY <2>1 DEF Types
  <2>3. /\ calcuCheckSenconds(H) = H + H \div 2
        /\ calcuCheckSenconds(Default) = Default + Default \div 2
    BY Slack
  <2>4. ASSUME open
        PROVE  sinceWrite <= Late + calcuCheckSenconds(IF Negotiated THEN H ELSE Default)
    <3>1. /\ sinceWrite <= Late + sinceReset
          /\ sinceReset <= calcuCheckSenconds(IF Negotiated THEN H ELSE Default)
      BY <2>1, <2>4, NegotiatedSet DEF DebtInv, WireInv
    <3>2. QED BY <2>2, <3>1, Products, Costs, SMT
  <2>5. QED BY <2>3, <2>4, SMT DEF DeadCutInTime, Late
<1>2. QED BY <1>1, InitCutInv, NextCutInv, PTL DEF Spec
=============================================================================

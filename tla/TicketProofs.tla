---------------------------- MODULE TicketProofs ----------------------------
(***************************************************************************)
(* What holds of the ticket bridge for every number of concurrent calls,   *)
(* changes, payloads, attempts and failed writes.                          *)
(***************************************************************************)
EXTENDS TicketBridge, TLAPS

(* Where a call is fits with what it did: it counts its requests, sleeps   *)
(* only with attempts left, is about to record attached only when the      *)
(* payload is on the ticket, and dlq only when the change is queued.       *)
CallOK(c) ==
    /\ pc[c] = "attach" => requests[c] + 1 = attempts[c]
    /\ pc[c] \in {"sleep", "enqueue", "record", "done"}
          => requests[c] = attempts[c]
    /\ pc[c] = "sleep" => attempts[c] < MaxAttempts
    /\ pc[c] \in {"attach", "sleep", "enqueue"} => status[c] = "dlq"
    /\ pc[c] \in {"record", "done"}
          => Attached(c) \in IF status[c] = "attached" THEN remote ELSE dlq
    /\ pc[c] = "done"
          => \E o \in Outcomes(c) : EventOf(o) \in Events

BridgeInv == TypeOK /\ (\A c \in Calls : CallOK(c)) /\ RecordsTrue

LEMMA OutcomeType ==
    ASSUME TypeOK, NEW c \in Calls
    PROVE  /\ Outcomes(c) \subseteq Attachments
           /\ Attached(c) \in [change : Changes, payload : Payloads]
  BY DEF TypeOK, Outcomes, Attachments, Attached, Changes, Payloads

(* What a sequence keeps and gains when a record is put at its end.        *)
LEMMA AppendedSet ==
    ASSUME NEW S, NEW l \in Seq(S), NEW r \in S
    PROVE  /\ Append(l, r) \in Seq(S)
           /\ ToSet(Append(l, r)) = ToSet(l) \cup {r}
  <1>1. /\ Append(l, r) \in Seq(S)
        /\ Len(Append(l, r)) = Len(l) + 1
        /\ \A i \in 1..Len(l) : Append(l, r)[i] = l[i]
        /\ Append(l, r)[Len(l) + 1] = r
    OBVIOUS
  <1>2. 1..(Len(l) + 1) = 1..Len(l) \cup {Len(l) + 1}
    OBVIOUS
  <1> QED
    BY <1>1, <1>2 DEF ToSet

LEMMA AppendLog ==
    ASSUME TypeOK, NEW r \in Attachments, Store!Append1(r)
    PROVE  /\ log' \in Seq(Attachments)
           /\ ToSet(log') = ToSet(log) \cup {r}
           /\ acks' \subseteq [rec : Attachments, head : Seq(Attachments)]
  <1>1. log \in Seq(Attachments) /\ log' = Append(log, r)
    BY DEF TypeOK, Store!Append1
  <1>2. log' \in Seq(Attachments) /\ ToSet(log') = ToSet(log) \cup {r}
    BY <1>1, AppendedSet
  <1>3. acks' \in {acks, acks \cup {[rec |-> r, head |-> log']}}
    BY <1>1 DEF Store!Append1
  <1>4. acks \subseteq [rec : Attachments, head : Seq(Attachments)]
    BY DEF TypeOK
  <1> QED
    BY <1>2, <1>3, <1>4

(* A call that does not move keeps its part of the invariant: the log, the *)
(* keys left in the index, queue and remote system only grow.              *)
Grows ==
    /\ ToSet(log) \subseteq ToSet(log') /\ left \subseteq left'
    /\ remote \subseteq remote'
    /\ dlq \subseteq dlq'

Rests(d) ==
    /\ pc'[d] = pc[d] /\ attempts'[d] = attempts[d]
    /\ requests'[d] = requests[d] /\ reasons'[d] = reasons[d]
    /\ status'[d] = status[d]

LEMMA RestingCall ==
    ASSUME NEW d \in Calls, CallOK(d), Rests(d), Grows
    PROVE  CallOK(d)'
  <1>1. Outcomes(d)' = Outcomes(d)
    BY DEF Rests, Outcomes
  <1>2. Attached(d)' = Attached(d)
    BY DEF Attached
  <1>3. pc'[d] = "done"
        => \E o \in Outcomes(d)' : EventOf(o) \in Events'
    BY <1>1 DEF CallOK, Rests, Grows, Events
  <1> QED
    BY <1>2, <1>3 DEF CallOK, Rests, Grows

LEMMA FaultType ==
    ASSUME TypeOK, Fault \/ UNCHANGED faults
    PROVE  faults' \in 0..MaxFaults
  BY TicketAssumption DEF TypeOK, Fault

(* What a step that writes no record does to the rest of the state.        *)
LEMMA QuietFrame ==
    ASSUME TypeOK, NEW c \in Calls,
           Attach(c) \/ Sleep(c) \/ Enqueue(c) \/ Canceled(c)
    PROVE  /\ log' = log /\ acks' = acks /\ left' = left
           /\ Grows
           /\ \A d \in Calls \ {c} : Rests(d)
  <1>1. CASE Attach(c)
    BY <1>1 DEF TypeOK, Attach, Answered, Met, Goto, Grows, Rests
  <1>2. CASE Sleep(c)
    BY <1>2 DEF TypeOK, Sleep, Goto, Grows, Rests
  <1>3. CASE Enqueue(c)
    BY <1>3 DEF TypeOK, Enqueue, Met, Goto, Fault, Grows, Rests
  <1>4. CASE Canceled(c)
    BY <1>4 DEF TypeOK, Canceled, Goto, Grows, Rests
  <1> QED
    BY <1>1, <1>2, <1>3, <1>4

LEMMA AttachStep ==
    ASSUME BridgeInv, NEW c \in Calls, Attach(c)
    PROVE  TypeOK' /\ CallOK(c)'
  <1> USE TicketAssumption
  <1>1. pc[c] = "attach" /\ requests[c] + 1 = attempts[c] /\ status[c] = "dlq"
    BY DEF BridgeInv, CallOK, Attach
  <1>2. requests[c] \in Nat /\ attempts[c] \in 1..MaxAttempts
    BY DEF BridgeInv, TypeOK
  <1>3. requests' \in [Calls -> 0..MaxAttempts] /\ requests'[c] = requests[c] + 1
    BY <1>1, <1>2 DEF BridgeInv, TypeOK, Attach
  <1>4. Attached(c) \in [change : Changes, payload : Payloads]
    BY OutcomeType DEF BridgeInv
  <1>5. /\ remote' \subseteq [change : Changes, payload : Payloads]
        /\ pc' \in [Calls -> {"attach", "sleep", "enqueue", "record", "done", "failed"}]
        /\ reasons' \in [Calls -> SUBSET Reasons]
        /\ status' \in [Calls -> {"attached", "dlq"}]
    <2>1. remote' \subseteq [change : Changes, payload : Payloads]
      BY <1>4 DEF BridgeInv, TypeOK, Attach, Answered
    <2>2. pc' \in [Calls -> {"attach", "sleep", "enqueue", "record", "done", "failed"}]
      BY DEF BridgeInv, TypeOK, Attach, Answered, Goto
    <2>3. reasons' \in [Calls -> SUBSET Reasons]
      <3>1. PICK reason \in Reasons \cup {""} :
               IF reason = "" THEN reasons' = reasons ELSE Met(c, reason)
        BY DEF Attach, Answered, Reasons
      <3>2. CASE reason = ""
        BY <3>1, <3>2 DEF BridgeInv, TypeOK
      <3>3. CASE reason \in Reasons
        <4>1. reason # ""
          BY <3>3 DEF Reasons
        <4>2. reasons \in [Calls -> SUBSET Reasons]
          BY DEF BridgeInv, TypeOK
        <4>3. reasons[c] \cup {reason} \in SUBSET Reasons
          BY <3>3, <4>2
        <4>4. reasons' = [reasons EXCEPT ![c] = reasons[c] \cup {reason}]
          BY <3>1, <4>1 DEF Met
        <4> QED
          BY <4>2, <4>3, <4>4
      <3> QED
        BY <3>2, <3>3
    <2>4. status' \in [Calls -> {"attached", "dlq"}]
      BY DEF BridgeInv, TypeOK, Attach, Answered
    <2> QED
      BY <2>1, <2>2, <2>3, <2>4
  <1>6. TypeOK'
    BY <1>3, <1>5 DEF BridgeInv, TypeOK, Attach
  <1>7. attempts'[c] = requests'[c]
    BY <1>1, <1>3 DEF Attach
  <1>8. /\ pc'[c] \in {"sleep", "enqueue", "record"}
        /\ pc'[c] = "sleep" => attempts'[c] < MaxAttempts
        /\ pc'[c] \in {"sleep", "enqueue"} => status'[c] = "dlq"
        /\ pc'[c] = "record" => status'[c] = "attached" /\ Attached(c) \in remote'
    BY <1>1, <1>2 DEF BridgeInv, TypeOK, Attach, Answered, Goto
  <1> QED
    BY <1>6, <1>7, <1>8 DEF CallOK, Attached

LEMMA SleepStep ==
    ASSUME BridgeInv, NEW c \in Calls, Sleep(c)
    PROVE  TypeOK' /\ CallOK(c)'
  <1>1. /\ pc[c] = "sleep" /\ requests[c] = attempts[c]
        /\ attempts[c] < MaxAttempts /\ status[c] = "dlq"
    BY DEF BridgeInv, CallOK, Sleep
  <1>2. attempts[c] + 1 \in 1..MaxAttempts
    BY <1>1, TicketAssumption DEF BridgeInv, TypeOK
  <1>3. attempts' \in [Calls -> 1..MaxAttempts] /\ attempts'[c] = attempts[c] + 1
    BY <1>2 DEF BridgeInv, TypeOK, Sleep
  <1>4. TypeOK'
    BY <1>3 DEF BridgeInv, TypeOK, Sleep, Goto
  <1>5. pc'[c] = "attach" /\ requests' = requests /\ status' = status
    BY DEF BridgeInv, TypeOK, Sleep, Goto
  <1> QED
    BY <1>1, <1>3, <1>4, <1>5 DEF CallOK

LEMMA EnqueueStep ==
    ASSUME BridgeInv, NEW c \in Calls, Enqueue(c)
    PROVE  TypeOK' /\ CallOK(c)'
  <1>1. pc[c] = "enqueue" /\ requests[c] = attempts[c] /\ status[c] = "dlq"
    BY DEF BridgeInv, CallOK, Enqueue
  <1>2. Attached(c) \in [change : Changes, payload : Payloads]
    BY OutcomeType DEF BridgeInv
  <1>3. /\ dlq' \subseteq [change : Changes, payload : Payloads]
        /\ pc' \in [Calls -> {"attach", "sleep", "enqueue", "record", "done", "failed"}]
        /\ reasons' \in [Calls -> SUBSET Reasons]
    BY <1>2 DEF BridgeInv, TypeOK, Enqueue, Met, Goto, Reasons
  <1>4. faults' \in 0..MaxFaults
    BY FaultType DEF BridgeInv, Enqueue
  <1>5. TypeOK'
    BY <1>3, <1>4 DEF BridgeInv, TypeOK, Enqueue
  <1>6. /\ pc'[c] \in {"record", "failed"}
        /\ pc'[c] = "record" => Attached(c) \in dlq'
        /\ requests' = requests /\ attempts' = attempts /\ status' = status
    BY DEF BridgeInv, TypeOK, Enqueue, Goto
  <1> QED
    BY <1>1, <1>5, <1>6 DEF CallOK, Attached

LEMMA CanceledStep ==
    ASSUME BridgeInv, NEW c \in Calls, Canceled(c)
    PROVE  TypeOK' /\ CallOK(c)'
  <1>1. pc' \in [Calls -> {"attach", "sleep", "enqueue", "record", "done", "failed"}]
        /\ pc'[c] = "failed"
    BY DEF BridgeInv, TypeOK, Canceled, Goto
  <1> QED
    BY <1>1 DEF BridgeInv, TypeOK, Canceled, CallOK

(* A record that is appended is one of its call's outcomes, and true.      *)
LEMMA RecordStep ==
    ASSUME BridgeInv, NEW c \in Calls, Record(c)
    PROVE  BridgeInv'
  <1>1. PICK o \in Outcomes(c) :
           \/ /\ Store!Append1(o) /\ Goto(c, "done") /\ UNCHANGED faults
           \/ /\ Store!Known(o) /\ Goto(c, "done")
              /\ UNCHANGED <<log, acks, left, faults>>
           \/ /\ Fault /\ Goto(c, "failed")
              /\ UNCHANGED <<log, acks, left>> \/ Store!Append1(o) \/ Store!Leave(o)
    BY DEF Record
  <1>2. /\ pc[c] = "record"
        /\ UNCHANGED <<remote, dlq, attempts, requests, reasons, status>>
    BY DEF Record
  <1>3. TypeOK /\ o \in Attachments
    BY OutcomeType DEF BridgeInv
  <1>4. /\ log' \in Seq(Attachments)
        /\ ToSet(log') = ToSet(log) \/ ToSet(log') = ToSet(log) \cup {o}
        /\ acks' \subseteq [rec : Attachments, head : Seq(Attachments)]
        /\ left' = left \/ left' = left \cup {EventOf(o)}
    <2>1. CASE Store!Append1(o)
      <3>1. left' = left
        BY <2>1 DEF Store!Append1
      <3> QED
        BY <1>3, <2>1, <3>1, AppendLog
    <2>2. CASE UNCHANGED <<log, acks, left>>
      BY <1>3, <2>2 DEF TypeOK
    <2>3. CASE Store!Leave(o)
      BY <1>3, <2>3 DEF TypeOK, Store!Leave
    <2> QED
      BY <1>1, <2>1, <2>2, <2>3
  <1>5. /\ pc' \in [Calls -> {"attach", "sleep", "enqueue", "record", "done", "failed"}]
        /\ pc'[c] \in {"done", "failed"}
        /\ \A d \in Calls \ {c} : pc'[d] = pc[d]
    BY <1>1, <1>3 DEF TypeOK, Goto
  <1>6. faults' \in 0..MaxFaults
    BY <1>1, <1>3, FaultType
  <1>7. TypeOK'
    BY <1>2, <1>3, <1>4, <1>5, <1>6 DEF TypeOK
  <1>8. Attached(c) \in IF status[c] = "attached" THEN remote ELSE dlq
    BY <1>2 DEF BridgeInv, CallOK
  <1>9. pc'[c] = "done" => EventOf(o) \in Events'
    <2>1. CASE Store!Append1(o)
      <3>1. o \in ToSet(log')
        BY <1>3, <2>1, AppendLog
      <3> QED
        BY <3>1 DEF Events
    <2>2. CASE Store!Known(o) /\ UNCHANGED <<log, left>>
      BY <2>2 DEF Store!Known, RepeatsEvent, SameEvent, Events, ToSet
    <2>3. CASE Goto(c, "failed")
      BY <1>3, <2>3 DEF Goto, TypeOK
    <2> QED
      BY <1>1, <2>1, <2>2, <2>3
  <1>10. Outcomes(c)' = Outcomes(c) /\ Attached(c)' = Attached(c)
    BY <1>2 DEF Outcomes, Attached
  <1>11. pc'[c] = "done"
         => \E x \in Outcomes(c)' : EventOf(x) \in Events'
    BY <1>9, <1>10
  <1>12. requests[c] = attempts[c]
    BY <1>2 DEF BridgeInv, CallOK
  <1>13. CallOK(c)'
    BY <1>2, <1>5, <1>8, <1>10, <1>11, <1>12 DEF CallOK
  <1>14. ASSUME NEW d \in Calls \ {c}
         PROVE  CallOK(d)'
    BY <1>2, <1>4, <1>5, RestingCall DEF BridgeInv, Rests, Grows
  <1>15. o.change = Change[c] /\ o.payload = Payload[c] /\ o.status = status[c]
    BY DEF Outcomes
  <1>16. RecordsTrue'
    <2>1. [change |-> o.change, payload |-> o.payload]
             \in IF o.status = "attached" THEN remote ELSE dlq
      BY <1>8, <1>15 DEF Attached
    <2> QED
      BY <1>2, <1>4, <2>1 DEF BridgeInv, RecordsTrue
  <1> QED
    BY <1>7, <1>13, <1>14, <1>16 DEF BridgeInv

LEMMA InitBridge == Init => BridgeInv
  <1> SUFFICES ASSUME Init PROVE BridgeInv
    OBVIOUS
  <1>1. log = <<>> /\ acks = {} /\ left = {}
    BY DEF Init, Store!Init
  <1>2. ToSet(log) = {}
    BY <1>1 DEF ToSet
  <1>3. TypeOK
    BY <1>1, TicketAssumption DEF Init, TypeOK
  <1> QED
    BY <1>2, <1>3 DEF Init, BridgeInv, CallOK, RecordsTrue

LEMMA NextBridge == BridgeInv /\ [Next]_vars => BridgeInv'
  <1> SUFFICES ASSUME BridgeInv, [Next]_vars PROVE BridgeInv'
    OBVIOUS
  <1>1. ASSUME NEW c \in Calls, Attach(c) \/ Sleep(c) \/ Enqueue(c) \/ Canceled(c)
        PROVE  BridgeInv'
    <2>1. TypeOK' /\ CallOK(c)'
      BY <1>1, AttachStep, SleepStep, EnqueueStep, CanceledStep
    <2>2. log' = log /\ Grows /\ \A d \in Calls \ {c} : Rests(d)
      BY <1>1, QuietFrame DEF BridgeInv
    <2>3. \A d \in Calls \ {c} : CallOK(d)'
      BY <2>2, RestingCall DEF BridgeInv
    <2>4. RecordsTrue'
      BY <2>2 DEF BridgeInv, RecordsTrue, Grows
    <2> QED
      BY <2>1, <2>3, <2>4 DEF BridgeInv
  <1>2. CASE UNCHANGED vars
    <2>1. /\ TypeOK' /\ RecordsTrue' /\ Grows
          /\ \A d \in Calls : Rests(d)
      BY <1>2 DEF vars, BridgeInv, TypeOK, RecordsTrue, Grows, Rests
    <2> QED
      BY <2>1, RestingCall DEF BridgeInv
  <1> QED
    BY <1>1, <1>2, RecordStep DEF Next, Step

(* A call never sends more than MaxAttempts requests, and what it reports  *)
(* as attempts are the requests it sent, with any number of calls.         *)
THEOREM AttemptsAlwaysHonest == Spec => []AttemptsHonest
  <1>1. BridgeInv => AttemptsHonest
    BY TicketAssumption DEF BridgeInv, TypeOK, CallOK, AttemptsHonest
  <1> QED
    BY InitBridge, NextBridge, <1>1, PTL DEF Spec

(* A call that returned without error is accounted for on the ticket or in *)
(* the dead letter queue, and in the chain, unless a call before it could  *)
(* not record the same event and left its key in the index.                *)
THEOREM OutcomeAlwaysAccounted == Spec => []OutcomeAccounted
  <1>1. BridgeInv => OutcomeAccounted
    BY DEF BridgeInv, CallOK, OutcomeAccounted
  <1> QED
    BY InitBridge, NextBridge, <1>1, PTL DEF Spec

(* No record claims what is neither on the ticket nor in the queue.        *)
THEOREM RecordsAlwaysTrue == Spec => []RecordsTrue
  <1>1. BridgeInv => RecordsTrue
    BY DEF BridgeInv
  <1> QED
    BY InitBridge, NextBridge, <1>1, PTL DEF Spec

(* What the calls do to the store is what EvidenceLog allows: each step    *)
(* appends one result record that repeats no event, leaves the key of one  *)
(* in the index, or does neither.                                          *)
LEMMA BridgeImplementsLog == Spec => Store!Spec
  <1>1. Init => Store!Init
    BY DEF Init
  <1>2. BridgeInv /\ [Next]_vars => [Store!Next]_Store!vars
    <2> SUFFICES ASSUME BridgeInv, [Next]_vars PROVE [Store!Next]_Store!vars
      OBVIOUS
    <2>0. TypeOK
      BY DEF BridgeInv
    <2>1. CASE \E c \in Calls : Record(c)
      <3>1. PICK c \in Calls : Record(c)
        BY <2>1
      <3>2. PICK o \in Outcomes(c) : \/ Store!Append1(o) \/ Store!Leave(o)
                                    \/ UNCHANGED <<log, acks, left>>
        BY <3>1 DEF Record
      <3>3. o \in Attachments
        BY <2>0, <3>2, OutcomeType
      <3> QED
        BY <3>2, <3>3 DEF Store!Next, Store!vars
    <2>2. CASE \E c \in Calls : Attach(c) \/ Sleep(c) \/ Enqueue(c) \/ Canceled(c)
      BY <2>0, <2>2, QuietFrame DEF Store!vars
    <2>3. CASE UNCHANGED vars
      BY <2>3 DEF vars, Store!vars
    <2> QED
      BY <2>1, <2>2, <2>3 DEF Next, Step
  <1> QED
    BY <1>1, <1>2, InitBridge, NextBridge, PTL DEF Spec, Store!Spec

=============================================================================

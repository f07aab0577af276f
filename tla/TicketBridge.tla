--------------------------- MODULE TicketBridge ---------------------------
(***************************************************************************)
(* core/ticket, core/ticket/dlq: attaching evidence to change tickets.     *)
(*                                                                         *)
(* A call is one Processor.Process: it tries to attach its payload to its  *)
(* change, again after errors it may retry, puts the change in the dead    *)
(* letter queue when it gives up, and appends what happened to the         *)
(* evidence store.  Several calls share the store and the queue.  The      *)
(* remote system may have attached the payload although its answer is an   *)
(* error or is lost.  The store is the one EvidenceLog promises; whether   *)
(* it is in compliance mode, where an append that does not get through may *)
(* leave its key in the index, is the caller's choice.                     *)
(*                                                                         *)
(* A definition that no action or property uses is a faulty variant of the *)
(* one below it; the properties are run against it to see them violated.   *)
(***************************************************************************)
EXTENDS Naturals, FiniteSets, SequencesExt

CONSTANTS
    Calls,       \* the calls of Process
    Change,      \* Change[c]: the change request of call c
    Payload,     \* Payload[c]: what it attaches
    MaxAttempts, \* Processor.MaxAttempts
    ComplianceMode, \* of the store
    MaxFaults    \* bound: appends and queue writes that fail

ASSUME TicketAssumption ==
    /\ MaxAttempts \in Nat \ {0}
    /\ ComplianceMode \in BOOLEAN
    /\ MaxFaults \in Nat

Changes  == {Change[c] : c \in Calls}
Payloads == {Payload[c] : c \in Calls}
Reasons  == {"REMOTE_ERROR", "RATE_LIMITED", "REJECTED", "DLQ"}

\* The evidence record: only the payload's hash is outside the event.
Attachments == [change : Changes, status : {"attached", "dlq"},
                attempts : 1..MaxAttempts, reasons : SUBSET Reasons,
                within : BOOLEAN, payload : Payloads]

VARIABLES
    log, acks, \* the evidence store
    left,      \* the events whose keys undone appends left in its index
    remote,    \* the ticket system: payloads attached to changes
    dlq,       \* ticket-dlq.jsonl
    pc,        \* pc[c]: what call c does next
    attempts,  \* attempts[c]: its current attempt
    requests,  \* requests[c]: requests it sent
    reasons,   \* reasons[c]: the reasons it met
    status,    \* status[c]: StatusAttached or StatusDLQ
    faults

vars == <<log, acks, left, remote, dlq, pc, attempts, requests, reasons, status,
          faults>>

\* dedupe.BuildKey: the event, which the payload is no part of.
EventOf(a) == [change |-> a.change, status |-> a.status, attempts |-> a.attempts,
               reasons |-> a.reasons, within |-> a.within]

SameEvent(a, b) == EventOf(a) = EventOf(b)

RepeatsEvent(l, a) == \E i \in DOMAIN l : SameEvent(l[i], a)

Store == INSTANCE EvidenceLog
            WITH Records <- Attachments, Repeats <- RepeatsEvent, KeyOf <- EventOf,
                 Leavable <- IF ComplianceMode THEN Attachments ELSE {},
                 skipped <- {}

-----------------------------------------------------------------------------

Init ==
    /\ Store!Init
    /\ remote = {} /\ dlq = {}
    /\ pc = [c \in Calls |-> "attach"]
    /\ attempts = [c \in Calls |-> 1]
    /\ requests = [c \in Calls |-> 0]
    /\ reasons = [c \in Calls |-> {}]
    /\ status = [c \in Calls |-> "dlq"]
    /\ faults = 0

Goto(c, label) == pc' = [pc EXCEPT ![c] = label]

Fault == faults < MaxFaults /\ faults' = faults + 1

Attached(c) == [change |-> Change[c], payload |-> Payload[c]]

Met(c, reason) == reasons' = [reasons EXCEPT ![c] = @ \cup {reason}]

\* Adapter.Attach, and what its answer leads to: a 2xx ends the attempts, a
\* transport error, 429 or 5xx is retried while attempts are left, any other
\* answer is final.
Answered(c) ==
    \/ /\ remote' = remote \cup {Attached(c)}
       /\ status' = [status EXCEPT ![c] = "attached"]
       /\ Goto(c, "record")
       /\ UNCHANGED reasons
    \/ /\ remote' \in {remote, remote \cup {Attached(c)}}
       /\ \E reason \in {"REMOTE_ERROR", "RATE_LIMITED"} : Met(c, reason)
       /\ Goto(c, IF attempts[c] < MaxAttempts THEN "sleep" ELSE "enqueue")
       /\ UNCHANGED status
    \/ /\ Met(c, "REJECTED")
       /\ Goto(c, "enqueue")
       /\ UNCHANGED <<remote, status>>

Attach(c) ==
    /\ pc[c] = "attach"
    /\ requests' = [requests EXCEPT ![c] = @ + 1]
    /\ Answered(c)
    /\ UNCHANGED <<log, acks, left, dlq, attempts, faults>>

SleepUncounted(c) ==
    /\ pc[c] = "sleep"
    /\ requests[c] <= MaxAttempts
    /\ Goto(c, "attach")
    /\ UNCHANGED <<log, acks, left, remote, dlq, attempts, requests, reasons, status, faults>>

\* The backoff is over.
Sleep(c) ==
    /\ pc[c] = "sleep"
    /\ attempts' = [attempts EXCEPT ![c] = @ + 1]
    /\ Goto(c, "attach")
    /\ UNCHANGED <<log, acks, left, remote, dlq, requests, reasons, status, faults>>

\* The context is canceled before an attempt or during the backoff: the call
\* returns an error and leaves nothing.
Canceled(c) ==
    /\ pc[c] \in {"attach", "sleep"}
    /\ Goto(c, "failed")
    /\ UNCHANGED <<log, acks, left, remote, dlq, attempts, requests, reasons, status, faults>>

EnqueueBestEffort(c) ==
    /\ pc[c] = "enqueue"
    /\ Met(c, "DLQ")
    /\ \/ dlq' = dlq \cup {Attached(c)} /\ UNCHANGED faults
       \/ Fault /\ UNCHANGED dlq
    /\ Goto(c, "record")
    /\ UNCHANGED <<log, acks, left, remote, attempts, requests, status>>

\* The change is queued; when that fails, before or after the line was
\* written, so does the call.
Enqueue(c) ==
    /\ pc[c] = "enqueue"
    /\ Met(c, "DLQ")
    /\ \/ /\ dlq' = dlq \cup {Attached(c)}
          /\ \/ Goto(c, "record") /\ UNCHANGED faults
             \/ Fault /\ Goto(c, "failed")
       \/ Fault /\ Goto(c, "failed") /\ UNCHANGED dlq
    /\ UNCHANGED <<log, acks, left, remote, attempts, requests, status>>

\* The SLA is or is not met: the clock is left out.
Outcomes(c) == {[change |-> Change[c], status |-> status[c], attempts |-> attempts[c],
                 reasons |-> reasons[c], within |-> w, payload |-> Payload[c]] :
                   w \in BOOLEAN}

RecordIgnoringErrors(c) ==
    /\ pc[c] = "record"
    /\ \E o \in Outcomes(c) :
          \/ Store!Append1(o) /\ acks' # acks /\ UNCHANGED faults
          \/ Store!Known(o) /\ UNCHANGED <<log, acks, left, faults>>
          \/ Fault /\ UNCHANGED <<log, acks, left>>
    /\ Goto(c, "done")
    /\ UNCHANGED <<remote, dlq, attempts, requests, reasons, status>>

\* emitResultRecord: the answer "deduped" counts as this record; an error of
\* the store, which may leave the record or its key behind, is the call's.
Record(c) ==
    /\ pc[c] = "record"
    /\ \E o \in Outcomes(c) :
          \/ /\ Store!Append1(o) /\ acks' # acks
             /\ Goto(c, "done")
             /\ UNCHANGED faults
          \/ /\ Store!Known(o)
             /\ Goto(c, "done")
             /\ UNCHANGED <<log, acks, left, faults>>
          \/ /\ Fault
             /\ \/ UNCHANGED <<log, acks, left>>
                \/ Store!Append1(o) /\ acks' = acks
                \/ Store!Leave(o)
             /\ Goto(c, "failed")
    /\ UNCHANGED <<remote, dlq, attempts, requests, reasons, status>>

Step(c) ==
    \/ Attach(c)
    \/ Sleep(c)
    \/ Enqueue(c)
    \/ Record(c)

Next == \E c \in Calls : Step(c) \/ Canceled(c)

Spec == Init /\ [][Next]_vars

(* Attach answers or times out, and a backoff ends: a call goes on.        *)
FairSpec == Spec /\ \A c \in Calls : WF_vars(Step(c))

-----------------------------------------------------------------------------

TypeOK ==
    /\ log \in Seq(Attachments)
    /\ acks \subseteq [rec : Attachments, head : Seq(Attachments)]
    /\ left \subseteq {EventOf(a) : a \in Attachments}
    /\ remote \subseteq [change : Changes, payload : Payloads]
    /\ dlq \subseteq [change : Changes, payload : Payloads]
    /\ pc \in [Calls -> {"attach", "sleep", "enqueue", "record", "done", "failed"}]
    /\ attempts \in [Calls -> 1..MaxAttempts]
    /\ requests \in [Calls -> 0..MaxAttempts]
    /\ reasons \in [Calls -> SUBSET Reasons]
    /\ status \in [Calls -> {"attached", "dlq"}]
    /\ faults \in 0..MaxFaults

\* The events the store answers "deduped" for.
Events == left \cup {EventOf(a) : a \in ToSet(log)}

(* Nothing is silently lost: a call that returned without error has its    *)
(* payload on the ticket or in the dead letter queue, as its result says,  *)
(* and the chain has a record of that outcome for its change, or a call    *)
(* before it returned an error for that record and left its key.           *)
OutcomeAccounted ==
    \A c \in Calls : pc[c] = "done" =>
        /\ Attached(c) \in IF status[c] = "attached" THEN remote ELSE dlq
        /\ \E o \in Outcomes(c) : EventOf(o) \in Events

(* Retries are bounded and reported honestly: a call never sends more than *)
(* MaxAttempts requests, and the attempts in its record are the requests   *)
(* it sent.                                                                *)
AttemptsHonest ==
    \A c \in Calls :
        /\ requests[c] <= MaxAttempts
        /\ pc[c] \in {"enqueue", "record", "done"} => requests[c] = attempts[c]

(* Chain records never claim too much: a record with status attached is    *)
(* about a change to which that payload is attached, and one with status   *)
(* dlq about a change that is queued with it.                              *)
RecordsTrue ==
    \A a \in ToSet(log) :
        [change |-> a.change, payload |-> a.payload]
           \in IF a.status = "attached" THEN remote ELSE dlq

(* Every call returns.                                                     *)
CallEnds == \A c \in Calls : <>(pc[c] \in {"done", "failed"})

=============================================================================

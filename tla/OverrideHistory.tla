-------------------------- MODULE OverrideHistory --------------------------
(***************************************************************************)
(* core/override: `axym override create` puts an approval record in the    *)
(* evidence store and then a line about it in overrides/overrides.jsonl,   *)
(* the file that audit bundles include.                                    *)
(*                                                                         *)
(* The commands on one store directory follow one another; each may fail   *)
(* or be killed after any write, and be issued again.  The store is the    *)
(* one EvidenceLog promises, opened in compliance mode: an append that     *)
(* does not get through may leave its key in the index, and the command    *)
(* that is issued again is then answered "deduped".  An override is its    *)
(* content, which gives its key: what was asked for, and the expiry, which *)
(* the clock gives when the user does not.                                 *)
(*                                                                         *)
(* A definition that no action or property uses is a faulty variant of the *)
(* one below it; the properties are run against it to see them violated.   *)
(***************************************************************************)
EXTENDS Naturals, Sequences, SequencesExt

CONSTANTS
    Exceptions, \* what is asked for: bundle, reason and signer
    Expiries,   \* the values of --expires in use
    Lifetime,   \* the default expiry, after now
    Garbled,    \* a line that is no artifact
    MaxTime,    \* bound: last tick of the clock
    MaxFaults,  \* bound: appends and writes that fail
    MaxCrashes  \* bound: commands that are killed

ASSUME OverrideAssumption ==
    /\ Expiries \subseteq Nat
    /\ Lifetime \in Nat \ {0}
    /\ MaxTime \in Nat /\ MaxFaults \in Nat /\ MaxCrashes \in Nat

Overrides == [exception : Exceptions, expires : Expiries \cup Lifetime..(MaxTime + Lifetime)]

VARIABLES
    log, acks, \* the evidence store
    left,      \* the overrides whose keys undone appends left in its index
    lines,     \* overrides.jsonl
    torn,      \* its last line is incomplete
    now,
    pc,        \* "idle", "append" the record, or "write" the line
    current,   \* the override at work
    created,   \* overrides reported as created
    faults, crashes

vars == <<log, acks, left, lines, torn, now, pc, current, created, faults, crashes>>

RepeatsContent(l, o) == o \in ToSet(l)

KeyOfContent(o) == o

Store == INSTANCE EvidenceLog
            WITH Records <- Overrides, Leavable <- Overrides, Repeats <- RepeatsContent,
                 KeyOf <- KeyOfContent, skipped <- {}

-----------------------------------------------------------------------------

Init ==
    /\ Store!Init
    /\ lines = <<>> /\ torn = FALSE
    /\ now = 0
    /\ pc = "idle"
    /\ current \in {[exception |-> e, expires |-> Lifetime] : e \in Exceptions}
    /\ created = {}
    /\ faults = 0 /\ crashes = 0

Fault == faults < MaxFaults /\ faults' = faults + 1

\* The command with an expiry, which must lie in the future, or without one.
Create(e) ==
    /\ pc = "idle"
    /\ \E t \in {x \in Expiries : x > now} \cup {now + Lifetime} :
          current' = [exception |-> e, expires |-> t]
    /\ pc' = "append"
    /\ UNCHANGED <<log, acks, left, lines, torn, now, created, faults, crashes>>

Answer == created' = created \cup {current} /\ pc' = "idle"

AppendAnswersLate ==
    /\ pc = "append"
    /\ \/ /\ Store!Append1(current) /\ acks' # acks
          /\ UNCHANGED faults
       \/ /\ Store!Known(current)
          /\ UNCHANGED <<log, acks, left, faults>>
    /\ pc' = "write"
    /\ UNCHANGED <<lines, torn, now, current, created, crashes>>

\* What an append that is not answered leaves behind: nothing, its record,
\* or its key alone.
Unanswered ==
    \/ UNCHANGED <<log, acks, left>>
    \/ Store!Append1(current) /\ acks' = acks
    \/ Store!Leave(current)

\* A new override goes on to its line.  One that the store answers "deduped"
\* for is reported as created at once, without one.
AppendRecord ==
    /\ pc = "append"
    /\ \/ /\ Store!Append1(current) /\ acks' # acks
          /\ pc' = "write"
          /\ UNCHANGED <<created, faults>>
       \/ /\ Store!Known(current)
          /\ Answer
          /\ UNCHANGED <<log, acks, left, faults>>
       \/ /\ Fault
          /\ Unanswered
          /\ pc' = "idle"
          /\ UNCHANGED created
    /\ UNCHANGED <<lines, torn, now, current, crashes>>

\* A line written after an incomplete one makes one garbled line with it.
WithLine == Append(lines, IF torn THEN Garbled ELSE current)

\* The file is opened for appending, the line written and synced; it may fail
\* before the write, within it, or at the sync.
WriteLine ==
    /\ pc = "write"
    /\ \/ /\ lines' = WithLine /\ torn' = FALSE
          /\ \/ Answer /\ UNCHANGED faults
             \/ Fault /\ pc' = "idle" /\ UNCHANGED created
       \/ /\ Fault /\ pc' = "idle"
          /\ torn' \in {torn, TRUE}
          /\ UNCHANGED <<lines, created>>
    /\ UNCHANGED <<log, acks, left, now, current, crashes>>

\* The command is killed; a write may have been cut off.
Crash ==
    /\ pc # "idle"
    /\ crashes < MaxCrashes /\ crashes' = crashes + 1
    /\ pc' = "idle"
    /\ \/ UNCHANGED <<log, acks, left, torn>>
       \/ pc = "append" /\ Unanswered /\ UNCHANGED torn
       \/ pc = "write" /\ torn' = TRUE /\ UNCHANGED <<log, acks, left>>
    /\ UNCHANGED <<lines, now, current, created, faults>>

Tick ==
    /\ now < MaxTime
    /\ now' = now + 1
    /\ UNCHANGED <<log, acks, left, lines, torn, pc, current, created, faults, crashes>>

Next ==
    \/ \E e \in Exceptions : Create(e)
    \/ AppendRecord
    \/ WriteLine
    \/ Crash
    \/ Tick

Spec == Init /\ [][Next]_vars

-----------------------------------------------------------------------------

TypeOK ==
    /\ log \in Seq(Overrides)
    /\ acks \subseteq [rec : Overrides, head : Seq(Overrides)]
    /\ left \subseteq Overrides
    /\ lines \in Seq(Overrides \cup {Garbled})
    /\ torn \in BOOLEAN
    /\ now \in 0..MaxTime
    /\ pc \in {"idle", "append", "write"}
    /\ current \in Overrides
    /\ created \subseteq Overrides
    /\ faults \in 0..MaxFaults /\ crashes \in 0..MaxCrashes

PositionIn(s, o) == CHOOSE i \in DOMAIN s : s[i] = o

(* What was reported as created is in the chain, or was asked for before   *)
(* in a command whose append did not get through but left its key.  The    *)
(* history is a part of the chain: every readable line is about one        *)
(* override in the chain, no override has two lines, and the lines are in  *)
(* the order of the chain, through failures, crashes and repeated commands.*)
HistoryFollowsChain ==
    /\ created \subseteq ToSet(log) \cup left
    /\ \A i, j \in {k \in DOMAIN lines : lines[k] # Garbled} :
        /\ lines[i] \in ToSet(log)
        /\ i < j => PositionIn(log, lines[i]) < PositionIn(log, lines[j])

=============================================================================

--------------------------- MODULE OverrideProofs ---------------------------
(***************************************************************************)
(* The override history follows the chain for every number of exceptions,  *)
(* any clock, and every number of failures and kills.                      *)
(***************************************************************************)
EXTENDS OverrideHistory, TLAPS

Readable(i) == i \in DOMAIN lines /\ lines[i] # Garbled

\* The chain holds no override twice: it is deduped by content.
NoRepeats == \A i, j \in DOMAIN log : log[i] = log[j] => i = j

\* A command about to write its line has just put its override at the end
\* of the chain, and no line is about it yet.
Fresh ==
    pc = "write" => /\ log # <<>> /\ log[Len(log)] = current
                    /\ \A i : Readable(i) => lines[i] # current

HistoryInv == TypeOK /\ NoRepeats /\ Fresh /\ HistoryFollowsChain

(* In a chain without repetitions a record's position is where it is.      *)
LEMMA PositionIs ==
    ASSUME NEW s, \A i, j \in DOMAIN s : s[i] = s[j] => i = j,
           NEW i \in DOMAIN s
    PROVE  PositionIn(s, s[i]) = i
  BY DEF PositionIn

LEMMA AppendFacts ==
    ASSUME NEW S, NEW s \in Seq(S), NEW o \in S
    PROVE  /\ Append(s, o) \in Seq(S)
           /\ DOMAIN Append(s, o) = DOMAIN s \cup {Len(s) + 1}
           /\ DOMAIN s = 1..Len(s) /\ Len(s) \in Nat
           /\ Len(Append(s, o)) = Len(s) + 1
           /\ \A i \in DOMAIN s : Append(s, o)[i] = s[i]
           /\ Append(s, o)[Len(s) + 1] = o
  OBVIOUS

LEMMA InSet ==
    ASSUME NEW s, NEW o
    PROVE  o \in ToSet(s) <=> \E i \in DOMAIN s : s[i] = o
  BY DEF ToSet

(* A new record leaves the old ones where they are.                        *)
LEMMA AppendKeepsHistory ==
    ASSUME HistoryInv, Store!Append1(current),
           UNCHANGED <<lines, created>>
    PROVE  /\ log' \in Seq(Overrides)
           /\ acks' \subseteq [rec : Overrides, head : Seq(Overrides)]
           /\ left' = left
           /\ NoRepeats' /\ HistoryFollowsChain'
           /\ log' # <<>> /\ log'[Len(log')] = current
           /\ \A i : Readable(i) => lines[i] # current
  <1> USE DEF HistoryInv
  <1>1. /\ log' = Append(log, current)
        /\ acks' \in {acks, acks \cup {[rec |-> current, head |-> log']}}
        /\ current \notin ToSet(log)
        /\ left' = left
    BY DEF Store!Append1, RepeatsContent
  <1>2. log \in Seq(Overrides) /\ current \in Overrides
    BY DEF TypeOK
  <1>3. /\ log' \in Seq(Overrides)
        /\ DOMAIN log' = DOMAIN log \cup {Len(log) + 1}
        /\ DOMAIN log = 1..Len(log) /\ Len(log) \in Nat
        /\ Len(log') = Len(log) + 1
        /\ \A i \in DOMAIN log : log'[i] = log[i]
        /\ log'[Len(log) + 1] = current
    BY <1>1, <1>2, AppendFacts
  <1>4. acks' \subseteq [rec : Overrides, head : Seq(Overrides)]
    <2>1. acks \subseteq [rec : Overrides, head : Seq(Overrides)]
      BY DEF TypeOK
    <2> QED
      BY <1>1, <1>2, <1>3, <2>1
  <1>5. \A i \in DOMAIN log : log[i] # current
    BY <1>1, InSet
  <1>6. NoRepeats'
    BY <1>3, <1>5 DEF NoRepeats
  <1>7. \A o \in ToSet(log) : o \in ToSet(log') /\ PositionIn(log', o) = PositionIn(log, o)
    <2> SUFFICES ASSUME NEW i \in DOMAIN log
                 PROVE  /\ log[i] \in ToSet(log')
                        /\ PositionIn(log', log[i]) = PositionIn(log, log[i])
      BY InSet
    <2>1. PositionIn(log, log[i]) = i
      BY PositionIs DEF NoRepeats
    <2>2. PositionIn(log', log'[i]) = i
      BY <1>3, <1>6, PositionIs DEF NoRepeats
    <2> QED
      BY <1>3, <2>1, <2>2, InSet
  <1>8. HistoryFollowsChain'
    BY <1>1, <1>7 DEF HistoryFollowsChain
  <1>9. \A i : Readable(i) => lines[i] # current
    BY <1>1 DEF HistoryFollowsChain, Readable
  <1>10. log' # <<>>
    BY <1>3
  <1> QED
    BY <1>1, <1>3, <1>4, <1>6, <1>8, <1>9, <1>10

(* The line of the last record goes to the end of the history.             *)
LEMMA LineKeepsHistory ==
    ASSUME HistoryInv, pc = "write", lines' = WithLine, log' = log, left' = left,
           created' = created \/ created' = created \cup {current}
    PROVE  HistoryFollowsChain' /\ lines' \in Seq(Overrides \cup {Garbled})
  <1> USE DEF HistoryInv
  <1> DEFINE line == IF torn THEN Garbled ELSE current
             last == Len(lines) + 1
  <1>1. lines \in Seq(Overrides \cup {Garbled}) /\ line \in Overrides \cup {Garbled}
    BY DEF TypeOK
  <1>2. lines' = Append(lines, line)
    BY DEF WithLine
  <1>3. /\ lines' \in Seq(Overrides \cup {Garbled})
        /\ DOMAIN lines' = DOMAIN lines \cup {last}
        /\ DOMAIN lines = 1..Len(lines) /\ Len(lines) \in Nat
        /\ \A i \in DOMAIN lines : lines'[i] = lines[i]
        /\ lines'[last] = line
    BY <1>1, <1>2, AppendFacts
  <1>4. log \in Seq(Overrides) /\ log # <<>> /\ log[Len(log)] = current
    BY DEF TypeOK, Fresh
  <1>5. Len(log) \in DOMAIN log /\ DOMAIN log = 1..Len(log) /\ Len(log) \in Nat
    BY <1>4
  <1>6. current \in ToSet(log) /\ PositionIn(log, current) = Len(log)
    BY <1>4, <1>5, InSet, PositionIs DEF NoRepeats
  <1>7. ASSUME NEW i, Readable(i)
        PROVE  /\ lines[i] \in ToSet(log)
               /\ PositionIn(log, lines[i]) < Len(log)
    <2>1. lines[i] \in ToSet(log) /\ lines[i] # current
      BY <1>7 DEF HistoryFollowsChain, Readable, Fresh
    <2>2. PICK k \in DOMAIN log : log[k] = lines[i]
      BY <2>1, InSet
    <2>3. PositionIn(log, lines[i]) = k
      BY <2>2, PositionIs DEF NoRepeats
    <2> QED
      BY <1>4, <1>5, <2>1, <2>2, <2>3
  <1>8. ASSUME NEW i \in {k \in DOMAIN lines' : lines'[k] # Garbled},
               NEW j \in {k \in DOMAIN lines' : lines'[k] # Garbled}
        PROVE  /\ lines'[i] \in ToSet(log)
               /\ i < j => PositionIn(log, lines'[i]) < PositionIn(log, lines'[j])
    <2>1. CASE i \in DOMAIN lines /\ j \in DOMAIN lines
      BY <1>3, <1>8, <2>1 DEF HistoryFollowsChain
    <2>2. CASE i \in DOMAIN lines /\ j = last
      BY <1>3, <1>6, <1>7, <1>8, <2>2 DEF Readable
    <2>3. CASE i = last
      BY <1>3, <1>6, <1>8, <2>3
    <2> QED
      BY <1>3, <1>8, <2>1, <2>2, <2>3
  <1>9. created' \subseteq ToSet(log) \cup left
    BY <1>6 DEF HistoryFollowsChain
  <1> QED
    BY <1>3, <1>8, <1>9 DEF HistoryFollowsChain

LEMMA CountType ==
    ASSUME TypeOK
    PROVE  /\ Fault \/ UNCHANGED faults => faults' \in 0..MaxFaults
           /\ (crashes < MaxCrashes /\ crashes' = crashes + 1) \/ UNCHANGED crashes
              => crashes' \in 0..MaxCrashes
  BY OverrideAssumption DEF TypeOK, Fault

(* A step that only moves clock and counters, or gives up.                 *)
LEMMA QuietStep ==
    ASSUME HistoryInv, UNCHANGED <<log, lines>>,
           left \subseteq left', created' \subseteq ToSet(log) \cup left',
           pc' = "write" => pc = "write" /\ current' = current
    PROVE  NoRepeats' /\ Fresh' /\ HistoryFollowsChain'
  BY DEF HistoryInv, NoRepeats, Fresh, HistoryFollowsChain, Readable

LEMMA CreatedKnown == HistoryInv => created \subseteq ToSet(log) \cup left
  BY DEF HistoryInv, HistoryFollowsChain

LEMMA CreateStep ==
    ASSUME HistoryInv, NEW e \in Exceptions, Create(e)
    PROVE  HistoryInv'
  <1>1. PICK t \in {x \in Expiries : x > now} \cup {now + Lifetime} :
           current' = [exception |-> e, expires |-> t]
    BY DEF Create
  <1>2. current' \in Overrides
    BY <1>1, OverrideAssumption DEF Overrides, HistoryInv, TypeOK
  <1>3. TypeOK'
    BY <1>2 DEF Create, HistoryInv, TypeOK
  <1> QED
    BY <1>3, QuietStep, CreatedKnown DEF Create, HistoryInv

LEMMA AppendStep ==
    ASSUME HistoryInv, AppendRecord
    PROVE  HistoryInv'
  <1>1. UNCHANGED <<lines, torn, now, current, crashes>>
    BY DEF AppendRecord
  <1>2. faults' \in 0..MaxFaults /\ pc' \in {"idle", "write"}
    BY CountType DEF AppendRecord, HistoryInv, Answer
  <1>3. CASE Store!Append1(current) /\ UNCHANGED created
    <2>1. TypeOK'
      BY <1>1, <1>2, <1>3, AppendKeepsHistory DEF HistoryInv, TypeOK
    <2>2. Fresh'
      BY <1>1, <1>3, AppendKeepsHistory DEF Fresh, Readable
    <2> QED
      BY <1>1, <1>3, <2>1, <2>2, AppendKeepsHistory DEF HistoryInv
  <1>4. CASE /\ UNCHANGED <<log, acks, left>> \/ Store!Leave(current)
             /\ pc' = "idle" /\ created' = created
    <2>1. /\ UNCHANGED <<log, acks>>
          /\ left' = left \/ left' = left \cup {current}
      BY <1>4 DEF Store!Leave, KeyOfContent
    <2>2. TypeOK'
      BY <1>1, <1>2, <1>4, <2>1 DEF HistoryInv, TypeOK
    <2>3. left \subseteq left' /\ created' \subseteq ToSet(log) \cup left'
      BY <1>4, <2>1, CreatedKnown
    <2> QED
      BY <1>1, <1>4, <2>1, <2>2, <2>3, QuietStep DEF HistoryInv
  <1>5. CASE Store!Known(current) /\ Answer /\ UNCHANGED <<log, acks, left>>
    <2>0. current \in ToSet(log) \cup left
      BY <1>5, InSet DEF Store!Known, RepeatsContent, KeyOfContent
    <2>1. created' \subseteq ToSet(log) \cup left
      BY <1>5, <2>0, CreatedKnown DEF Answer
    <2>2. TypeOK'
      BY <1>1, <1>2, <1>5 DEF HistoryInv, TypeOK, Answer
    <2> QED
      BY <1>1, <1>5, <2>1, <2>2, QuietStep DEF HistoryInv, Answer
  <1> QED
    BY <1>3, <1>4, <1>5 DEF AppendRecord, Unanswered

LEMMA WriteStep ==
    ASSUME HistoryInv, WriteLine
    PROVE  HistoryInv'
  <1>1. pc = "write" /\ UNCHANGED <<log, acks, left, now, current, crashes>> /\ pc' = "idle"
    BY DEF WriteLine, Answer
  <1>2. faults' \in 0..MaxFaults
    BY CountType DEF WriteLine, HistoryInv
  <1>3. torn' \in BOOLEAN
    BY DEF WriteLine, HistoryInv, TypeOK
  <1>4. NoRepeats' /\ Fresh'
    BY <1>1 DEF HistoryInv, NoRepeats, Fresh
  <1>5. CASE lines' = WithLine /\ (Answer \/ UNCHANGED created)
    <2>1. created' = created \/ created' = created \cup {current}
      BY <1>5 DEF Answer
    <2>2. HistoryFollowsChain' /\ lines' \in Seq(Overrides \cup {Garbled})
      BY <1>1, <1>5, <2>1, LineKeepsHistory
    <2>3. TypeOK'
      BY <1>1, <1>2, <1>3, <2>1, <2>2 DEF HistoryInv, TypeOK
    <2> QED
      BY <1>4, <2>2, <2>3 DEF HistoryInv
  <1>6. CASE UNCHANGED <<lines, created>>
    <2>1. TypeOK'
      BY <1>1, <1>2, <1>3, <1>6 DEF HistoryInv, TypeOK
    <2> QED
      BY <1>1, <1>6, <2>1, QuietStep, CreatedKnown DEF HistoryInv
  <1> QED
    BY <1>5, <1>6 DEF WriteLine

LEMMA CrashStep ==
    ASSUME HistoryInv, Crash
    PROVE  HistoryInv'
  <1>1. /\ UNCHANGED <<lines, now, current, created, faults>>
        /\ pc' = "idle"
    BY DEF Crash
  <1>2. crashes' \in 0..MaxCrashes /\ torn' \in BOOLEAN
    BY CountType DEF Crash, HistoryInv, TypeOK
  <1>3. CASE Store!Append1(current)
    <2>1. TypeOK'
      BY <1>1, <1>2, <1>3, AppendKeepsHistory DEF HistoryInv, TypeOK
    <2> QED
      BY <1>1, <1>3, <2>1, AppendKeepsHistory DEF HistoryInv, Fresh
  <1>4. CASE UNCHANGED <<log, acks, left>> \/ Store!Leave(current)
    <2>1. /\ UNCHANGED <<log, acks>>
          /\ left' = left \/ left' = left \cup {current}
      BY <1>4 DEF Store!Leave, KeyOfContent
    <2>2. TypeOK'
      BY <1>1, <1>2, <2>1 DEF HistoryInv, TypeOK
    <2>3. left \subseteq left' /\ created' \subseteq ToSet(log) \cup left'
      BY <1>1, <2>1, CreatedKnown
    <2> QED
      BY <1>1, <2>1, <2>2, <2>3, QuietStep DEF HistoryInv
  <1> QED
    BY <1>3, <1>4 DEF Crash, Unanswered

LEMMA InitHistory == Init => HistoryInv
  <1> SUFFICES ASSUME Init PROVE HistoryInv
    OBVIOUS
  <1>1. log = <<>> /\ acks = {} /\ left = {} /\ lines = <<>> /\ created = {}
    BY DEF Init, Store!Init
  <1>2. current \in Overrides
    BY OverrideAssumption DEF Init, Overrides
  <1>3. TypeOK
    <2>1. log \in Seq(Overrides) /\ lines \in Seq(Overrides \cup {Garbled})
      BY <1>1
    <2>2. now \in 0..MaxTime /\ faults \in 0..MaxFaults /\ crashes \in 0..MaxCrashes
      BY OverrideAssumption DEF Init
    <2> QED
      BY <1>1, <1>2, <2>1, <2>2 DEF Init, TypeOK
  <1> QED
    BY <1>1, <1>3 DEF Init, HistoryInv, NoRepeats, Fresh, HistoryFollowsChain

LEMMA NextHistory == HistoryInv /\ [Next]_vars => HistoryInv'
  <1> SUFFICES ASSUME HistoryInv, [Next]_vars PROVE HistoryInv'
    OBVIOUS
  <1>1. CASE Tick
    <2>1. TypeOK'
      BY <1>1, OverrideAssumption DEF Tick, HistoryInv, TypeOK
    <2> QED
      BY <1>1, <2>1, QuietStep, CreatedKnown DEF Tick, HistoryInv
  <1>2. CASE UNCHANGED vars
    <2>1. TypeOK'
      BY <1>2 DEF vars, HistoryInv, TypeOK
    <2> QED
      BY <1>2, <2>1, QuietStep, CreatedKnown DEF vars, HistoryInv
  <1> QED
    BY <1>1, <1>2, CreateStep, AppendStep, WriteStep, CrashStep DEF Next

(* What was reported as created is in the chain, or its key was left by an *)
(* append that did not get through, and the readable lines of the history  *)
(* are about overrides in the chain, each once, in its order.              *)
THEOREM HistoryAlwaysFollowsChain == Spec => []HistoryFollowsChain
  <1>1. HistoryInv => HistoryFollowsChain
    BY DEF HistoryInv
  <1> QED
    BY InitHistory, NextHistory, <1>1, PTL DEF Spec

(* What the command does to the store is what EvidenceLog allows: each     *)
(* step appends one override that is not in the chain, or leaves its key   *)
(* in the index, or neither.                                               *)
LEMMA HistoryImplementsLog == Spec => Store!Spec
  <1>1. Init => Store!Init
    BY DEF Init
  <1>2. HistoryInv /\ [Next]_vars => [Store!Next]_Store!vars
    <2> SUFFICES ASSUME HistoryInv, [Next]_vars PROVE [Store!Next]_Store!vars
      OBVIOUS
    <2>1. current \in Overrides
      BY DEF HistoryInv, TypeOK
    <2>2. Store!Append1(current) \/ Store!Leave(current) \/ UNCHANGED <<log, acks, left>>
      BY DEF Next, Create, AppendRecord, Unanswered, WriteLine, Crash, Tick, vars
    <2> QED
      BY <2>1, <2>2 DEF Store!Next, Store!vars
  <1> QED
    BY <1>1, <1>2, InitHistory, NextHistory, PTL DEF Spec, Store!Spec

=============================================================================

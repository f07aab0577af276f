----------------------------- MODULE GaitProofs -----------------------------
(***************************************************************************)
(* Gait ingest appends all packs or none, and all of them when it reports  *)
(* success, for any packs, any number of commands, failures and kills.     *)
(* The lifecycle packs that verify are histories the reducer accepts: for  *)
(* any records and any number of packs, the two machines never disagree.   *)
(* The timeline, which replays the packet's events sorted, tells the same. *)
(***************************************************************************)
EXTENDS GaitIngest, LifecycleReplay, FiniteSetTheorems, SequenceTheorems,
        WellFoundedInduction, TLAPS

Entries == UNION {ToSet(Packs[p].items) : p \in DOMAIN Packs}
Kept == {Translated(item) : item \in Entries}
Fields == {"appended", "deduped", "rejected"}

IsResult(r) == r = [f \in Fields |-> r[f]] /\ r.appended \in Nat

Shape ==
    /\ log \in Seq(Kept) /\ staged \in Seq(Entries)
    /\ paths \in Seq(DOMAIN Packs) /\ request \in Seq(DOMAIN Packs)
    /\ before \in Nat
    /\ IsResult(result)
    /\ pc \in {"idle", "staging", "appending"}
    /\ pc # "idle" => outcome = ""

\* The chain grew by what the command counted, and by nothing while it stages.
Counted ==
    /\ pc # "idle" => result.appended = Len(log) - before
    /\ pc = "staging" => Len(log) = before

\* What has been staged is still to be appended, or in the chain.
Pending ==
    /\ pc = "appending" => paths = <<>>
    /\ pc # "idle" =>
         \A i \in DOMAIN request :
            \/ request[i] \in ToSet(paths)
            \/ Keys(Stage(Packs[request[i]])) \subseteq Keys(staged) \cup Keys(log)

IngestInv == Shape /\ Counted /\ Pending /\ AllPacksOrNone /\ DoneIsComplete

-----------------------------------------------------------------------------
LEMMA KeysOfNone == Keys(<<>>) = {} /\ ToSet(<<>>) = {}
  BY DEF Keys, ToSet

LEMMA NoneIsSequence ==
    <<>> \in Seq(Kept) /\ <<>> \in Seq(Entries) /\ <<>> \in Seq(DOMAIN Packs)
  OBVIOUS

LEMMA KeysOfAppend ==
    ASSUME NEW S, NEW s \in Seq(S), NEW r
    PROVE  /\ Keys(Append(s, r)) = Keys(s) \cup {r.key}
           /\ Len(Append(s, r)) = Len(s) + 1 /\ Len(s) \in Nat
  <1>1. /\ DOMAIN Append(s, r) = 1..(Len(s) + 1) /\ DOMAIN s = 1..Len(s)
        /\ Len(Append(s, r)) = Len(s) + 1 /\ Len(s) \in Nat
        /\ \A i \in 1..Len(s) : Append(s, r)[i] = s[i]
        /\ Append(s, r)[Len(s) + 1] = r
    OBVIOUS
  <1>2. 1..(Len(s) + 1) = 1..Len(s) \cup {Len(s) + 1}
    BY <1>1
  <1>3. ToSet(Append(s, r)) = ToSet(s) \cup {r}
    BY <1>1, <1>2 DEF ToSet
  <1> QED
    BY <1>1, <1>3 DEF Keys

LEMMA KeysOfConcat ==
    ASSUME NEW S, NEW s \in Seq(S), NEW t \in Seq(S)
    PROVE  /\ s \o t \in Seq(S)
           /\ Keys(s) \subseteq Keys(s \o t) /\ Keys(t) \subseteq Keys(s \o t)
  <1>1. /\ s \o t \in Seq(S)
        /\ DOMAIN s = 1..Len(s) /\ DOMAIN t = 1..Len(t)
        /\ DOMAIN (s \o t) = 1..(Len(s) + Len(t))
        /\ Len(s) \in Nat /\ Len(t) \in Nat
        /\ \A i \in 1..Len(s) : (s \o t)[i] = s[i]
        /\ \A i \in 1..Len(t) : (s \o t)[i + Len(s)] = t[i]
    OBVIOUS
  <1>2. ToSet(s) \subseteq ToSet(s \o t)
    BY <1>1 DEF ToSet
  <1>3. ASSUME NEW i \in DOMAIN t
        PROVE  t[i] \in ToSet(s \o t)
    <2>1. i + Len(s) \in DOMAIN (s \o t) /\ (s \o t)[i + Len(s)] = t[i]
      BY <1>1
    <2> QED
      BY <2>1 DEF ToSet
  <1>4. ToSet(t) \subseteq ToSet(s \o t)
    BY <1>3 DEF ToSet
  <1> QED
    BY <1>1, <1>2, <1>4 DEF Keys

LEMMA HeadAndTail ==
    ASSUME NEW S, NEW s \in Seq(S), s # <<>>
    PROVE  /\ Head(s) \in S /\ Tail(s) \in Seq(S)
           /\ ToSet(s) = {Head(s)} \cup ToSet(Tail(s))
           /\ Keys(s) = {Head(s).key} \cup Keys(Tail(s))
  <1>1. /\ Head(s) \in S /\ Tail(s) \in Seq(S)
        /\ DOMAIN s = 1..Len(s) /\ DOMAIN Tail(s) = 1..(Len(s) - 1)
        /\ Len(s) \in Nat \ {0} /\ Head(s) = s[1]
        /\ \A i \in 1..(Len(s) - 1) : Tail(s)[i] = s[i + 1]
    OBVIOUS
  <1>2. ToSet(s) = {Head(s)} \cup ToSet(Tail(s))
    <2>1. ASSUME NEW i \in DOMAIN s
          PROVE  s[i] = Head(s) \/ s[i] \in ToSet(Tail(s))
      <3>1. CASE i = 1
        BY <1>1, <3>1
      <3>2. CASE i # 1
        <4>1. i - 1 \in DOMAIN Tail(s) /\ Tail(s)[i - 1] = s[i]
          BY <1>1, <3>2
        <4> QED
          BY <4>1 DEF ToSet
      <3> QED
        BY <3>1, <3>2
    <2>2. ASSUME NEW i \in DOMAIN Tail(s)
          PROVE  Tail(s)[i] \in ToSet(s)
      <3>1. i + 1 \in DOMAIN s /\ Tail(s)[i] = s[i + 1]
        BY <1>1
      <3> QED
        BY <3>1 DEF ToSet
    <2>3. Head(s) \in ToSet(s)
      BY <1>1 DEF ToSet
    <2> QED
      BY <2>1, <2>2, <2>3 DEF ToSet
  <1> QED
    BY <1>1, <1>2 DEF Keys

(* What a translated item keeps.                                           *)
LEMMA TranslatedKeeps ==
    ASSUME NEW item \in Entries
    PROVE  Translated(item) \in Kept /\ Translated(item).key = item.key
  BY DEF Kept, Translated

-----------------------------------------------------------------------------
LEMMA SmallestNumber ==
    ASSUME NEW T, T \subseteq Nat, T # {}
    PROVE  \E m \in T : \A j \in T : m <= j
  <1> DEFINE Less == OpToRel(<, Nat)
  <1>1. \A i, j \in Nat : j < i => <<j, i>> \in Less
    BY DEF OpToRel
  <1>2. IsWellFoundedOn(Less, Nat)
    BY NatLessThanWellFounded
  <1> HIDE DEF Less
  <1>3. PICK m \in T : \A j \in T : ~ (<<j, m>> \in Less)
    BY <1>2, WFMin
  <1>4. ASSUME NEW j \in T
        PROVE  m <= j
    <2>1. m \in Nat /\ j \in Nat /\ ~ (j < m)
      BY <1>1, <1>3
    <2> QED
      BY <2>1
  <1> QED
    BY <1>4

(* What Selected computes, as far as its n-th item.                        *)
Selects(f, items, chosen, n) ==
    f = [i \in 0..n |-> IF i = 0 THEN <<>>
                        ELSE IF items[i] \in chosen THEN Append(f[i - 1], items[i])
                        ELSE f[i - 1]]

(* The recursion by which Selected is defined has a solution: there is no  *)
(* shortest prefix for which it has none.                                  *)
LEMMA SelectionGrows ==
    ASSUME NEW items, NEW chosen, NEW n \in Nat, NEW f, Selects(f, items, chosen, n)
    PROVE  \E g : Selects(g, items, chosen, n + 1)
  <1> DEFINE next == IF items[n + 1] \in chosen THEN Append(f[n], items[n + 1]) ELSE f[n]
             g == [i \in 0..(n + 1) |-> IF i = n + 1 THEN next ELSE f[i]]
             step(i) == IF i = 0 THEN <<>>
                        ELSE IF items[i] \in chosen THEN Append(g[i - 1], items[i])
                        ELSE g[i - 1]
  <1>1. ASSUME NEW i \in 0..n
        PROVE  f[i] = IF i = 0 THEN <<>>
                      ELSE IF items[i] \in chosen THEN Append(f[i - 1], items[i])
                      ELSE f[i - 1]
    BY Zenon DEF Selects
  <1>2. \A i \in 0..n : i \in 0..(n + 1) /\ i # n + 1 /\ g[i] = f[i]
    OBVIOUS
  <1>3. g[n + 1] = next /\ n \in 0..n /\ n + 1 # 0 /\ (n + 1) - 1 = n
    OBVIOUS
  <1> HIDE DEF g
  <1>4. ASSUME NEW i \in 0..(n + 1)
        PROVE  g[i] = step(i)
    <2>1. CASE i = n + 1
      BY <1>2, <1>3, <2>1
    <2>2. CASE i = 0
      BY <1>1, <1>2, <2>2
    <2>3. CASE i # n + 1 /\ i # 0
      <3>1. i \in 0..n /\ i - 1 \in 0..n
        BY <2>3
      <3> QED
        BY <1>1, <1>2, <2>3, <3>1
    <2> QED
      BY <2>1, <2>2, <2>3
  <1>5. g = [i \in 0..(n + 1) |-> g[i]]
    BY DEF g
  <1>6. g = [i \in 0..(n + 1) |-> step(i)]
    BY <1>4, <1>5
  <1> QED
    BY <1>6 DEF Selects

LEMMA SelectionExists ==
    ASSUME NEW items, NEW chosen, NEW n \in Nat
    PROVE  \E f : Selects(f, items, chosen, n)
  <1> DEFINE Without == {m \in Nat : ~ \E f : Selects(f, items, chosen, m)}
  <1> SUFFICES ASSUME Without # {}
               PROVE  FALSE
    OBVIOUS
  <1>1. PICK m \in Without : \A j \in Without : m <= j
    <2>1. Without \subseteq Nat
      OBVIOUS
    <2> HIDE DEF Without
    <2> QED
      BY <2>1, SmallestNumber
  <1>2. m # 0
    <2>1. 0..0 = {0}
      OBVIOUS
    <2>2. Selects([i \in {0} |-> <<>>], items, chosen, 0)
      BY <2>1 DEF Selects
    <2> QED
      BY <2>2
  <1>3. m - 1 \in Nat /\ ~ (m <= m - 1) /\ (m - 1) + 1 = m
    BY <1>1, <1>2
  <1>4. PICK f : Selects(f, items, chosen, m - 1)
    BY <1>1, <1>3
  <1>5. \E g : Selects(g, items, chosen, m)
    BY <1>3, <1>4, SelectionGrows
  <1> QED
    BY <1>1, <1>5

(* What Selected returns is a sequence of the chosen items.                *)
LEMMA SelectedAreChosen ==
    ASSUME NEW S, NEW items \in Seq(S), NEW chosen
    PROVE  Selected(items, chosen) \in Seq(S \cap chosen)
  <1> DEFINE n == Len(items)
             Picked == Seq(S \cap chosen)
  <1>1. n \in Nat /\ n \in 0..n /\ 0 \in 0..n /\ \A i \in 1..n : items[i] \in S
    OBVIOUS
  <1>2. PICK f : Selects(f, items, chosen, n) /\ Selected(items, chosen) = f[n]
    <2>1. PICK g : Selects(g, items, chosen, n)
      BY <1>1, SelectionExists
    <2> QED
      BY <2>1 DEF Selected, Selects
  <1>3. ASSUME NEW i \in 0..n
        PROVE  f[i] = IF i = 0 THEN <<>>
                      ELSE IF items[i] \in chosen THEN Append(f[i - 1], items[i])
                      ELSE f[i - 1]
    BY <1>2, Zenon DEF Selects
  <1> DEFINE Wrong == {i \in 0..n : f[i] \notin Picked}
  <1>4. Wrong = {}
    <2> SUFFICES ASSUME Wrong # {} PROVE FALSE
      OBVIOUS
    <2>1. PICK m \in Wrong : \A j \in Wrong : m <= j
      <3>1. Wrong \subseteq Nat
        BY <1>1
      <3> HIDE DEF Wrong
      <3> QED
        BY <3>1, SmallestNumber
    <2>2. m # 0
      <3>1. f[0] = <<>>
        BY <1>1, <1>3, Zenon
      <3>2. f[0] \in Picked
        BY <3>1
      <3> QED
        BY <2>1, <3>2
    <2>3. m \in 1..n /\ m - 1 \in 0..n /\ ~ (m <= m - 1)
      BY <1>1, <2>1, <2>2
    <2>4. f[m - 1] \in Picked
      BY <2>1, <2>3
    <2>5. f[m] = IF items[m] \in chosen THEN Append(f[m - 1], items[m]) ELSE f[m - 1]
      BY <1>3, <2>2, <2>3
    <2>6. CASE items[m] \in chosen
      <3>1. items[m] \in S \cap chosen
        BY <1>1, <2>3, <2>6
      <3>2. Append(f[m - 1], items[m]) \in Picked
        BY <2>4, <3>1
      <3> QED
        BY <2>1, <2>5, <2>6, <3>2
    <2>7. CASE items[m] \notin chosen
      BY <2>1, <2>4, <2>5, <2>7
    <2> QED
      BY <2>6, <2>7
  <1> QED
    BY <1>1, <1>2, <1>4

(* What a pack is staged as: its records first, its artifacts last.        *)
PackRecords(pack) ==
    OfType(pack.items, "proof") \o Natives(pack) \o Lifecycles(pack)

Typed(types) == {item \in Entries : item.type \in types}
RecordTypes == {"proof", "native", "lifecycle"}

LEMMA SequencesWithin ==
    ASSUME NEW S, NEW T, S \subseteq T, NEW s \in Seq(S)
    PROVE  s \in Seq(T)
  OBVIOUS

LEMMA StageParts ==
    ASSUME NEW p \in DOMAIN Packs
    PROVE  /\ PackRecords(Packs[p]) \in Seq(Typed(RecordTypes))
           /\ Artifacts(Packs[p]) \in Seq(Typed({"artifact"}))
           /\ Stage(Packs[p]) = PackRecords(Packs[p]) \o Artifacts(Packs[p])
  <1> DEFINE items == Packs[p].items
  <1>1. items \in Seq(Entries)
    <2>1. items \in Seq(ToSet(items))
      BY GaitIngestAssumption
    <2>2. ToSet(items) \subseteq Entries
      BY DEF Entries
    <2> HIDE DEF items
    <2> QED
      BY <2>1, <2>2, SequencesWithin
  <1>2. ASSUME NEW type
        PROVE  OfType(items, type) \in Seq(Typed({type}))
    <2>1. OfType(items, type)
            \in Seq(Entries \cap {item \in ToSet(items) : item.type = type})
      BY <1>1, SelectedAreChosen DEF OfType
    <2>2. Entries \cap {item \in ToSet(items) : item.type = type} \subseteq Typed({type})
      BY DEF Typed
    <2> HIDE DEF items
    <2> QED
      BY <2>1, <2>2, SequencesWithin
  <1>3. Natives(Packs[p]) \in Seq(Typed({"native"}))
    <2>1. \A of : of \in Seq(Typed({"native"})) =>
                   TranslateNative(of) \in Seq(Typed({"native"}))
      <3> TAKE of
      <3> HAVE of \in Seq(Typed({"native"}))
      <3> DEFINE chosen == {item \in ToSet(of) : item.state # "untranslatable"}
      <3>1. Selected(of, chosen) \in Seq(Typed({"native"}) \cap chosen)
        BY SelectedAreChosen
      <3>2. Selected(of, chosen) \in Seq(Typed({"native"}))
        BY <3>1
      <3> QED
        BY <3>2 DEF TranslateNative
    <2> QED
      BY <1>2, <2>1 DEF Natives
  <1>4. Lifecycles(Packs[p]) \in Seq(Typed({"lifecycle"}))
    <2>1. \A of : of \in Seq(Typed({"lifecycle"})) =>
                   TranslateLifecycles(of) \in Seq(Typed({"lifecycle"}))
      <3> TAKE of
      <3> HAVE of \in Seq(Typed({"lifecycle"}))
      <3> DEFINE chosen == {item \in ToSet(of) : item.state = "authoritative"}
      <3>1. Selected(of, chosen) \in Seq(Typed({"lifecycle"}) \cap chosen)
        BY SelectedAreChosen
      <3>2. Selected(of, chosen) \in Seq(Typed({"lifecycle"}))
        BY <3>1
      <3> QED
        BY <3>2 DEF TranslateLifecycles
    <2> QED
      BY <1>2, <2>1 DEF Lifecycles
  <1>5. Artifacts(Packs[p]) \in Seq(Typed({"artifact"}))
    <2> DEFINE chosen == {item \in ToSet(items) :
                            item.type = "artifact" /\ ParseSourceArtifact(item) = "artifact"}
    <2>1. Selected(items, chosen) \in Seq(Entries \cap chosen)
      BY <1>1, SelectedAreChosen
    <2>2. Entries \cap chosen \subseteq Typed({"artifact"})
      BY DEF Typed
    <2>3. Selected(items, chosen) \in Seq(Typed({"artifact"}))
      BY <2>1, <2>2
    <2> QED
      BY <2>3 DEF Artifacts
  <1>6. \A type \in RecordTypes : Typed({type}) \subseteq Typed(RecordTypes)
    BY DEF Typed
  <1>7. "proof" \in RecordTypes /\ "native" \in RecordTypes /\ "lifecycle" \in RecordTypes
    BY DEF RecordTypes
  <1>8. /\ OfType(items, "proof") \in Seq(Typed(RecordTypes))
        /\ Natives(Packs[p]) \in Seq(Typed(RecordTypes))
        /\ Lifecycles(Packs[p]) \in Seq(Typed(RecordTypes))
    <2>1. OfType(items, "proof") \in Seq(Typed({"proof"}))
      BY <1>2
    <2> HIDE DEF items
    <2> QED
      BY <2>1, <1>3, <1>4, <1>6, <1>7, SequencesWithin
  <1>9. PackRecords(Packs[p]) \in Seq(Typed(RecordTypes))
    BY <1>8 DEF PackRecords
  <1>10. Stage(Packs[p]) = PackRecords(Packs[p]) \o Artifacts(Packs[p])
    BY DEF Stage, PackRecords
  <1> QED
    BY <1>5, <1>9, <1>10

LEMMA StagesAreSequences ==
    ASSUME NEW p \in DOMAIN Packs
    PROVE  Stage(Packs[p]) \in Seq(Entries)
  <1>1. Typed(RecordTypes) \subseteq Entries /\ Typed({"artifact"}) \subseteq Entries
    BY DEF Typed
  <1>2. PackRecords(Packs[p]) \in Seq(Entries) /\ Artifacts(Packs[p]) \in Seq(Entries)
    BY <1>1, StageParts, SequencesWithin
  <1> QED
    BY <1>2, StageParts, ConcatProperties

-----------------------------------------------------------------------------
Refusals == {"preflight", "read failed", "verification required",
             "verification failed", "unverifiable links", "canceled"}

(* A command that ends with an empty hand: nothing was appended since it   *)
(* began, or its end is not a refusal and not done.                        *)
LEMMA EndStep ==
    ASSUME Shape, NEW how, End(how), UNCHANGED <<request, before>>,
           log' \in Seq(Kept), how # "done",
           how \in Refusals => Len(log') = before,
           result' = result
    PROVE  IngestInv'
  <1>1. pc' = "idle" /\ outcome' = how /\ paths' = <<>> /\ staged' = <<>>
    BY DEF End
  <1>2. Shape'
    BY <1>1, NoneIsSequence DEF Shape
  <1>3. AllPacksOrNone' /\ DoneIsComplete'
    BY <1>1 DEF AllPacksOrNone, DoneIsComplete, Refusals
  <1> QED
    BY <1>1, <1>2, <1>3 DEF IngestInv, Counted, Pending

LEMMA CallStep ==
    ASSUME IngestInv, NEW req \in Requests, NEW options \in BOOLEAN,
           Ingest(req, options)
    PROVE  IngestInv'
  <1>1. /\ request' = req /\ before' = Len(log) /\ result' = NoResult /\ log' = log
        /\ req \in Seq(DOMAIN Packs)
    BY GaitIngestAssumption DEF Ingest
  <1>2. log \in Seq(Kept) /\ Len(log) \in Nat
    <2>1. log \in Seq(Kept)
      BY DEF IngestInv, Shape
    <2> QED
      BY <2>1
  <1>3. IsResult(NoResult) /\ NoResult.appended = 0
    BY DEF IsResult, NoResult, Fields
  <1>4. CASE End("preflight")
    <2>1. pc' = "idle" /\ outcome' = "preflight" /\ paths' = <<>> /\ staged' = <<>>
      BY <1>4 DEF End
    <2>2. Shape'
      BY <1>1, <1>2, <1>3, <2>1, NoneIsSequence DEF IngestInv, Shape
    <2> QED
      BY <1>1, <2>1, <2>2
         DEF IngestInv, Counted, Pending, AllPacksOrNone, DoneIsComplete
  <1>5. CASE pc' = "staging" /\ outcome' = "" /\ paths' = req /\ staged' = <<>>
    <2>1. Shape'
      BY <1>1, <1>2, <1>3, <1>5, NoneIsSequence DEF IngestInv, Shape
    <2>2. Counted'
      <3>1. result'.appended = 0 /\ Len(log') - before' = 0 /\ Len(log') = before'
        BY <1>1, <1>2, <1>3
      <3> QED
        BY <3>1 DEF Counted
    <2>3. Pending'
      BY <1>1, <1>5 DEF Pending, ToSet
    <2> QED
      BY <1>5, <2>1, <2>2, <2>3 DEF IngestInv, AllPacksOrNone, DoneIsComplete
  <1> QED
    BY <1>4, <1>5 DEF Ingest

LEMMA StageStep ==
    ASSUME IngestInv, StagePack
    PROVE  IngestInv'
  <1> DEFINE path == Head(paths)
             pack == Packs[path]
             rejected == Len(OfType(pack.items, "native")) - Len(Natives(pack))
  <1>1. pc = "staging" /\ paths # <<>> /\ Len(log) = before /\ outcome = ""
    BY DEF StagePack, IngestInv, Counted, Shape
  <1>2. UNCHANGED <<request, before, log>>
    BY DEF StagePack, Called
  <1>3. CASE Refusal(pack, correlation) # ""
    <2>1. End(Refusal(pack, correlation)) /\ result' = result
      BY <1>3 DEF StagePack
    <2>2. Refusal(pack, correlation) # "done"
      BY DEF Refusal
    <2> QED
      BY <1>1, <1>2, <2>1, <2>2, EndStep DEF IngestInv, Shape
  <1>4. CASE Refusal(pack, correlation) = ""
    <2>1. /\ staged' = staged \o Stage(pack)
          /\ paths' = Tail(paths)
          /\ result' = [result EXCEPT !.rejected = @ + rejected]
          /\ UNCHANGED <<pc, outcome>>
      BY <1>4 DEF StagePack
    <2>2. path \in DOMAIN Packs /\ Tail(paths) \in Seq(DOMAIN Packs)
          /\ ToSet(paths) = {path} \cup ToSet(Tail(paths))
      BY <1>1, HeadAndTail DEF IngestInv, Shape
    <2>3. Stage(pack) \in Seq(Entries) /\ staged \in Seq(Entries)
      BY <2>2, StagesAreSequences DEF IngestInv, Shape
    <2>4. /\ staged' \in Seq(Entries)
          /\ Keys(staged) \subseteq Keys(staged') /\ Keys(Stage(pack)) \subseteq Keys(staged')
      BY <2>1, <2>3, KeysOfConcat
    <2>5. IsResult(result') /\ result'.appended = result.appended
      BY <2>1 DEF IngestInv, Shape, IsResult, Fields
    <2>6. Shape'
      BY <1>2, <2>1, <2>2, <2>4, <2>5 DEF IngestInv, Shape
    <2>7. Counted'
      BY <1>2, <2>1, <2>5 DEF IngestInv, Counted
    <2>8. Pending'
      BY <1>1, <1>2, <2>1, <2>2, <2>4 DEF IngestInv, Pending
    <2> QED
      BY <1>1, <2>1, <2>6, <2>7, <2>8 DEF IngestInv, AllPacksOrNone, DoneIsComplete
  <1> QED
    BY <1>3, <1>4

(* A record that goes to the chain, or is there under its key.             *)
LEMMA RecordStep ==
    ASSUME IngestInv, AppendRecord \/ DedupeRecord
    PROVE  IngestInv'
  <1>1. /\ pc = "appending" /\ staged # <<>> /\ staged' = Tail(staged)
        /\ UNCHANGED <<pc, paths, outcome, request, before>>
    BY DEF AppendRecord, DedupeRecord, Called
  <1>2. /\ Head(staged) \in Entries /\ staged' \in Seq(Entries)
        /\ Keys(staged) = {Head(staged).key} \cup Keys(staged')
    BY <1>1, HeadAndTail DEF IngestInv, Shape
  <1>3. /\ log' \in Seq(Kept) /\ Len(log) \in Nat
        /\ {Head(staged).key} \cup Keys(log) \subseteq Keys(log')
        /\ IsResult(result')
        /\ result'.appended - result.appended = Len(log') - Len(log)
    <2>1. IsResult(result) /\ log \in Seq(Kept)
      BY DEF IngestInv, Shape
    <2>2. CASE AppendRecord
      <3>1. Translated(Head(staged)) \in Kept /\ Translated(Head(staged)).key = Head(staged).key
        BY <1>2, TranslatedKeeps
      <3>2. log' = Append(log, Translated(Head(staged)))
        BY <2>2 DEF AppendRecord
      <3>3. /\ log' \in Seq(Kept) /\ Len(log') = Len(log) + 1 /\ Len(log) \in Nat
            /\ Keys(log') = Keys(log) \cup {Head(staged).key}
        BY <2>1, <3>1, <3>2, KeysOfAppend
      <3>4. result' = [result EXCEPT !.appended = result.appended + 1]
        BY <2>2 DEF AppendRecord
      <3>5. result'.appended = result.appended + 1
        BY <2>1, <3>4 DEF IsResult, Fields
      <3>6. result' = [f \in Fields |-> result'[f]]
        BY <2>1, <3>4 DEF IsResult, Fields
      <3> QED
        BY <2>1, <3>3, <3>5, <3>6 DEF IsResult
    <2>3. CASE DedupeRecord
      <3>1. log' = log /\ Head(staged).key \in Keys(log)
        BY <2>3 DEF DedupeRecord
      <3>2. IsResult(result') /\ result'.appended = result.appended
        BY <2>1, <2>3 DEF DedupeRecord, IsResult, Fields
      <3>3. Len(log) \in Nat
        BY <2>1
      <3> QED
        BY <2>1, <3>1, <3>2, <3>3 DEF IsResult
    <2> QED
      BY <2>2, <2>3
  <1>4. Shape'
    BY <1>1, <1>2, <1>3 DEF IngestInv, Shape
  <1>5. Counted'
    <2>1. result.appended = Len(log) - before /\ before \in Nat /\ IsResult(result)
      BY <1>1 DEF IngestInv, Counted, Shape
    <2>2. Len(log') \in Nat
      BY <1>3
    <2>3. result.appended \in Nat /\ result'.appended \in Nat
      BY <1>3, <2>1 DEF IsResult
    <2>4. result'.appended = Len(log') - before'
      BY <1>1, <1>3, <2>1, <2>2, <2>3
    <2> QED
      BY <1>1, <2>4 DEF Counted
  <1>6. Pending'
    BY <1>1, <1>2, <1>3 DEF IngestInv, Pending
  <1> QED
    BY <1>1, <1>4, <1>5, <1>6 DEF IngestInv, Shape, AllPacksOrNone, DoneIsComplete

LEMMA DoneStep ==
    ASSUME IngestInv, Done
    PROVE  IngestInv'
  <1>1. /\ pc = "appending" /\ staged = <<>> /\ paths = <<>>
        /\ pc' = "idle" /\ outcome' = "done" /\ paths' = <<>> /\ staged' = <<>>
        /\ UNCHANGED <<request, before, log, result>>
    BY DEF Done, End, Called, IngestInv, Pending
  <1>2. Shape'
    BY <1>1 DEF IngestInv, Shape
  <1>3. DoneIsComplete'
    BY <1>1, KeysOfNone DEF IngestInv, Counted, Pending, DoneIsComplete
  <1> QED
    BY <1>1, <1>2, <1>3 DEF IngestInv, Counted, Pending, AllPacksOrNone

LEMMA InitIngest == Init => IngestInv
  <1> SUFFICES ASSUME Init PROVE IngestInv
    OBVIOUS
  <1>1. IsResult(NoResult)
    BY DEF IsResult, NoResult, Fields
  <1>2. Shape
    BY <1>1, NoneIsSequence DEF Init, Shape
  <1> QED
    BY <1>2 DEF Init, IngestInv, Counted, Pending, AllPacksOrNone, DoneIsComplete

LEMMA NextIngest == IngestInv /\ [Next]_vars => IngestInv'
  <1> SUFFICES ASSUME IngestInv, [Next]_vars PROVE IngestInv'
    OBVIOUS
  <1>1. CASE Cancel
    BY <1>1, EndStep DEF Cancel, Called, IngestInv, Counted, Shape
  <1>2. CASE Staged
    BY <1>2 DEF Staged, Called, Unstaged, IngestInv, Shape, Counted, Pending,
                AllPacksOrNone, DoneIsComplete
  <1>3. CASE RefuseRecord
    BY <1>3, EndStep DEF RefuseRecord, Called, IngestInv, Shape, Refusals
  <1>4. CASE FailAppend
    <2>1. log' \in Seq(Kept)
      <3>1. Head(staged) \in Entries
        BY <1>4, HeadAndTail DEF FailAppend, IngestInv, Shape
      <3>2. Translated(Head(staged)) \in Kept /\ log \in Seq(Kept)
        BY <3>1, TranslatedKeeps DEF IngestInv, Shape
      <3>3. Append(log, Translated(Head(staged))) \in Seq(Kept)
        BY <3>2
      <3> QED
        BY <1>4, <3>2, <3>3 DEF FailAppend
    <2> QED
      BY <1>4, <2>1, EndStep DEF FailAppend, Called, IngestInv, Refusals
  <1>5. CASE Kill
    BY <1>5, EndStep DEF Kill, Called, IngestInv, Shape, Refusals
  <1>6. CASE UNCHANGED vars
    BY <1>6 DEF vars, IngestInv, Shape, Counted, Pending, AllPacksOrNone, DoneIsComplete
  <1> QED
    BY <1>1, <1>2, <1>3, <1>4, <1>5, <1>6, CallStep, StageStep, RecordStep, DoneStep
       DEF Next

(* A command refused on any of its packs has appended nothing.             *)
THEOREM AlwaysAllPacksOrNone == Spec => []AllPacksOrNone
  <1>1. IngestInv => AllPacksOrNone
    BY DEF IngestInv
  <1> QED
    BY InitIngest, NextIngest, <1>1, PTL DEF Spec

(* A command that reports success has everything it was given in the chain *)
(* and counts what the chain grew by.                                      *)
THEOREM DoneAlwaysComplete == Spec => []DoneIsComplete
  <1>1. IngestInv => DoneIsComplete
    BY DEF IngestInv
  <1> QED
    BY InitIngest, NextIngest, <1>1, PTL DEF Spec

-----------------------------------------------------------------------------
(* Links: an artifact is staged after what it links to.                    *)

\* A link is to a record in s, or to the repetition of one.
Reached(id, s) == id \in Ids(s) \/ KeyOf(id) \cap Keys(s) # {}

\* The RecordIDs of the first n of s.
FirstIds(s, n) == {s[m].id : m \in 1..n}

(* What the command takes for known is in the chain or waits to be         *)
(* appended, and before every artifact that waits, what it links to.       *)
LinkInv ==
    /\ LinkedBefore
    /\ pc = "staging" =>
         \A id \in correlation : Reached(id, log) \/ id \in Ids(staged)
    /\ \A n \in DOMAIN staged : staged[n].type = "artifact" =>
         \A id \in staged[n].links : Reached(id, log) \/ id \in FirstIds(staged, n - 1)

LEMMA IdsOfAppend ==
    ASSUME NEW S, NEW s \in Seq(S), NEW r
    PROVE  Ids(Append(s, r)) = Ids(s) \cup {r.id}
  <1>1. /\ DOMAIN Append(s, r) = 1..(Len(s) + 1) /\ DOMAIN s = 1..Len(s)
        /\ Len(s) \in Nat
        /\ \A i \in 1..Len(s) : Append(s, r)[i] = s[i]
        /\ Append(s, r)[Len(s) + 1] = r
    OBVIOUS
  <1>2. 1..(Len(s) + 1) = 1..Len(s) \cup {Len(s) + 1}
    BY <1>1
  <1>3. ToSet(Append(s, r)) = ToSet(s) \cup {r}
    BY <1>1, <1>2 DEF ToSet
  <1> QED
    BY <1>3 DEF Ids

LEMMA PrefixIds ==
    ASSUME NEW S, NEW s \in Seq(S), NEW n \in 1..Len(s)
    PROVE  Ids(SubSeq(s, 1, n - 1)) = FirstIds(s, n - 1)
  <1>1. /\ DOMAIN SubSeq(s, 1, n - 1) = 1..(n - 1)
        /\ \A m \in 1..(n - 1) : SubSeq(s, 1, n - 1)[m] = s[m]
    OBVIOUS
  <1> QED
    BY <1>1 DEF Ids, FirstIds, ToSet

LEMMA AllIds ==
    ASSUME NEW S, NEW s \in Seq(S)
    PROVE  Ids(s) = FirstIds(s, Len(s))
  <1>1. DOMAIN s = 1..Len(s)
    OBVIOUS
  <1> QED
    BY <1>1 DEF Ids, FirstIds, ToSet

(* What is reached in the chain is reached when it has grown.              *)
LEMMA ReachedStays ==
    ASSUME NEW S, NEW s \in Seq(S), NEW r, NEW id, Reached(id, s)
    PROVE  Reached(id, Append(s, r))
  BY IdsOfAppend, KeysOfAppend DEF Reached

\* LinkedBefore, of any log.
LinkedIn(s) ==
    \A n \in DOMAIN s : s[n].type = "artifact" =>
        \A id \in s[n].links : Reached(id, SubSeq(s, 1, n - 1))

LEMMA LinkedInLog == LinkedBefore <=> LinkedIn(log)
  BY DEF LinkedBefore, LinkedIn, Reached

(* A record may be appended when all that it links to is reached.          *)
LEMMA LinkedAppend ==
    ASSUME NEW S, NEW s \in Seq(S), NEW r, LinkedIn(s),
           r.type = "artifact" => \A id \in r.links : Reached(id, s)
    PROVE  LinkedIn(Append(s, r))
  <1> DEFINE t == Append(s, r)
  <1>1. /\ DOMAIN t = 1..(Len(s) + 1) /\ DOMAIN s = 1..Len(s) /\ Len(s) \in Nat
        /\ \A i \in 1..Len(s) : t[i] = s[i]
        /\ t[Len(s) + 1] = r
    OBVIOUS
  <1>2. ASSUME NEW n \in 1..(Len(s) + 1)
        PROVE  SubSeq(t, 1, n - 1) = SubSeq(s, 1, n - 1)
    OBVIOUS
  <1>3. SubSeq(s, 1, (Len(s) + 1) - 1) = s
    OBVIOUS
  <1> HIDE DEF t
  <1>4. ASSUME NEW n \in DOMAIN t, t[n].type = "artifact", NEW id \in t[n].links
        PROVE  Reached(id, SubSeq(t, 1, n - 1))
    <2>1. CASE n = Len(s) + 1
      <3>1. Reached(id, s)
        BY <1>1, <1>4, <2>1
      <3> QED
        BY <1>1, <1>2, <1>3, <2>1, <3>1
    <2>2. CASE n # Len(s) + 1
      <3>1. n \in 1..Len(s) /\ n \in 1..(Len(s) + 1)
        BY <1>1, <1>4, <2>2
      <3>2. Reached(id, SubSeq(s, 1, n - 1))
        BY <1>1, <1>4, <3>1 DEF LinkedIn
      <3> QED
        BY <1>2, <3>1, <3>2
    <2> QED
      BY <2>1, <2>2
  <1> QED
    BY <1>4 DEF LinkedIn, t

\* The links of what waits, whatever the chain and the records are.
Awaiting(s, l) ==
    \A n \in DOMAIN s : s[n].type = "artifact" =>
        \A id \in s[n].links : Reached(id, l) \/ id \in FirstIds(s, n - 1)

LEMMA NoneAwait == \A l : Awaiting(<<>>, l)
  BY DEF Awaiting

(* The first record goes: the others may link to it if it is reached now.  *)
LEMMA AwaitingTail ==
    ASSUME NEW S, NEW s \in Seq(S), s # <<>>, NEW l, NEW k, Awaiting(s, l),
           \A id : Reached(id, l) => Reached(id, k), Reached(Head(s).id, k)
    PROVE  Awaiting(Tail(s), k)
  <1>1. /\ DOMAIN s = 1..Len(s) /\ DOMAIN Tail(s) = 1..(Len(s) - 1)
        /\ Len(s) \in Nat \ {0} /\ Head(s) = s[1]
        /\ \A i \in 1..(Len(s) - 1) : Tail(s)[i] = s[i + 1]
    OBVIOUS
  <1> DEFINE t == Tail(s)
  <1> SUFFICES ASSUME NEW n \in DOMAIN t, t[n].type = "artifact", NEW id \in t[n].links
               PROVE  Reached(id, k) \/ id \in FirstIds(t, n - 1)
    BY DEF Awaiting
  <1> HIDE DEF t
  <1>2. n \in 1..(Len(s) - 1) /\ n + 1 \in DOMAIN s /\ t[n] = s[n + 1] /\ (n + 1) - 1 = n
    BY <1>1 DEF t
  <1>3. Reached(id, l) \/ id \in FirstIds(s, n)
    BY <1>2 DEF Awaiting
  <1>4. CASE id \in FirstIds(s, n)
    <2>1. PICK m \in 1..n : id = s[m].id
      BY <1>4 DEF FirstIds
    <2>2. CASE m = 1
      BY <1>1, <2>1, <2>2
    <2>3. CASE m # 1
      <3>1. m - 1 \in 1..(n - 1) /\ m - 1 \in 1..(Len(s) - 1) /\ (m - 1) + 1 = m
        BY <1>1, <1>2, <2>3
      <3>2. t[m - 1] = s[m]
        BY <1>1, <3>1 DEF t
      <3> QED
        BY <2>1, <3>1, <3>2 DEF FirstIds
    <2> QED
      BY <2>2, <2>3
  <1> QED
    BY <1>3, <1>4

\* The first m of s occur in t, from place k + 1 to n at most.
Occur(s, m, t, k, n) ==
    /\ m \in Nat /\ k \in Nat /\ n \in Int /\ k + m <= n
    /\ \A i \in 1..m : t[i + k] = s[i]

LEMMA IdsWithin ==
    ASSUME NEW s, NEW m, NEW t, NEW k, NEW n, Occur(s, m, t, k, n)
    PROVE  FirstIds(s, m) \subseteq FirstIds(t, n)
  <1>1. ASSUME NEW i \in 1..m
        PROVE  s[i].id \in FirstIds(t, n)
    <2>1. i + k \in 1..n /\ t[i + k] = s[i]
      BY DEF Occur
    <2> QED
      BY <2>1 DEF FirstIds
  <1> QED
    BY <1>1 DEF FirstIds

(* A pack is put behind what waits: its records, then its artifacts, each  *)
(* of whose links is known, one of the pack's records or an artifact       *)
(* before it.                                                              *)
LEMMA AwaitingPack ==
    ASSUME NEW S, NEW s \in Seq(S), NEW a \in Seq(S), NEW b \in Seq(S), NEW l, NEW known,
           Awaiting(s, l),
           \A id \in known : Reached(id, l) \/ id \in Ids(s),
           \A n \in DOMAIN a : a[n].type # "artifact",
           LinksResolve(b, known \cup Ids(a))
    PROVE  Awaiting(s \o (a \o b), l)
  <1> DEFINE t == s \o (a \o b)
             i0 == Len(s)
             j0 == Len(s) + Len(a)
  <1>1. /\ i0 \in Nat /\ j0 \in Nat /\ Len(a) \in Nat /\ Len(b) \in Nat /\ i0 <= j0
        /\ DOMAIN s = 1..i0 /\ DOMAIN a = 1..Len(a) /\ DOMAIN b = 1..Len(b)
        /\ DOMAIN t = 1..(j0 + Len(b))
    OBVIOUS
  <1>2. /\ \A i \in 1..i0 : t[i] = s[i]
        /\ \A i \in 1..Len(a) : t[i + i0] = a[i]
        /\ \A i \in 1..Len(b) : t[i + j0] = b[i]
    <2>1. /\ a \o b \in Seq(S) /\ Len(a \o b) = Len(a) + Len(b)
          /\ \A i \in 1..Len(a) : (a \o b)[i] = a[i]
          /\ \A i \in 1..Len(b) : (a \o b)[i + Len(a)] = b[i]
      OBVIOUS
    <2>2. /\ \A i \in 1..i0 : t[i] = s[i]
          /\ \A i \in 1..(Len(a) + Len(b)) : t[i + i0] = (a \o b)[i]
      BY <2>1
    <2> HIDE DEF t
    <2>3. ASSUME NEW i \in 1..Len(a)
          PROVE  t[i + i0] = a[i]
      <3>1. i \in 1..(Len(a) + Len(b))
        BY <1>1
      <3> QED
        BY <2>1, <2>2, <3>1
    <2>4. ASSUME NEW i \in 1..Len(b)
          PROVE  t[i + j0] = b[i]
      <3>1. i + Len(a) \in 1..(Len(a) + Len(b)) /\ (i + Len(a)) + i0 = i + j0
        BY <1>1
      <3> QED
        BY <2>1, <2>2, <3>1
    <2> QED
      BY <2>2, <2>3, <2>4
  <1> HIDE DEF t
  <1>3. ASSUME NEW n \in DOMAIN t, t[n].type = "artifact", NEW id \in t[n].links
        PROVE  Reached(id, l) \/ id \in FirstIds(t, n - 1)
    <2>1. CASE n \in 1..i0
      <3>1. Reached(id, l) \/ id \in FirstIds(s, n - 1)
        <4>1. n \in DOMAIN s /\ t[n] = s[n]
          BY <1>1, <1>2, <2>1
        <4> QED
          BY <1>3, <4>1 DEF Awaiting
      <3>2. n - 1 \in Nat /\ 0 + (n - 1) <= n - 1 /\ \A m \in 1..(n - 1) : m \in 1..i0
        BY <1>1, <2>1
      <3>3. \A m \in 1..(n - 1) : t[m + 0] = s[m]
        BY <1>2, <3>2
      <3>4. Occur(s, n - 1, t, 0, n - 1)
        BY <3>2, <3>3 DEF Occur
      <3>5. FirstIds(s, n - 1) \subseteq FirstIds(t, n - 1)
        BY <3>4, IdsWithin
      <3> QED
        BY <3>1, <3>5
    <2>2. CASE n \in (i0 + 1)..j0
      <3>1. n - i0 \in 1..Len(a) /\ n - i0 \in DOMAIN a /\ (n - i0) + i0 = n
        BY <1>1, <2>2
      <3>2. t[n] = a[n - i0]
        BY <1>2, <3>1
      <3> QED
        BY <1>3, <3>1, <3>2
    <2>3. CASE n \in (j0 + 1)..(j0 + Len(b))
      <3> DEFINE i == n - j0
      <3>1. i \in 1..Len(b) /\ i + j0 = n /\ i \in DOMAIN b
        BY <1>1, <2>3
      <3> HIDE DEF i
      <3>2. t[n] = b[i]
        BY <1>2, <3>1
      <3>3. id \in known \/ id \in Ids(a) \/ id \in Ids(SubSeq(b, 1, i - 1))
        BY <1>3, <3>1, <3>2 DEF LinksResolve
      <3>4. Ids(s) \subseteq FirstIds(t, n - 1)
        <4>1. i0 \in Nat /\ n - 1 \in Int /\ 0 + i0 <= n - 1
          BY <1>1, <2>3
        <4>2. Ids(s) = FirstIds(s, i0)
          BY AllIds
        <4>3. \A m \in 1..i0 : t[m + 0] = s[m]
          BY <1>2
        <4>4. Occur(s, i0, t, 0, n - 1)
          BY <4>1, <4>3 DEF Occur
        <4> QED
          BY <4>2, <4>4, IdsWithin
      <3>5. Ids(a) \subseteq FirstIds(t, n - 1)
        <4>1. i0 \in Nat /\ n - 1 \in Int /\ i0 + Len(a) <= n - 1
          BY <1>1, <2>3
        <4>2. Ids(a) = FirstIds(a, Len(a))
          BY AllIds
        <4>3. Occur(a, Len(a), t, i0, n - 1)
          BY <1>1, <1>2, <4>1 DEF Occur
        <4> QED
          BY <4>2, <4>3, IdsWithin
      <3>6. Ids(SubSeq(b, 1, i - 1)) \subseteq FirstIds(t, n - 1)
        <4>1. /\ i - 1 \in Nat /\ j0 \in Nat /\ n - 1 \in Int /\ j0 + (i - 1) <= n - 1
              /\ \A m \in 1..(i - 1) : m \in 1..Len(b)
          BY <1>1, <3>1
        <4>2. Ids(SubSeq(b, 1, i - 1)) = FirstIds(b, i - 1)
          BY <3>1, PrefixIds
        <4>3. \A m \in 1..(i - 1) : t[m + j0] = b[m]
          BY <1>2, <4>1
        <4>4. Occur(b, i - 1, t, j0, n - 1)
          BY <4>1, <4>3 DEF Occur
        <4> QED
          BY <4>2, <4>4, IdsWithin
      <3> QED
        BY <3>3, <3>4, <3>5, <3>6
    <2> QED
      BY <1>1, <1>3, <2>1, <2>2, <2>3
  <1> QED
    BY <1>3 DEF Awaiting, t

LEMMA IdsOfConcat ==
    ASSUME NEW S, NEW s \in Seq(S), NEW t \in Seq(S)
    PROVE  Ids(s \o t) = Ids(s) \cup Ids(t)
  <1>1. /\ DOMAIN s = 1..Len(s) /\ DOMAIN t = 1..Len(t)
        /\ DOMAIN (s \o t) = 1..(Len(s) + Len(t))
        /\ Len(s) \in Nat /\ Len(t) \in Nat
        /\ \A i \in 1..Len(s) : (s \o t)[i] = s[i]
        /\ \A i \in 1..Len(t) : (s \o t)[i + Len(s)] = t[i]
    OBVIOUS
  <1>2. ASSUME NEW i \in DOMAIN (s \o t)
        PROVE  (s \o t)[i] \in ToSet(s) \cup ToSet(t)
    <2>1. CASE i <= Len(s)
      BY <1>1, <2>1 DEF ToSet
    <2>2. CASE ~ (i <= Len(s))
      <3>1. i - Len(s) \in DOMAIN t /\ (i - Len(s)) + Len(s) = i
        BY <1>1, <2>2
      <3> QED
        BY <1>1, <3>1 DEF ToSet
    <2> QED
      BY <2>1, <2>2
  <1>3. ASSUME NEW i \in DOMAIN t
        PROVE  t[i] \in ToSet(s \o t)
    <2>1. i + Len(s) \in DOMAIN (s \o t) /\ (s \o t)[i + Len(s)] = t[i]
      BY <1>1
    <2> QED
      BY <2>1 DEF ToSet
  <1>4. ASSUME NEW i \in DOMAIN s
        PROVE  s[i] \in ToSet(s \o t)
    BY <1>1 DEF ToSet
  <1>5. ToSet(s \o t) = ToSet(s) \cup ToSet(t)
    BY <1>2, <1>3, <1>4 DEF ToSet
  <1> QED
    BY <1>5 DEF Ids

LEMMA LinkParts ==
    LinkInv <=> /\ LinkedIn(log)
                /\ pc = "staging" =>
                     \A id \in correlation : Reached(id, log) \/ id \in Ids(staged)
                /\ Awaiting(staged, log)
  BY LinkedInLog DEF LinkInv, Awaiting

LEMMA LinkPartsNext ==
    LinkInv' <=> /\ LinkedIn(log')
                 /\ pc' = "staging" =>
                      \A id \in correlation' : Reached(id, log') \/ id \in Ids(staged')
                 /\ Awaiting(staged', log')
  <1>1. (LinkInv <=> /\ LinkedIn(log)
                     /\ pc = "staging" =>
                          \A id \in correlation : Reached(id, log) \/ id \in Ids(staged)
                     /\ Awaiting(staged, log))'
    BY LinkParts, PTL
  <1> QED
    BY <1>1

(* The end of a command, however it ends: nothing waits any more.          *)
LEMMA LinkEnd ==
    ASSUME LinkInv, NEW how, End(how), LinkedIn(log')
    PROVE  LinkInv'
  <1>1. pc' = "idle" /\ staged' = <<>>
    BY DEF End
  <1>2. Awaiting(staged', log')
    BY <1>1, NoneAwait
  <1> QED
    BY <1>1, <1>2, LinkPartsNext

(* What the first of the waiting records may be appended as.               *)
LEMMA HeadLinked ==
    ASSUME Shape, LinkInv, staged # <<>>
    PROVE  LinkedIn(Append(log, Translated(Head(staged))))
  <1> DEFINE r == Translated(Head(staged))
  <1>1. /\ Head(staged) = staged[1] /\ 1 \in DOMAIN staged /\ 1 - 1 = 0
        /\ log \in Seq(Kept)
    <2>1. staged \in Seq(Entries) /\ log \in Seq(Kept)
      BY DEF Shape
    <2> QED
      BY <2>1
  <1>2. FirstIds(staged, 0) = {}
    BY DEF FirstIds
  <1>3. r.type = staged[1].type /\ r.links = staged[1].links
    BY <1>1 DEF Translated
  <1>4. LinkedIn(log) /\ Awaiting(staged, log)
    BY LinkParts
  <1>5. r.type = "artifact" => \A id \in r.links : Reached(id, log)
    BY <1>1, <1>2, <1>3, <1>4 DEF Awaiting
  <1> HIDE DEF r
  <1>6. LinkedIn(Append(log, r))
    BY <1>1, <1>4, <1>5, LinkedAppend
  <1> QED
    BY <1>6 DEF r

LEMMA LinkCall ==
    ASSUME LinkInv, NEW req \in Requests, NEW options \in BOOLEAN, Ingest(req, options)
    PROVE  LinkInv'
  <1>1. log' = log /\ LinkedIn(log)
    BY LinkParts DEF Ingest
  <1>2. CASE End("preflight")
    BY <1>1, <1>2, LinkEnd
  <1>3. CASE pc' = "staging" /\ staged' = <<>> /\ correlation' = Ids(log)
    <2>1. LinkedIn(log') /\ Awaiting(staged', log')
      BY <1>1, <1>3, NoneAwait
    <2>2. \A id \in correlation' : Reached(id, log') \/ id \in Ids(staged')
      BY <1>1, <1>3 DEF Reached
    <2> QED
      BY <2>1, <2>2, LinkPartsNext
  <1> QED
    BY <1>2, <1>3 DEF Ingest

LEMMA LinkStage ==
    ASSUME Shape, LinkInv, StagePack
    PROVE  LinkInv'
  <1> DEFINE path == Head(paths)
             pack == Packs[path]
  <1>1. pc = "staging" /\ paths # <<>> /\ log' = log /\ LinkedIn(log)
    BY LinkParts DEF StagePack
  <1>2. CASE Refusal(pack, correlation) # ""
    <2>1. End(Refusal(pack, correlation))
      BY <1>2 DEF StagePack
    <2> QED
      BY <1>1, <2>1, LinkEnd
  <1>3. CASE Refusal(pack, correlation) = ""
    <2>1. /\ staged' = staged \o Stage(pack)
          /\ correlation' = correlation \cup Ids(Stage(pack))
          /\ pc' = pc
      BY <1>3 DEF StagePack
    <2>2. path \in DOMAIN Packs
      BY <1>1, HeadAndTail DEF Shape
    <2> DEFINE a == PackRecords(pack)
               b == Artifacts(pack)
    <2>3. /\ a \in Seq(Typed(RecordTypes)) /\ b \in Seq(Typed({"artifact"}))
          /\ Stage(pack) = a \o b
      BY <2>2, StageParts
    <2>4. LinksResolve(b, correlation \cup Ids(a))
      BY <1>3, Zenon DEF Refusal, PackRecords
    <2> HIDE DEF a, b, pack, path
    <2>5. Typed(RecordTypes) \subseteq Entries /\ Typed({"artifact"}) \subseteq Entries
      BY DEF Typed
    <2>6. a \in Seq(Entries) /\ b \in Seq(Entries) /\ staged \in Seq(Entries)
      BY <2>3, <2>5, SequencesWithin DEF Shape
    <2>7. \A n \in DOMAIN a : a[n].type # "artifact"
      <3>1. \A n \in DOMAIN a : a[n] \in Typed(RecordTypes)
        BY <2>3
      <3> QED
        BY <3>1 DEF Typed, RecordTypes
    <2>8. /\ Awaiting(staged, log)
          /\ \A id \in correlation : Reached(id, log) \/ id \in Ids(staged)
      BY <1>1, LinkParts
    <2>9. Awaiting(staged \o (a \o b), log)
      BY <2>4, <2>6, <2>7, <2>8, AwaitingPack
    <2>10. Awaiting(staged', log') /\ LinkedIn(log')
      BY <1>1, <2>1, <2>3, <2>9
    <2>11. a \o b \in Seq(Entries)
      BY <2>6
    <2>12. Ids(staged') = Ids(staged) \cup Ids(Stage(pack))
      <3> DEFINE ab == a \o b
      <3>1. ab \in Seq(Entries) /\ staged' = staged \o ab /\ Stage(pack) = ab
        BY <2>1, <2>3, <2>11
      <3> HIDE DEF ab
      <3>2. Ids(staged \o ab) = Ids(staged) \cup Ids(ab)
        BY <2>6, <3>1, IdsOfConcat
      <3> QED
        BY <3>1, <3>2
    <2>13. \A id \in correlation' : Reached(id, log') \/ id \in Ids(staged')
      BY <1>1, <2>1, <2>8, <2>12
    <2> QED
      BY <2>10, <2>13, LinkPartsNext
  <1> QED
    BY <1>2, <1>3

LEMMA LinkRecord ==
    ASSUME Shape, LinkInv, AppendRecord \/ DedupeRecord
    PROVE  LinkInv'
  <1>1. /\ pc = "appending" /\ pc' = pc /\ staged # <<>> /\ staged' = Tail(staged)
        /\ LinkedIn(log) /\ Awaiting(staged, log)
    BY LinkParts DEF AppendRecord, DedupeRecord
  <1>2. staged \in Seq(Entries) /\ log \in Seq(Kept) /\ Head(staged) \in Entries
    BY <1>1, HeadAndTail DEF Shape
  <1>3. /\ LinkedIn(log')
        /\ \A id : Reached(id, log) => Reached(id, log')
        /\ Reached(Head(staged).id, log')
    <2>1. CASE AppendRecord
      <3> DEFINE r == Translated(Head(staged))
      <3>1. log' = Append(log, r)
        BY <2>1 DEF AppendRecord
      <3>2. r.id = Head(staged).id
        BY DEF Translated
      <3>3. LinkedIn(Append(log, r))
        BY <1>1, HeadLinked
      <3> HIDE DEF r
      <3>4. \A id : Reached(id, log) => Reached(id, Append(log, r))
        BY <1>2, ReachedStays
      <3>5. Reached(Head(staged).id, Append(log, r))
        BY <1>2, <3>2, IdsOfAppend DEF Reached
      <3> QED
        BY <3>1, <3>3, <3>4, <3>5
    <2>2. CASE DedupeRecord
      <3>1. log' = log /\ Head(staged).key \in Keys(log)
        BY <2>2 DEF DedupeRecord
      <3>2. Head(staged).key \in KeyOf(Head(staged).id)
        BY <1>2 DEF KeyOf, Entries
      <3> QED
        BY <1>1, <3>1, <3>2 DEF Reached
    <2> QED
      BY <2>1, <2>2
  <1>4. Awaiting(Tail(staged), log')
    BY <1>1, <1>2, <1>3, AwaitingTail
  <1>5. LinkedIn(log') /\ Awaiting(staged', log') /\ pc' # "staging"
    BY <1>1, <1>3, <1>4
  <1> QED
    BY <1>5, LinkPartsNext

LEMMA InitLinks == Init => LinkInv
  <1> SUFFICES ASSUME Init PROVE LinkInv
    OBVIOUS
  <1>1. log = <<>> /\ staged = <<>> /\ pc = "idle"
    BY DEF Init
  <1> QED
    BY <1>1, NoneAwait, LinkParts DEF LinkedIn

LEMMA NextLinks == IngestInv /\ LinkInv /\ [Next]_vars => LinkInv'
  <1> SUFFICES ASSUME IngestInv, LinkInv, [Next]_vars PROVE LinkInv'
    OBVIOUS
  <1>1. Shape /\ LinkedIn(log)
    BY LinkParts DEF IngestInv
  <1>2. CASE Cancel
    BY <1>1, <1>2, LinkEnd DEF Cancel
  <1>3. CASE Staged \/ UNCHANGED vars
    <2>1. /\ UNCHANGED <<log, correlation, staged>>
          /\ pc' = "staging" => pc = "staging"
      BY <1>3 DEF Staged, Unstaged, vars
    <2>2. LinkedIn(log') /\ Awaiting(staged', log')
      BY <2>1, LinkParts
    <2>3. pc' = "staging" =>
            \A id \in correlation' : Reached(id, log') \/ id \in Ids(staged')
      BY <2>1, LinkParts
    <2> QED
      BY <2>2, <2>3, LinkPartsNext
  <1>4. CASE RefuseRecord
    BY <1>1, <1>4, LinkEnd DEF RefuseRecord
  <1>5. CASE FailAppend
    <2>1. log' = log \/ log' = Append(log, Translated(Head(staged)))
      BY <1>5 DEF FailAppend
    <2>2. LinkedIn(log')
      BY <1>1, <1>5, <2>1, HeadLinked DEF FailAppend
    <2> QED
      BY <1>5, <2>2, LinkEnd DEF FailAppend
  <1>6. CASE Kill
    BY <1>1, <1>6, LinkEnd DEF Kill
  <1>7. CASE Done
    BY <1>1, <1>7, LinkEnd DEF Done
  <1> QED
    BY <1>1, <1>2, <1>3, <1>4, <1>5, <1>6, <1>7, LinkCall, LinkStage, LinkRecord
       DEF Next

(* What an artifact in the chain links to comes before it, or repeats a    *)
(* record that does, also when the command that appended it failed or was  *)
(* killed half way and another one went on.                                *)
THEOREM AlwaysLinkedBefore == Spec => []LinkedBefore
  <1>1. LinkInv => LinkedBefore
    BY DEF LinkInv
  <1> QED
    BY InitIngest, NextIngest, InitLinks, NextLinks, <1>1, PTL DEF Spec

-----------------------------------------------------------------------------
(* The store under the command: its log, deduped by key.  The command      *)
(* keeps no answer but its counts.  It does not open the store in          *)
(* compliance mode: no failed append leaves its key behind.                *)
RepeatsKey(l, r) == r.key \in Keys(l)

KeyInRecord(r) == r.key

Store == INSTANCE EvidenceLog
            WITH Records <- Kept, Repeats <- RepeatsKey, KeyOf <- KeyInRecord,
                 Leavable <- {}, left <- {}, acks <- {}, skipped <- {}

(* Gait ingest asks of the store what EvidenceLog promises, and no more:   *)
(* through refused packs, failed appends, kills and repeated commands,     *)
(* each step leaves the log alone or puts one record at its end, of an     *)
(* item of a pack, whose key the log does not have.                        *)
THEOREM IngestImplementsLog == Spec => Store!Spec
  <1>1. Init => Store!Init
    BY DEF Init, Store!Init
  <1>2. IngestInv /\ [Next]_vars => [Store!Next]_Store!vars
    <2> SUFFICES ASSUME IngestInv, [Next]_vars PROVE [Store!Next]_Store!vars
      OBVIOUS
    <2>1. CASE \/ AppendRecord
               \/ FailAppend /\ log' # log
      <3> DEFINE r == Translated(Head(staged))
      <3>1. /\ staged # <<>> /\ Head(staged).key \notin Keys(log)
            /\ log' = Append(log, r)
        BY <2>1 DEF AppendRecord, FailAppend
      <3>2. Head(staged) \in Entries
        BY <3>1, HeadAndTail DEF IngestInv, Shape
      <3>3. r \in Kept /\ r.key = Head(staged).key
        BY <3>2 DEF Kept, Translated
      <3>4. ~ RepeatsKey(log, r)
        BY <3>1, <3>3 DEF RepeatsKey
      <3> HIDE DEF r
      <3>5. Store!Append1(r)
        BY <3>1, <3>4 DEF Store!Append1
      <3> QED
        BY <3>3, <3>5 DEF Store!Next
    <2>2. CASE UNCHANGED log
      BY <2>2 DEF Store!vars
    <2>3. AppendRecord \/ FailAppend \/ UNCHANGED log
      BY DEF Next, Ingest, StagePack, Cancel, Staged, Unstaged, DedupeRecord,
             RefuseRecord, Kill, Done, vars
    <2> QED
      BY <2>1, <2>2, <2>3
  <1> QED
    BY <1>1, <1>2, InitIngest, NextIngest, PTL DEF Spec, Store!Spec

-----------------------------------------------------------------------------
(* The lifecycle: the packs that verify, replayed record by record.        *)

Reasons == BlockingGaps \cup {Missing}
States == [status : Statuses, reasons : SUBSET Reasons, illegal : BOOLEAN]

\* What a run may follow.
Resting == {"proposed", "partial", "gap"} \cup Restartable

(* The records of a run come in this order.                                *)
InSequence(d, needed) ==
    /\ d \subseteq RecordKinds
    /\ \A k \in ExecutionKinds : k \in d => "activated" \in d
    /\ "execution_succeeded" \in d \/ "execution_failed" \in d =>
          "execution_started" \in d
    /\ "execution_blocked" \in d => "execution_started" \notin d
    /\ ~ ("execution_succeeded" \in d /\ "execution_failed" \in d)
    /\ "effect_recorded" \in d => "execution_succeeded" \in d
    /\ "effect_validated" \in d => "effect_recorded" \in d
    /\ "containment_requested" \in d => "effect_validated" \in d
    /\ \A k \in ContainmentEnds : k \in d => "containment_requested" \in d
    /\ \A j, k \in ContainmentEnds : j \in d /\ k \in d => j = k
    /\ "compensation_required" \in d =>
          needed /\ \E k \in ExecutionEnds : k \in d
    /\ "compensation_started" \in d => "compensation_required" \in d
    /\ "compensation_completed" \in d => "compensation_started" \in d

Consistent == InSequence(done, needs)

\* The reducer's status after the last record of execution, effect or
\* containment; and after the last one of compensation.
RunStatus(d) ==
    IF "execution_started" \notin d /\ "execution_blocked" \notin d THEN "active"
    ELSE IF "execution_blocked" \in d THEN "blocked"
    ELSE IF "execution_failed" \in d THEN "failed"
    ELSE IF "containment_completed" \in d THEN "contained"
    ELSE IF "containment_partial" \in d THEN "partial"
    ELSE IF "containment_unresolved" \in d THEN "gap"
    ELSE IF "containment_requested" \in d THEN "containing"
    ELSE IF "effect_validated" \in d THEN "succeeded"
    ELSE IF "effect_recorded" \in d THEN "effect_recorded"
    ELSE IF "execution_succeeded" \in d THEN "succeeded"
    ELSE "executing"

RepairStatus(d) ==
    IF "compensation_completed" \in d THEN "compensated"
    ELSE IF "compensation_started" \in d THEN "compensating"
    ELSE "compensation_required"

(* The reducer is where the records have led it: at rest before the        *)
(* activation, then at the last record of one axis or the other.           *)
Followed(s, d) ==
    IF "activated" \notin d THEN s.status \in Resting
    ELSE \/ s.status = RunStatus(d)
         \/ "compensation_required" \in d /\ s.status = RepairStatus(d)

\* It has refused only the activation after a run left in partial or gap.
Stuck(s) == s.status \in {"partial", "gap"}

\* What a complete lifecycle may not have had.
GapsOf(k) == IF k = "execution_blocked" THEN {"GAP_EXECUTION_BLOCKED"}
             ELSE IF k = "containment_partial" THEN {"GAP_CONTAINMENT_PARTIAL"}
             ELSE IF k = "containment_unresolved" THEN {"GAP_CONTAINMENT"}
             ELSE {}

\* The reducer remembers it; and, in a contract of one run, nothing else.
Told(s, d) == \A k \in d : GapsOf(k) \subseteq s.reasons
ToldOnly(s, d) == \A g \in s.reasons : g = Missing \/ \E k \in d : g \in GapsOf(k)

\* What the end of a pack has made sure of.
Concluded(d, needed) ==
    /\ InSequence(d, needed)
    /\ needed => "compensation_completed" \in d
    /\ \/ "execution_blocked" \in d \/ "execution_failed" \in d
       \/ "effect_validated" \in d /\ \E k \in ContainmentEnds : k \in d

Faithful(s, d) ==
    IF s.illegal THEN Stuck(s) ELSE Followed(s, d) /\ Told(s, d)

HistoryInv ==
    /\ settled \in States /\ replay \in States
    /\ runs \in Seq({runs[n] : n \in DOMAIN runs})
    /\ verdict \in {"idle", "reading", "refused", "fixture", "authoritative"}
    /\ Consistent
    /\ verdict \in {"idle", "refused"} => done = {} /\ ~ needs /\ replay = settled
    /\ verdict \in {"fixture", "authoritative"} => Ended
    /\ Faithful(settled, {}) /\ Faithful(replay, done)
    /\ settled.illegal => replay.illegal
    /\ settled.reasons \ {Missing} \subseteq replay.reasons
    /\ \A n \in DOMAIN runs :
          /\ Concluded(runs[n].done, runs[n].needs)
          /\ ~ settled.illegal => Told(settled, runs[n].done)

\* The first run starts from the proposal alone, and is the only one to settle.
FirstRun ==
    /\ runs = <<>> =>
          /\ settled.status = "proposed" /\ settled.reasons = {} /\ ~ settled.illegal
          /\ ~ replay.illegal /\ ToldOnly(replay, done)
          /\ "activated" \notin done => replay.status = "proposed"
    /\ Len(runs) = 1 =>
          /\ ~ settled.illegal /\ ToldOnly(settled, runs[1].done)
          /\ \/ settled.status = RunStatus(runs[1].done)
             \/ /\ "compensation_required" \in runs[1].done
                /\ settled.status = RepairStatus(runs[1].done)

-----------------------------------------------------------------------------
\* The event of every record that has one.
EventOf == [activated |-> "activated",
            execution_started |-> "execution_started",
            execution_blocked |-> "execution_blocked",
            execution_succeeded |-> "execution_succeeded",
            execution_failed |-> "execution_failed",
            effect_recorded |-> "effect_recorded",
            effect_validated |-> "effect_validated",
            containment_requested |-> "containment_requested",
            containment_completed |-> "contained",
            containment_partial |-> "containment_partial",
            containment_unresolved |-> "containment_unresolved",
            compensation_required |-> "compensation_required",
            compensation_started |-> "compensation_started",
            compensation_completed |-> "compensated"]

(* No record is of two families.                                           *)
LEMMA Families ==
    ASSUME NEW k
    PROVE  /\ k \in ExecutionKinds => k \notin Preludes
           /\ k \in EffectKinds => k \notin Preludes \cup ExecutionKinds
           /\ k \in ContainmentKinds => k \notin Preludes \cup ExecutionKinds \cup EffectKinds
           /\ k \in CompensationKinds =>
                 k \notin Preludes \cup ExecutionKinds \cup EffectKinds \cup ContainmentKinds
  BY DEF Preludes, ExecutionKinds, ExecutionEnds, EffectKinds, ContainmentKinds,
     ContainmentEnds, CompensationKinds

LEMMA EventTable ==
    ASSUME NEW k \in RecordKinds
    PROVE  EventKindOf(k) = IF k \in Preludes \ {"activated"} THEN "" ELSE EventOf[k]
  <1>1. k # "activated" => AxisOf(k) = PayloadOf(k)
    BY DEF AxisOf
  <1>2. CASE k \in Preludes \ {"activated"}
    <2>1. AxisOf(k) = "none"
      BY <1>1, <1>2, Families DEF PayloadOf
    <2> QED
      BY <1>2, <2>1 DEF EventKindOf, EvidenceEventKind
  <1>3. CASE k = "activated"
    <2>1. AxisOf(k) = "enforcement"
      BY <1>3 DEF AxisOf
    <2> QED
      BY <1>3, <2>1 DEF EventKindOf, EvidenceEventKind, EventOf
  <1>4. CASE k \in ExecutionKinds
    <2>1. AxisOf(k) = "execution" /\ k \notin Preludes
      BY <1>1, <1>4, Families DEF PayloadOf, Preludes
    <2>2. EventKindOf(k) = EvidenceEventKind("execution", TransitionState(k))
      BY <2>1 DEF EventKindOf
    <2>3. TransitionState(k) = CASE k = "execution_started" -> "started"
                                 [] k = "execution_blocked" -> "blocked"
                                 [] k = "execution_succeeded" -> "succeeded"
                                 [] k = "execution_failed" -> "failed"
      BY <1>4 DEF TransitionState, ExecutionKinds, ExecutionEnds
    <2> QED
      BY <1>4, <2>1, <2>2, <2>3 DEF EvidenceEventKind, EventOf, ExecutionKinds, ExecutionEnds
  <1>5. CASE k \in EffectKinds
    <2>1. AxisOf(k) = "effect" /\ k \notin Preludes
      BY <1>1, <1>5, Families DEF PayloadOf, Preludes
    <2>2. EventKindOf(k) = EvidenceEventKind("effect", TransitionState(k))
      BY <2>1 DEF EventKindOf
    <2>3. TransitionState(k) = IF k = "effect_recorded" THEN "recorded" ELSE "validated"
      BY <1>5 DEF TransitionState, EffectKinds
    <2> QED
      BY <1>5, <2>1, <2>2, <2>3 DEF EvidenceEventKind, EventOf, EffectKinds
  <1>6. CASE k \in ContainmentKinds
    <2>1. AxisOf(k) = "containment" /\ k \notin Preludes
      BY <1>1, <1>6, Families DEF PayloadOf, Preludes
    <2>2. EventKindOf(k) = EvidenceEventKind("containment", TransitionState(k))
      BY <2>1 DEF EventKindOf
    <2>3. TransitionState(k) = CASE k = "containment_requested" -> "requested"
                                 [] k = "containment_completed" -> "completed"
                                 [] k = "containment_partial" -> "partial"
                                 [] k = "containment_unresolved" -> "gap"
      BY <1>6 DEF TransitionState, ContainmentKinds, ContainmentEnds
    <2> QED
      BY <1>6, <2>1, <2>2, <2>3
         DEF EvidenceEventKind, EventOf, ContainmentKinds, ContainmentEnds
  <1>7. CASE k \in CompensationKinds
    <2>1. AxisOf(k) = "compensation" /\ k \notin Preludes
      BY <1>1, <1>7, Families DEF PayloadOf, Preludes
    <2>2. EventKindOf(k) = EvidenceEventKind("compensation", TransitionState(k))
      BY <2>1 DEF EventKindOf
    <2>3. TransitionState(k) = CASE k = "compensation_required" -> "required"
                                 [] k = "compensation_started" -> "started"
                                 [] k = "compensation_completed" -> "completed"
      BY <1>7 DEF TransitionState, CompensationKinds
    <2> QED
      BY <1>7, <2>1, <2>2, <2>3 DEF EvidenceEventKind, EventOf, CompensationKinds
  <1> QED
    BY <1>2, <1>3, <1>4, <1>5, <1>6, <1>7 DEF RecordKinds, Preludes

(* The records a verified run may have read before one of execution,       *)
(* effect or containment leave the reducer in one status, and those of     *)
(* compensation in one more.                                               *)
LEMMA Before ==
    ASSUME Consistent, NEW k \in RecordKinds \ Preludes, InOrder(k)
    PROVE  /\ "activated" \in done
           /\ k \in {"execution_started", "execution_blocked"} =>
                 RunStatus(done) = "active" /\ "compensation_required" \notin done
           /\ k \in {"execution_succeeded", "execution_failed"} =>
                 RunStatus(done) = "executing" /\ "compensation_required" \notin done
           /\ k \in {"effect_recorded", "containment_requested"} =>
                 RunStatus(done) = "succeeded"
           /\ k = "effect_validated" => RunStatus(done) = "effect_recorded"
           /\ k \in ContainmentEnds => RunStatus(done) = "containing"
           /\ k \in CompensationKinds =>
                 RunStatus(done) \in {"blocked", "failed", "contained", "partial", "gap",
                                      "containing", "succeeded", "effect_recorded"}
           /\ k = "compensation_required" => "compensation_required" \notin done
           /\ k = "compensation_started" => RepairStatus(done) = "compensation_required"
           /\ k = "compensation_completed" => RepairStatus(done) = "compensating"
  <1> USE DEF ExecutionEnds
  <1>1. CASE k \in ExecutionKinds
    <2>1. ExecutionInOrder(k)
      BY <1>1, Families DEF InOrder
    <2>2. /\ "activated" \in done
          /\ "execution_blocked" \notin done /\ "execution_succeeded" \notin done
          /\ "execution_failed" \notin done
          /\ k \in {"execution_started", "execution_blocked"}
                <=> "execution_started" \notin done
      BY <2>1 DEF ExecutionInOrder
    <2>3. /\ "effect_recorded" \notin done /\ "effect_validated" \notin done
          /\ "containment_requested" \notin done
          /\ "compensation_required" \notin done
          /\ \A e \in ContainmentEnds : e \notin done
      BY <2>2 DEF Consistent, InSequence
    <2>4. RunStatus(done) = IF "execution_started" \in done THEN "executing" ELSE "active"
      BY <2>2, <2>3 DEF RunStatus, ExecutionKinds, ContainmentEnds
    <2> QED
      BY <1>1, <2>2, <2>3, <2>4
         DEF ExecutionKinds, ContainmentEnds, CompensationKinds
  <1>2. CASE k \in EffectKinds
    <2>1. /\ EffectInOrder(k) /\ k \notin done
      BY <1>2, Families DEF InOrder
    <2>2. /\ "execution_succeeded" \in done /\ "effect_validated" \notin done
          /\ "effect_recorded" \in done <=> k = "effect_validated"
      BY <1>2, <2>1 DEF EffectInOrder, EffectKinds, Consistent, InSequence
    <2>3. /\ "containment_requested" \notin done
          /\ \A e \in ContainmentEnds : e \notin done
          /\ "execution_blocked" \notin done /\ "execution_failed" \notin done
          /\ "activated" \in done /\ "execution_started" \in done
      BY <2>2 DEF Consistent, InSequence, ExecutionKinds
    <2>4. RunStatus(done) = IF k = "effect_validated" THEN "effect_recorded"
                                                      ELSE "succeeded"
      <3>1. /\ "containment_completed" \notin done /\ "containment_partial" \notin done
            /\ "containment_unresolved" \notin done
        BY <2>3 DEF ContainmentEnds
      <3> QED
        BY <1>2, <2>2, <2>3, <3>1 DEF RunStatus, EffectKinds
    <2> QED
      BY <1>2, <2>3, <2>4 DEF EffectKinds, ContainmentEnds, CompensationKinds
  <1>3. CASE k \in ContainmentKinds
    <2>1. /\ ContainmentInOrder(k) /\ k \notin done
      BY <1>3, Families DEF InOrder
    <2>2. /\ "effect_validated" \in done /\ \A e \in ContainmentEnds : e \notin done
          /\ "containment_requested" \in done <=> k # "containment_requested"
      BY <1>3, <2>1 DEF ContainmentInOrder, Consistent, InSequence
    <2>3. /\ "execution_succeeded" \in done /\ "execution_started" \in done
          /\ "activated" \in done
          /\ "execution_blocked" \notin done /\ "execution_failed" \notin done
      BY <2>2 DEF Consistent, InSequence, ExecutionKinds
    <2>4. RunStatus(done) = IF k = "containment_requested" THEN "succeeded"
                                                           ELSE "containing"
      <3>1. /\ "containment_completed" \notin done /\ "containment_partial" \notin done
            /\ "containment_unresolved" \notin done
        BY <2>2 DEF ContainmentEnds
      <3> QED
        BY <1>3, <2>2, <2>3, <3>1 DEF RunStatus
    <2> QED
      BY <1>3, <2>3, <2>4 DEF ContainmentKinds, ContainmentEnds, CompensationKinds
  <1>4. CASE k \in CompensationKinds
    <2>1. /\ CompensationInOrder(k) /\ k \notin done
      BY <1>4, Families DEF InOrder
    <2>2. \E e \in ExecutionEnds : e \in done
      BY <1>4, <2>1 DEF CompensationInOrder, CompensationKinds, Consistent, InSequence
    <2>3. "activated" \in done
      BY <2>2 DEF Consistent, InSequence, ExecutionKinds
    <2>4. RunStatus(done) \in {"blocked", "failed", "contained", "partial", "gap",
                               "containing", "succeeded", "effect_recorded"}
      <3>1. \/ "execution_blocked" \in done \/ "execution_failed" \in done
            \/ "execution_succeeded" \in done
        BY <2>2
      <3>2. "execution_started" \in done \/ "execution_blocked" \in done
        BY <3>1 DEF Consistent, InSequence
      <3> QED
        BY <3>1, <3>2 DEF RunStatus
    <2>5. /\ k = "compensation_started" => RepairStatus(done) = "compensation_required"
          /\ k = "compensation_completed" => RepairStatus(done) = "compensating"
      BY <2>1 DEF RepairStatus, CompensationInOrder, Consistent, InSequence
    <2> QED
      BY <1>4, <2>1, <2>3, <2>4, <2>5 DEF CompensationKinds, ContainmentEnds
  <1> QED
    BY <1>1, <1>2, <1>3, <1>4 DEF RecordKinds

\* What its kind's event leaves of the reducer's status and reasons.
LEMMA Advance ==
    ASSUME Consistent, NEW k \in RecordKinds \ Preludes, InOrder(k), NEW s \in States,
           ~ s.illegal, Followed(s, done)
    PROVE  EventOf[k] \in Allowed(s.status)
  <1>1. \/ s.status = RunStatus(done)
        \/ "compensation_required" \in done /\ s.status = RepairStatus(done)
    BY Before DEF Followed
  <1>2. RepairStatus(done) \in {"compensation_required", "compensating", "compensated"}
    BY DEF RepairStatus
  <1>3. CASE k \in ExecutionKinds
    BY <1>1, <1>3, Before DEF EventOf, Allowed, Executions, ExecutionKinds, ExecutionEnds
  <1>4. CASE k \in EffectKinds
    BY <1>1, <1>2, <1>4, Before DEF EventOf, Allowed, Effects, EffectKinds
  <1>5. CASE k \in ContainmentKinds
    BY <1>1, <1>2, <1>5, Before
       DEF EventOf, Allowed, Containments, ContainmentKinds, ContainmentEnds
  <1>6. CASE k \in CompensationKinds
    BY <1>1, <1>2, <1>6, Before DEF EventOf, Allowed, Compensations, CompensationKinds
  <1> QED
    BY <1>3, <1>4, <1>5, <1>6 DEF RecordKinds

(* Where a record leaves the reducer: at the end of its axis.              *)
LEMMA Arrive ==
    ASSUME Consistent, NEW k \in RecordKinds \ Preludes, InOrder(k), NEW st, NEW e,
           e.kind = EventOf[k], e.state = TransitionState(k)
    PROVE  StatusAfter(st, e) = IF k \in CompensationKinds THEN RepairStatus(done \cup {k})
                                                           ELSE RunStatus(done \cup {k})
  <1> DEFINE d == done \cup {k}
  <1>1. CASE k \in ExecutionKinds
    <2>1. ExecutionInOrder(k) /\ k \notin CompensationKinds
      BY <1>1, Families DEF InOrder
    <2>2. /\ "execution_blocked" \notin done /\ "execution_succeeded" \notin done
          /\ "execution_failed" \notin done
          /\ k \in {"execution_started", "execution_blocked"}
                <=> "execution_started" \notin done
      BY <2>1 DEF ExecutionInOrder, ExecutionEnds
    <2>3. /\ "effect_recorded" \notin d /\ "effect_validated" \notin d
          /\ "containment_requested" \notin d /\ "containment_completed" \notin d
          /\ "containment_partial" \notin d /\ "containment_unresolved" \notin d
      BY <1>1, <2>2 DEF Consistent, InSequence, ContainmentEnds, ExecutionKinds, ExecutionEnds
    <2>4. RunStatus(d) = CASE k = "execution_started" -> "executing"
                           [] k = "execution_blocked" -> "blocked"
                           [] k = "execution_succeeded" -> "succeeded"
                           [] k = "execution_failed" -> "failed"
      BY <1>1, <2>2, <2>3 DEF RunStatus, ExecutionKinds, ExecutionEnds
    <2>5. StatusAfter(st, e) = CASE k = "execution_started" -> "executing"
                                 [] k = "execution_blocked" -> "blocked"
                                 [] k = "execution_succeeded" -> "succeeded"
                                 [] k = "execution_failed" -> "failed"
      BY <1>1 DEF StatusAfter, EventOf, ExecutionKinds, ExecutionEnds, Stops
    <2> QED
      BY <2>1, <2>4, <2>5
  <1>2. CASE k \in EffectKinds
    <2>1. EffectInOrder(k) /\ k \notin done /\ k \notin CompensationKinds
      BY <1>2, Families DEF InOrder
    <2>2. /\ "execution_succeeded" \in d /\ "execution_started" \in d
          /\ "execution_blocked" \notin d /\ "execution_failed" \notin d
          /\ "effect_recorded" \in d /\ "effect_validated" \notin done
          /\ "containment_requested" \notin d /\ "containment_completed" \notin d
          /\ "containment_partial" \notin d /\ "containment_unresolved" \notin d
      BY <1>2, <2>1 DEF EffectInOrder, EffectKinds, Consistent, InSequence, ContainmentEnds
    <2>3. RunStatus(d) = IF k = "effect_recorded" THEN "effect_recorded" ELSE "succeeded"
      BY <1>2, <2>2 DEF RunStatus, EffectKinds
    <2>4. StatusAfter(st, e) = IF k = "effect_recorded" THEN "effect_recorded"
                                                        ELSE "succeeded"
      BY <1>2 DEF StatusAfter, EventOf, EffectKinds, Stops
    <2> QED
      BY <2>1, <2>3, <2>4
  <1>3. CASE k \in ContainmentKinds
    <2>1. ContainmentInOrder(k) /\ k \notin done /\ k \notin CompensationKinds
      BY <1>3, Families DEF InOrder
    <2>2. /\ "containment_completed" \notin done /\ "containment_partial" \notin done
          /\ "containment_unresolved" \notin done /\ "effect_validated" \in done
      BY <1>3, <2>1 DEF ContainmentInOrder, ContainmentEnds, Consistent, InSequence
    <2>3. /\ "execution_started" \in d
          /\ "execution_blocked" \notin d /\ "execution_failed" \notin d
          /\ "containment_requested" \in d
      BY <1>3, <2>1, <2>2
         DEF ContainmentInOrder, Consistent, InSequence, ContainmentKinds, ContainmentEnds
    <2>4. RunStatus(d) = CASE k = "containment_requested" -> "containing"
                           [] k = "containment_completed" -> "contained"
                           [] k = "containment_partial" -> "partial"
                           [] k = "containment_unresolved" -> "gap"
      BY <1>3, <2>2, <2>3 DEF RunStatus, ContainmentKinds, ContainmentEnds
    <2>5. StatusAfter(st, e) = CASE k = "containment_requested" -> "containing"
                                 [] k = "containment_completed" -> "contained"
                                 [] k = "containment_partial" -> "partial"
                                 [] k = "containment_unresolved" -> "gap"
      BY <1>3 DEF StatusAfter, EventOf, ContainmentKinds, ContainmentEnds, Stops,
         Unresolved, TransitionState
    <2> QED
      BY <2>1, <2>4, <2>5
  <1>4. CASE k \in CompensationKinds
    <2>1. CompensationInOrder(k) /\ k \notin done
      BY <1>4, Families DEF InOrder
    <2>2. RepairStatus(d) = CASE k = "compensation_required" -> "compensation_required"
                              [] k = "compensation_started" -> "compensating"
                              [] k = "compensation_completed" -> "compensated"
      BY <1>4, <2>1 DEF RepairStatus, CompensationInOrder, Consistent, InSequence, CompensationKinds
    <2>3. StatusAfter(st, e) = CASE k = "compensation_required" -> "compensation_required"
                                 [] k = "compensation_started" -> "compensating"
                                 [] k = "compensation_completed" -> "compensated"
      BY <1>4 DEF StatusAfter, EventOf, CompensationKinds, Stops
    <2> QED
      BY <1>4, <2>2, <2>3
  <1> QED
    BY <1>1, <1>2, <1>3, <1>4 DEF RecordKinds

\* What it remembers of it.
LEMMA Remember ==
    ASSUME NEW k \in RecordKinds \ Preludes, NEW reasons, NEW e,
           e.kind = EventOf[k], e.state = TransitionState(k)
    PROVE  /\ (reasons \ {Missing}) \cup GapsOf(k) \subseteq ReasonsAfter(reasons, e)
           /\ ReasonsAfter(reasons, e) \subseteq reasons \cup GapsOf(k) \cup {Missing}
  <1> USE DEF GapsOf
  <1> USE DEF ReasonsAfter, EventOf
  <1>1. CASE k = "execution_blocked"
    BY <1>1
  <1>2. CASE k = "containment_partial"
    BY <1>2
  <1>3. CASE k = "containment_unresolved"
    BY <1>3
  <1>4. CASE k = "compensation_required"
    BY <1>4
  <1>5. CASE k = "compensation_completed"
    BY <1>5
  <1>6. CASE k \notin {"execution_blocked", "containment_partial", "containment_unresolved",
                      "compensation_required", "compensation_completed"}
    <2>1. e.kind \notin {"execution_blocked", "effect_unresolved", "containment_partial",
                        "containment_unresolved", "compensation_required",
                        "compensation_failed", "compensation_unresolved", "compensated"}
      BY <1>6, Families
         DEF RecordKinds, ExecutionKinds, ExecutionEnds, EffectKinds,
             ContainmentKinds, ContainmentEnds, CompensationKinds
    <2>2. e.kind = "contained" => ~ Unresolved(e)
      <3>1. e.kind = "contained" => k = "containment_completed"
        BY DEF RecordKinds, ExecutionKinds, ExecutionEnds, EffectKinds,
             ContainmentKinds, ContainmentEnds, CompensationKinds
      <3> QED
        BY <3>1 DEF Unresolved, TransitionState
    <2>3. ReasonsAfter(reasons, e) = reasons
      BY <2>1, <2>2
    <2> QED
      BY <1>6, <2>3
  <1> QED
    BY <1>1, <1>2, <1>3, <1>4, <1>5, <1>6

-----------------------------------------------------------------------------
(* A record the verifier accepts keeps the records of the run in order.    *)
LEMMA StayConsistent ==
    ASSUME Consistent, NEW k \in RecordKinds, InOrder(k), done' = done \cup {k},
           needs => needs'
    PROVE  Consistent'
  <1>1. CASE k \in Preludes
    BY <1>1 DEF Consistent, InSequence, Preludes, ExecutionKinds, ExecutionEnds, ContainmentEnds
  <1>2. CASE k \in ExecutionKinds
    <2>1. ExecutionInOrder(k)
      BY <1>2, Families DEF InOrder
    <2> QED
      BY <1>2, <2>1
         DEF ExecutionInOrder, Consistent, InSequence, ExecutionKinds, ExecutionEnds, ContainmentEnds
  <1>3. CASE k \in EffectKinds
    <2>1. EffectInOrder(k)
      BY <1>3, Families DEF InOrder
    <2> QED
      BY <1>3, <2>1
         DEF EffectInOrder, Consistent, InSequence, EffectKinds, ExecutionKinds, ExecutionEnds,
             ContainmentEnds
  <1>4. CASE k \in ContainmentKinds
    <2>1. ContainmentInOrder(k)
      BY <1>4, Families DEF InOrder
    <2> QED
      BY <1>4, <2>1
         DEF ContainmentInOrder, Consistent, InSequence, ContainmentKinds, ContainmentEnds,
             ExecutionKinds, ExecutionEnds
  <1>5. CASE k \in CompensationKinds
    <2>1. CompensationInOrder(k)
      BY <1>5, Families DEF InOrder
    <2> QED
      BY <1>5, <2>1
         DEF CompensationInOrder, Consistent, InSequence, CompensationKinds, ContainmentEnds,
             ExecutionKinds, ExecutionEnds
  <1> QED
    BY <1>1, <1>2, <1>3, <1>4, <1>5 DEF RecordKinds

LEMMA MissingIsNoGap ==
    ASSUME NEW k
    PROVE  Missing \notin GapsOf(k)
  BY DEF Missing, GapsOf

(* Fed the event of a record the verifier accepts, the reducer is where    *)
(* the records lead it, and remembers what they said.                      *)
LEMMA Follow ==
    ASSUME Consistent, NEW k \in RecordKinds, InOrder(k),
           NEW s \in States, Faithful(s, done), NEW t, t = Fed(s, k)
    PROVE  /\ t \in States
           /\ Faithful(t, done \cup {k})
           /\ s.illegal => t.illegal
           /\ s.reasons \ {Missing} \subseteq t.reasons
           /\ ~ s.illegal /\ (k = "activated" => ~ Stuck(s)) => ~ t.illegal
           /\ "activated" \notin done \cup {k} => t.status = s.status
           /\ ToldOnly(s, done) => ToldOnly(t, done \cup {k})
  <1> DEFINE d == done \cup {k}
  <1> PICK e : e = [kind |-> EventKindOf(k), state |-> TransitionState(k)]
    OBVIOUS
  <1>a. /\ e.kind = EventKindOf(k) /\ e.state = TransitionState(k)
        /\ t = IF e.kind = "" THEN s ELSE ReducerStep(s, e)
    BY DEF Fed
  <1>0. IF k \in Preludes \ {"activated"} THEN e.kind = ""
                                          ELSE e.kind = EventOf[k] /\ e.kind # ""
    <2>1. k \in Preludes \ {"activated"} \/ EventOf[k] \in EventKinds
      <3> USE DEF EventOf, EventKinds
      <3>1. CASE k \in Preludes
        BY <3>1
      <3>2. CASE k \in ExecutionKinds
        BY <3>2 DEF ExecutionKinds, ExecutionEnds, Executions
      <3>3. CASE k \in EffectKinds
        BY <3>3 DEF EffectKinds, Effects
      <3>4. CASE k \in ContainmentKinds
        BY <3>4 DEF ContainmentKinds, ContainmentEnds, Containments
      <3>5. CASE k \in CompensationKinds
        BY <3>5 DEF CompensationKinds, Compensations
      <3> QED
        BY <3>1, <3>2, <3>3, <3>4, <3>5 DEF RecordKinds
    <2>2. "" \notin EventKinds
      BY DEF EventKinds, Executions, Effects, Containments, Compensations, Stops
    <2> QED
      BY <1>a, <2>1, <2>2, EventTable
  <1>1. CASE k \in Preludes \ {"activated"}
    <2>1. t = s
      BY <1>a, <1>0, <1>1
    <2>2. /\ RunStatus(d) = RunStatus(done) /\ RepairStatus(d) = RepairStatus(done)
          /\ "activated" \in d <=> "activated" \in done
          /\ "compensation_required" \in d <=> "compensation_required" \in done
          /\ GapsOf(k) = {}
      BY <1>1 DEF RunStatus, RepairStatus, Preludes, GapsOf
    <2>3. Followed(s, done) => Followed(s, d)
      BY <2>2 DEF Followed
    <2>4. (Told(s, done) => Told(s, d)) /\ (ToldOnly(s, done) => ToldOnly(s, d))
      BY <2>2 DEF Told, ToldOnly
    <2> QED
      BY <1>1, <2>1, <2>3, <2>4 DEF Faithful
  <1>2. CASE k \notin Preludes \ {"activated"} /\ s.illegal
    <2>1. t = [s EXCEPT !.illegal = TRUE]
      BY <1>a, <1>0, <1>2 DEF ReducerStep
    <2>2. t = s
      BY <1>2, <2>1 DEF States
    <2>3. k = "activated" \/ k \notin Preludes
      BY <1>2
    <2>4. "activated" \in d
      BY <2>3, Before
    <2>5. ToldOnly(s, done) => ToldOnly(s, d)
      BY DEF ToldOnly
    <2> QED
      BY <1>2, <2>2, <2>4, <2>5 DEF Faithful
  <1>3. CASE k = "activated" /\ ~ s.illegal
    <2>1. /\ e.kind = "activated" /\ t = ReducerStep(s, e) /\ k \notin done
      BY <1>a, <1>0, <1>3 DEF EventOf, InOrder
    <2>2. s.status \in Resting
      BY <1>3, <2>1 DEF Faithful, Followed
    <2>3. CASE Stuck(s)
      <3>1. e.kind \notin Allowed(s.status)
        BY <2>1, <2>3 DEF Stuck, Allowed, Restartable, Compensations
      <3>2. t = [s EXCEPT !.illegal = TRUE]
        BY <2>1, <3>1 DEF ReducerStep
      <3>3. ToldOnly(s, done) => ToldOnly(t, d)
        BY <3>2 DEF ToldOnly, States
      <3>4. /\ t \in States /\ t.illegal /\ t.status = s.status /\ t.reasons = s.reasons
        BY <3>2 DEF States
      <3> QED
        BY <1>3, <2>3, <3>3, <3>4 DEF Faithful, Stuck
    <2>4. CASE ~ Stuck(s)
      <3>1. e.kind \in Allowed(s.status)
        BY <2>1, <2>2, <2>4 DEF Stuck, Resting, Allowed, Restartable
      <3>2. StatusAfter(s.status, e) = "active" /\ ReasonsAfter(s.reasons, e) = s.reasons
        BY <2>1 DEF StatusAfter, ReasonsAfter, Stops
      <3>3. t = [s EXCEPT !.status = "active", !.reasons = s.reasons]
        BY <1>3, <2>1, <3>1, <3>2 DEF ReducerStep
      <3>4. t \in States /\ t.status = "active" /\ t.reasons = s.reasons /\ ~ t.illegal
        BY <1>3, <3>3 DEF States, Statuses
      <3>5. \A j \in ExecutionKinds : j \notin done
        BY <2>1, <1>3 DEF Consistent, InSequence
      <3>6. RunStatus(d) = "active"
        BY <1>3, <3>5 DEF RunStatus, ExecutionKinds, ExecutionEnds
      <3>7. Told(t, d) /\ (ToldOnly(s, done) => ToldOnly(t, d))
        BY <1>3, <3>4 DEF Faithful, Told, ToldOnly, GapsOf
      <3> QED
        BY <1>3, <3>4, <3>6, <3>7 DEF Faithful, Followed
    <2> QED
      BY <2>3, <2>4
  <1>4. CASE k \notin Preludes /\ ~ s.illegal
    <2>1. /\ e.kind = EventOf[k] /\ e.kind # "" /\ t = ReducerStep(s, e)
          /\ k \in RecordKinds \ Preludes
      BY <1>a, <1>0, <1>4
    <2>2. e.kind \in Allowed(s.status)
      BY <1>4, <2>1, Advance DEF Faithful
    <2>3. t = [s EXCEPT !.status = StatusAfter(s.status, e),
                        !.reasons = ReasonsAfter(s.reasons, e)]
      BY <1>4, <2>1, <2>2 DEF ReducerStep
    <2>4. /\ t.status = StatusAfter(s.status, e) /\ t.reasons = ReasonsAfter(s.reasons, e)
          /\ ~ t.illegal
          /\ t = [status |-> t.status, reasons |-> t.reasons, illegal |-> FALSE]
      BY <1>4, <2>3 DEF States
    <2>5. t.status = IF k \in CompensationKinds THEN RepairStatus(d) ELSE RunStatus(d)
      BY <1>a, <2>1, <2>4, Arrive
    <2>6. "activated" \in d
      BY <2>1, Before
    <2>7. t.status \in Statuses
      BY <2>5 DEF RepairStatus, RunStatus, Statuses
    <2>8. /\ (s.reasons \ {Missing}) \cup GapsOf(k) \subseteq t.reasons
          /\ t.reasons \subseteq s.reasons \cup GapsOf(k) \cup {Missing}
      <3>1. /\ k \in RecordKinds \ Preludes /\ e.kind = EventOf[k]
            /\ e.state = TransitionState(k)
        BY <1>a, <2>1
      <3>2. /\ (s.reasons \ {Missing}) \cup GapsOf(k) \subseteq ReasonsAfter(s.reasons, e)
            /\ ReasonsAfter(s.reasons, e) \subseteq s.reasons \cup GapsOf(k) \cup {Missing}
        BY <3>1, Remember
      <3> QED
        BY <2>4, <3>2
    <2>9. t \in States
      <3>1. s.reasons \subseteq Reasons
        BY DEF States
      <3>2. t.reasons \in SUBSET Reasons
        BY <2>8, <3>1 DEF GapsOf, Reasons, BlockingGaps
      <3>3. \A x \in Statuses, y \in SUBSET Reasons :
               [status |-> x, reasons |-> y, illegal |-> FALSE] \in States
        BY DEF States
      <3> QED
        BY <2>4, <2>7, <3>2, <3>3
    <2>10. Followed(t, d)
      <3>1. CASE k \in CompensationKinds
        <4>1. "compensation_required" \in d
          <5>1. CompensationInOrder(k)
            BY <3>1, Families DEF InOrder
          <5> QED
            BY <3>1, <5>1 DEF CompensationInOrder, CompensationKinds, Consistent, InSequence
        <4> QED
          BY <2>5, <2>6, <3>1, <4>1 DEF Followed
      <3>2. CASE k \notin CompensationKinds
        BY <2>5, <2>6, <3>2 DEF Followed
      <3> QED
        BY <3>1, <3>2
    <2>11. Told(t, d)
      BY <1>4, <2>8, MissingIsNoGap DEF Faithful, Told
    <2>12. ToldOnly(s, done) => ToldOnly(t, d)
      BY <2>8 DEF ToldOnly
    <2> QED
      <3>1. Faithful(t, d)
        BY <2>4, <2>10, <2>11 DEF Faithful
      <3> QED
        BY <1>4, <2>4, <2>6, <2>8, <2>9, <2>12, <3>1
  <1> QED
    BY <1>1, <1>2, <1>3, <1>4 DEF Preludes

-----------------------------------------------------------------------------
\* A record that is read.
LEMMA ReadStep ==
    ASSUME HistoryInv, NEW r \in Candidates, Accept(r), r.kind \in RecordKinds,
           needs => needs', replay' = Fed(replay, r.kind), UNCHANGED <<runs, settled>>
    PROVE  HistoryInv'
  <1>1. /\ verdict' = verdict /\ verdict = "reading" /\ done' = done \cup {r.kind}
        /\ InOrder(r.kind)
    BY DEF Accept
  <1>2. Consistent'
    BY <1>1, StayConsistent DEF HistoryInv
  <1>3. /\ replay' \in States /\ Faithful(replay', done')
        /\ replay.illegal => replay'.illegal
        /\ replay.reasons \ {Missing} \subseteq replay'.reasons
    <2>1. Consistent /\ replay \in States /\ Faithful(replay, done)
      BY DEF HistoryInv
    <2> QED
      BY <1>1, <2>1, Follow
  <1>4. settled.reasons \ {Missing} \subseteq replay'.reasons
    BY <1>3 DEF HistoryInv
  <1> QED
    BY <1>1, <1>2, <1>3, <1>4 DEF HistoryInv

\* A pack that is refused leaves nothing.
LEMMA LeaveStep ==
    ASSUME HistoryInv, Leave("refused"), replay' = settled, UNCHANGED <<runs, settled>>
    PROVE  HistoryInv'
  <1>1. verdict' = "refused" /\ done' = {} /\ ~ needs'
    BY DEF Leave
  <1>2. Consistent'
    BY <1>1 DEF Consistent, InSequence
  <1> QED
    BY <1>1, <1>2 DEF HistoryInv

\* A pack that is translated has ended: the reducer is at rest again.
LEMMA TranslateStep ==
    ASSUME HistoryInv, Translate
    PROVE  HistoryInv'
  <1>1. /\ verdict = "authoritative" /\ settled' = replay /\ replay' = replay
        /\ verdict' = "idle" /\ done' = {} /\ ~ needs'
    BY DEF Translate, Leave
  <1>2. PICK run : runs' = Append(runs, run) /\ run.done = done /\ run.needs = needs
    BY DEF Translate
  <1>3. Ended /\ Consistent /\ Faithful(replay, done)
    BY <1>1 DEF HistoryInv
  <1>4. /\ "compensation_required" \in done => "compensation_completed" \in done
        /\ needs => "compensation_completed" \in done
        /\ \/ "execution_blocked" \in done \/ "execution_failed" \in done
           \/ /\ "execution_succeeded" \in done
              /\ \E k \in ContainmentEnds : k \in done
    BY <1>3 DEF Ended, Consistent, InSequence
  <1>5. "activated" \in done
    BY <1>3, <1>4 DEF Consistent, InSequence, ExecutionKinds, ExecutionEnds
  <1>6. RunStatus(done) \in {"blocked", "failed", "contained", "partial", "gap"}
    <2>1. "execution_started" \in done \/ "execution_blocked" \in done
      BY <1>3, <1>4 DEF Consistent, InSequence
    <2> QED
      BY <1>4, <2>1 DEF RunStatus, ContainmentEnds
  <1>7. "compensation_required" \in done => RepairStatus(done) = "compensated"
    BY <1>4 DEF RepairStatus
  <1>8. Faithful(replay, {})
    BY <1>3, <1>5, <1>6, <1>7 DEF Faithful, Followed, Told, Resting, Restartable
  <1>9. Concluded(done, needs)
    BY <1>3 DEF Concluded, Consistent, Ended
  <1>10. Consistent'
    BY <1>1 DEF Consistent, InSequence
  <1>11. /\ runs' \in Seq({runs'[n] : n \in DOMAIN runs'})
         /\ \A n \in DOMAIN runs' :
               \/ n \in DOMAIN runs /\ runs'[n] = runs[n]
               \/ runs'[n] = run
    <2> DEFINE S == {runs[n] : n \in DOMAIN runs} \cup {run}
    <2>1. runs \in Seq(S)
      BY DEF HistoryInv
    <2>2. /\ runs' \in Seq(S) /\ Len(runs') = Len(runs) + 1
          /\ \A n \in 1..Len(runs) : runs'[n] = runs[n]
          /\ runs'[Len(runs) + 1] = run
      BY <1>2, <2>1, AppendProperties
    <2> QED
      BY <2>1, <2>2
  <1>12. ASSUME NEW n \in DOMAIN runs'
         PROVE  /\ Concluded(runs'[n].done, runs'[n].needs)
                /\ ~ replay.illegal => Told(replay, runs'[n].done)
    <2>1. CASE n \in DOMAIN runs /\ runs'[n] = runs[n]
      <3>1. Concluded(runs[n].done, runs[n].needs)
        BY <2>1 DEF HistoryInv
      <3>2. ~ replay.illegal => Told(settled, runs[n].done)
        BY <2>1 DEF HistoryInv
      <3>3. settled.reasons \ {Missing} \subseteq replay.reasons
        BY DEF HistoryInv
      <3>4. ~ replay.illegal => Told(replay, runs[n].done)
        BY <3>2, <3>3, MissingIsNoGap DEF Told
      <3> QED
        BY <2>1, <3>1, <3>4
    <2>2. CASE runs'[n] = run
      BY <1>2, <1>3, <1>9, <2>2 DEF Faithful
    <2> QED
      BY <1>11, <2>1, <2>2
  <1>13. /\ replay \in States /\ Faithful(replay', done')
         /\ settled'.reasons \ {Missing} \subseteq replay'.reasons
    BY <1>1, <1>8 DEF HistoryInv
  <1> QED
    BY <1>1, <1>8, <1>10, <1>11, <1>12, <1>13 DEF HistoryInv

\* The proposal is the one event of a contract without runs.
LEMMA Proposed ==
    ASSUME ReplayInit
    PROVE  /\ settled = [status |-> "proposed", reasons |-> {}, illegal |-> FALSE]
           /\ replay = settled /\ done = {} /\ ~ needs /\ verdict = "idle" /\ runs = <<>>
  <1>1. ProposalEvent.kind = "proposed"
    BY DEF ProposalEvent, EvidenceEventKind
  <1>2. /\ StatusAfter("unknown", ProposalEvent) = "proposed"
        /\ ReasonsAfter({}, ProposalEvent) = {}
    BY <1>1 DEF StatusAfter, ReasonsAfter, Stops
  <1>3. ProposalEvent.kind \in Allowed("unknown")
    BY <1>1 DEF Allowed
  <1>4. ReducerStep(Fresh, ProposalEvent)
           = [status |-> "proposed", reasons |-> {}, illegal |-> FALSE]
    BY <1>2, <1>3 DEF ReducerStep, Fresh
  <1> QED
    BY <1>4 DEF ReplayInit, GaitInit

LEMMA InitHistory == ReplayInit => HistoryInv
  <1> SUFFICES ASSUME ReplayInit PROVE HistoryInv
    OBVIOUS
  <1>0. /\ settled = [status |-> "proposed", reasons |-> {}, illegal |-> FALSE]
        /\ replay = settled /\ done = {} /\ ~ needs /\ verdict = "idle" /\ runs = <<>>
    BY Proposed
  <1>1. settled \in States /\ replay \in States
    BY <1>0 DEF States, Statuses
  <1>2. Faithful(settled, {})
    BY <1>0 DEF Faithful, Followed, Told, Resting
  <1>3. Consistent
    BY <1>0 DEF Consistent, InSequence
  <1> QED
    BY <1>0, <1>1, <1>2, <1>3 DEF HistoryInv

LEMMA NextHistory == HistoryInv /\ [ReplayNext]_replayVars => HistoryInv'
  <1> SUFFICES ASSUME HistoryInv, [ReplayNext]_replayVars PROVE HistoryInv'
    OBVIOUS
  <1>1. CASE NextPack
    <2>1. /\ verdict \in {"idle", "refused"} /\ verdict' \in {"reading", "refused"}
          /\ UNCHANGED <<done, needs, runs, settled>> /\ replay' = settled
      BY <1>1 DEF NextPack, Begin
    <2>2. Consistent'
      BY <2>1 DEF HistoryInv, Consistent, InSequence
    <2> QED
      BY <2>1, <2>2 DEF HistoryInv
  <1>2. CASE Read(ReadPrelude) \/ Read(ReadExecution) \/ Read(ReadEffect)
             \/ Read(ReadContainment) \/ Read(ReadCompensation)
    <2>1. PICK r \in Candidates :
             /\ \/ ReadPrelude(r) \/ ReadExecution(r) \/ ReadEffect(r)
                \/ ReadContainment(r) \/ ReadCompensation(r)
             /\ replay' = Fed(replay, r.kind)
             /\ UNCHANGED <<runs, settled>>
      BY <1>2 DEF Read
    <2>2. Accept(r) /\ r.kind \in RecordKinds /\ (needs => needs')
      <3>1. ReadExecution(r) => (needs => needs')
        BY Zenon DEF ReadExecution
      <3>2. ~ ReadExecution(r) => UNCHANGED needs
        BY <2>1 DEF ReadPrelude, ReadEffect, ReadContainment, ReadCompensation
      <3>3. Accept(r) /\ r.kind \in RecordKinds
        BY <2>1 DEF ReadPrelude, ReadExecution, ReadEffect, ReadContainment,
                    ReadCompensation, RecordKinds
      <3> QED
        BY <3>1, <3>2, <3>3
    <2> QED
      BY <2>1, <2>2, ReadStep
  <1>3. CASE RefusePack
    BY <1>3, LeaveStep DEF RefusePack, Refuse
  <1>4. CASE EndOfPack
    <2>1. CASE Ended
      <3>1. /\ verdict' \in {"fixture", "authoritative"} /\ verdict = "reading"
            /\ UNCHANGED <<done, needs, runs, settled, replay>>
        BY <1>4, <2>1 DEF EndOfPack, Finish
      <3>2. Consistent' /\ Ended'
        BY <2>1, <3>1 DEF HistoryInv, Consistent, InSequence, Ended
      <3> QED
        BY <3>1, <3>2 DEF HistoryInv
    <2>2. CASE ~ Ended
      BY <1>4, <2>2, LeaveStep DEF EndOfPack, Finish
    <2> QED
      BY <2>1, <2>2
  <1>5. CASE RefuseFixture
    BY <1>5, LeaveStep DEF RefuseFixture
  <1>6. CASE Translate
    BY <1>6, TranslateStep
  <1>7. CASE UNCHANGED replayVars
    <2>1. UNCHANGED <<done, needs, verdict, runs, settled, replay>>
      BY <1>7 DEF replayVars
    <2>2. Consistent' /\ (Ended => Ended')
      BY <2>1 DEF HistoryInv, Consistent, InSequence, Ended
    <2> QED
      BY <2>1, <2>2 DEF HistoryInv
  <1> QED
    BY <1>1, <1>2, <1>3, <1>4, <1>5, <1>6, <1>7 DEF ReplayNext

(* A pack the verifier lets through is a history the reducer accepts: it   *)
(* refuses only a run that follows one left in partial or in gap.          *)
THEOREM AlwaysIllegalOnlyAfterGap ==
    ReplaySpec => []IllegalOnlyAfterGap
  <1>1. HistoryInv => IllegalOnlyAfterGap
    BY DEF HistoryInv, Faithful, Stuck, IllegalOnlyAfterGap
  <1> QED
    BY <1>1, InitHistory, NextHistory, PTL DEF ReplaySpec

(* A lifecycle called complete hides no blocked run, no containment that   *)
(* is partial, unresolved or only requested, and no compensation that was  *)
(* needed and did not complete, in any of its runs.                        *)
THEOREM AlwaysCompleteHidesNothing ==
    ReplaySpec => []CompleteHidesNothing
  <1>1. HistoryInv => CompleteHidesNothing
    <2> SUFFICES ASSUME HistoryInv, Complete(settled), NEW n \in DOMAIN runs
                 PROVE  /\ "execution_blocked" \notin runs[n].done
                        /\ ContainmentStatus(runs[n].done) \in {"", "completed"}
                        /\ runs[n].needs => "compensation_completed" \in runs[n].done
      BY DEF CompleteHidesNothing
    <2>1. Told(settled, runs[n].done) /\ Concluded(runs[n].done, runs[n].needs)
      BY DEF HistoryInv, Complete
    <2>2. /\ "execution_blocked" \notin runs[n].done
          /\ "containment_partial" \notin runs[n].done
          /\ "containment_unresolved" \notin runs[n].done
      BY <2>1 DEF Told, GapsOf, Complete, BlockingGaps
    <2> QED
      BY <2>1, <2>2 DEF Concluded, InSequence, ContainmentStatus, ContainmentEnds
  <1> QED
    BY <1>1, InitHistory, NextHistory, PTL DEF ReplaySpec

-----------------------------------------------------------------------------
(* A contract of one run: the record, the timeline and the axes agree.     *)
LEMMA FirstReadStep ==
    ASSUME HistoryInv, FirstRun, NEW r \in Candidates, Accept(r), r.kind \in RecordKinds,
           replay' = Fed(replay, r.kind), UNCHANGED <<runs, settled>>
    PROVE  FirstRun'
  <1>1. done' = done \cup {r.kind} /\ InOrder(r.kind)
    BY DEF Accept
  <1>2. Consistent /\ replay \in States /\ Faithful(replay, done)
    BY DEF HistoryInv
  <1>3. ASSUME runs = <<>>
        PROVE  /\ ~ replay'.illegal /\ ToldOnly(replay', done')
               /\ "activated" \notin done' => replay'.status = "proposed"
    <2>1. /\ ~ replay.illegal /\ ToldOnly(replay, done)
          /\ "activated" \notin done => replay.status = "proposed"
      BY <1>3 DEF FirstRun
    <2>2. r.kind = "activated" => "activated" \notin done
      BY <1>1 DEF InOrder
    <2>3. r.kind = "activated" => ~ Stuck(replay)
      BY <2>1, <2>2 DEF Stuck
    <2>4. /\ ~ replay.illegal /\ (r.kind = "activated" => ~ Stuck(replay)) => ~ replay'.illegal
          /\ "activated" \notin done' => replay'.status = replay.status
          /\ ToldOnly(replay, done) => ToldOnly(replay', done')
      BY <1>1, <1>2, Follow
    <2> QED
      BY <1>1, <2>1, <2>3, <2>4
  <1> QED
    BY <1>3 DEF FirstRun

LEMMA FirstTranslateStep ==
    ASSUME HistoryInv, FirstRun, Translate
    PROVE  FirstRun'
  <1>1. verdict = "authoritative" /\ settled' = replay
    BY DEF Translate
  <1>2. PICK run : runs' = Append(runs, run) /\ run.done = done
    BY DEF Translate
  <1> DEFINE S == {runs[n] : n \in DOMAIN runs} \cup {run}
  <1>3. runs \in Seq(S)
    BY DEF HistoryInv
  <1>4. runs' # <<>> /\ (Len(runs') = 1 => runs = <<>> /\ runs'[1] = run)
    BY <1>2, <1>3, AppendProperties, EmptySeq
  <1>5. ASSUME runs = <<>>
        PROVE  /\ ~ replay.illegal /\ ToldOnly(replay, done)
               /\ \/ replay.status = RunStatus(done)
                  \/ "compensation_required" \in done /\ replay.status = RepairStatus(done)
    <2>1. ~ replay.illegal /\ ToldOnly(replay, done)
      BY <1>5 DEF FirstRun
    <2>2. Followed(replay, done)
      BY <2>1 DEF HistoryInv, Faithful
    <2>3. Ended /\ Consistent
      BY <1>1 DEF HistoryInv
    <2>4. "activated" \in done
      BY <2>3 DEF Ended, Consistent, InSequence, ExecutionKinds, ExecutionEnds
    <2> QED
      BY <2>1, <2>2, <2>4 DEF Followed
  <1> QED
    BY <1>1, <1>2, <1>4, <1>5 DEF FirstRun

LEMMA NextFirst ==
    ASSUME HistoryInv, FirstRun, [ReplayNext]_replayVars
    PROVE  FirstRun'
  <1>1. CASE NextPack
    <2>1. /\ verdict \in {"idle", "refused"} /\ replay' = settled
          /\ UNCHANGED <<done, runs, settled>>
      BY <1>1 DEF NextPack, Begin
    <2>2. replay = settled
      BY <2>1 DEF HistoryInv
    <2> QED
      BY <2>1, <2>2 DEF FirstRun
  <1>2. ASSUME replay' = settled, done' = {}, UNCHANGED <<runs, settled>>
        PROVE  FirstRun'
    BY <1>2 DEF FirstRun, ToldOnly
  <1>3. CASE Read(ReadPrelude) \/ Read(ReadExecution) \/ Read(ReadEffect)
             \/ Read(ReadContainment) \/ Read(ReadCompensation)
    <2>1. PICK r \in Candidates :
             /\ \/ ReadPrelude(r) \/ ReadExecution(r) \/ ReadEffect(r)
                \/ ReadContainment(r) \/ ReadCompensation(r)
             /\ replay' = Fed(replay, r.kind)
             /\ UNCHANGED <<runs, settled>>
      BY <1>3 DEF Read
    <2>2. Accept(r) /\ r.kind \in RecordKinds
      BY <2>1 DEF ReadPrelude, ReadExecution, ReadEffect, ReadContainment, ReadCompensation,
                  RecordKinds
    <2> QED
      BY <2>1, <2>2, FirstReadStep
  <1>4. CASE RefusePack
    BY <1>2, <1>4 DEF RefusePack, Refuse, Leave
  <1>5. CASE EndOfPack
    <2>1. CASE Ended
      BY <1>5, <2>1 DEF EndOfPack, Finish, FirstRun
    <2>2. CASE ~ Ended
      BY <1>2, <1>5, <2>2 DEF EndOfPack, Finish, Leave
    <2> QED
      BY <2>1, <2>2
  <1>6. CASE RefuseFixture
    BY <1>2, <1>6 DEF RefuseFixture, Leave
  <1>7. CASE Translate
    BY <1>7, FirstTranslateStep
  <1>8. CASE UNCHANGED replayVars
    BY <1>8 DEF replayVars, FirstRun
  <1> QED
    BY <1>1, <1>3, <1>4, <1>5, <1>6, <1>7, <1>8 DEF ReplayNext

LEMMA InitFirst == ReplayInit => FirstRun
  BY Proposed DEF FirstRun, ToldOnly

\* An axis of the packet says what the one terminal item of it says.
LEMMA AxisOfEnd ==
    ASSUME NEW axis, NEW e \in Items(axis), Terminal(e),
           \A k \in Items(axis) : Terminal(k) => k = e
    PROVE  AxisStates(axis) = {ItemState(e)}
  <1> DEFINE ends == {ItemState(k) : k \in {j \in Items(axis) : Terminal(j)}}
  <1>1. ends = {ItemState(e)}
    OBVIOUS
  <1> QED
    BY <1>1 DEF AxisStates

LEMMA KindsOfAxis ==
    ASSUME NEW k \in RecordKinds
    PROVE  /\ AxisOf(k) = "execution" <=> k \in ExecutionKinds
           /\ AxisOf(k) = "effect" <=> k \in EffectKinds
           /\ AxisOf(k) = "containment" <=> k \in ContainmentKinds
           /\ AxisOf(k) = "compensation" <=> k \in CompensationKinds
  <1>1. CASE k \in Preludes
    BY <1>1, Families DEF AxisOf, PayloadOf
  <1>2. CASE k \in ExecutionKinds
    BY <1>2, Families DEF AxisOf, PayloadOf, Preludes
  <1>3. CASE k \in EffectKinds
    BY <1>3, Families DEF AxisOf, PayloadOf, Preludes
  <1>4. CASE k \in ContainmentKinds
    BY <1>4, Families DEF AxisOf, PayloadOf, Preludes
  <1>5. CASE k \in CompensationKinds
    BY <1>5, Families DEF AxisOf, PayloadOf, Preludes
  <1> QED
    BY <1>1, <1>2, <1>3, <1>4, <1>5 DEF RecordKinds

LEMMA ItemsOfRun ==
    ASSUME DOMAIN runs = {1}, runs[1].done \subseteq RecordKinds
    PROVE  /\ Items("execution") = runs[1].done \cap ExecutionKinds
           /\ Items("effect") = runs[1].done \cap EffectKinds
           /\ Items("containment") = runs[1].done \cap ContainmentKinds
           /\ Items("compensation") = runs[1].done \cap CompensationKinds
  BY KindsOfAxis DEF Items

(* What the axes say of the one run, and when they call it present.        *)
LEMMA AxesOfRun ==
    ASSUME DOMAIN runs = {1}, Concluded(runs[1].done, runs[1].needs)
    PROVE  LET d == runs[1].done IN
           /\ AxisStates("execution") = {"present"} <=> "execution_succeeded" \in d
           /\ AxisStates("effect") = {"present"} <=> "effect_validated" \in d
           /\ AxisStates("containment") = {"present"} <=> "containment_completed" \in d
           /\ AxisStates("compensation")
                 = IF "compensation_required" \in d THEN {"present"} ELSE {"missing"}
  <1> DEFINE d == runs[1].done
  <1>0. d \subseteq RecordKinds
    BY DEF Concluded, InSequence
  <1>1. AxisStates("execution") = {"present"} <=> "execution_succeeded" \in d
    <2>1. PICK e \in ExecutionEnds : e \in d
      BY DEF Concluded, InSequence, ExecutionEnds
    <2>2. e \in Items("execution") /\ Terminal(e)
      BY <1>0, <2>1, ItemsOfRun DEF ExecutionKinds, Terminal
    <2>3. \A k \in ExecutionEnds : k \in d => k = e
      BY <2>1 DEF Concluded, InSequence, ExecutionEnds
    <2>4. ~ Terminal("execution_started")
      BY DEF Terminal, ExecutionEnds, ContainmentEnds
    <2>5. \A k \in Items("execution") : Terminal(k) => k = e
      BY <1>0, <2>3, <2>4, ItemsOfRun DEF ExecutionKinds
    <2>6. AxisStates("execution") = {ItemState(e)}
      BY <2>2, <2>5, AxisOfEnd
    <2>7. ItemState(e) = IF e = "execution_succeeded" THEN "present" ELSE "gap"
      BY <2>1 DEF ExecutionEnds, ItemState, TransitionState
    <2> QED
      BY <2>1, <2>3, <2>6, <2>7 DEF ExecutionEnds
  <1>2. AxisStates("effect") = {"present"} <=> "effect_validated" \in d
    <2>1. CASE "effect_validated" \in d
      <3>1. "effect_validated" \in Items("effect") /\ Terminal("effect_validated")
        BY <1>0, <2>1, ItemsOfRun DEF EffectKinds, Terminal
      <3>2. \A k \in Items("effect") : Terminal(k) => k = "effect_validated"
        BY <1>0, ItemsOfRun DEF EffectKinds, Terminal, ExecutionEnds, ContainmentEnds
      <3>3. AxisStates("effect") = {ItemState("effect_validated")}
        BY <3>1, <3>2, AxisOfEnd
      <3>4. ItemState("effect_validated") = "present"
        BY DEF ItemState, TransitionState
      <3> QED
        BY <2>1, <3>3, <3>4
    <2>2. CASE "effect_validated" \notin d
      <3>1. Items("effect") = {}
        BY <1>0, <2>2, ItemsOfRun DEF Concluded, InSequence, EffectKinds
      <3>2. AxisStates("effect") = {"missing"}
        BY <3>1 DEF AxisStates
      <3> QED
        BY <2>2, <3>2
    <2> QED
      BY <2>1, <2>2
  <1>3. AxisStates("containment") = {"present"} <=> "containment_completed" \in d
    <2>1. CASE \E e \in ContainmentEnds : e \in d
      <3>1. PICK e \in ContainmentEnds : e \in d
        BY <2>1
      <3>2. e \in Items("containment") /\ Terminal(e)
        BY <1>0, <3>1, ItemsOfRun DEF ContainmentKinds, Terminal
      <3>3. \A k \in ContainmentEnds : k \in d => k = e
        BY <3>1 DEF Concluded, InSequence
      <3>4. ~ Terminal("containment_requested")
        BY DEF Terminal, ExecutionEnds, ContainmentEnds
      <3>5. \A k \in Items("containment") : Terminal(k) => k = e
        BY <1>0, <3>3, <3>4, ItemsOfRun DEF ContainmentKinds
      <3>6. AxisStates("containment") = {ItemState(e)}
        BY <3>2, <3>5, AxisOfEnd
      <3>7. ItemState(e) = CASE e = "containment_completed" -> "present"
                             [] e = "containment_partial" -> "unknown"
                             [] e = "containment_unresolved" -> "gap"
        BY <3>1 DEF ContainmentEnds, ItemState, TransitionState
      <3> QED
        BY <3>1, <3>3, <3>6, <3>7 DEF ContainmentEnds
    <2>2. CASE \A e \in ContainmentEnds : e \notin d
      <3>1. Items("containment") = {}
        BY <1>0, <2>2, ItemsOfRun DEF Concluded, InSequence, ContainmentKinds
      <3>2. AxisStates("containment") = {"missing"}
        BY <3>1 DEF AxisStates
      <3> QED
        BY <2>2, <3>2 DEF ContainmentEnds
    <2> QED
      BY <2>1, <2>2
  <1>4. AxisStates("compensation")
           = IF "compensation_required" \in d THEN {"present"} ELSE {"missing"}
    <2>1. CASE "compensation_required" \in d
      <3>1. "compensation_completed" \in d
        BY <2>1 DEF Concluded, InSequence
      <3>2. /\ "compensation_completed" \in Items("compensation")
            /\ Terminal("compensation_completed")
        BY <1>0, <3>1, ItemsOfRun DEF CompensationKinds, Terminal
      <3>3. \A k \in Items("compensation") : Terminal(k) => k = "compensation_completed"
        BY <1>0, ItemsOfRun DEF CompensationKinds, Terminal, ExecutionEnds, ContainmentEnds
      <3>4. AxisStates("compensation") = {ItemState("compensation_completed")}
        BY <3>2, <3>3, AxisOfEnd
      <3>5. ItemState("compensation_completed") = "present"
        BY DEF ItemState, TransitionState
      <3> QED
        BY <2>1, <3>4, <3>5
    <2>2. CASE "compensation_required" \notin d
      <3>1. Items("compensation") = {}
        BY <1>0, <2>2, ItemsOfRun DEF Concluded, InSequence, CompensationKinds
      <3> QED
        BY <2>2, <3>1 DEF AxisStates
    <2> QED
      BY <2>1, <2>2
  <1> QED
    BY <1>1, <1>2, <1>3, <1>4

(* For a contract of one run, the record's authoritative success, the axes *)
(* of the packet and the timeline give the same answer.                    *)
THEOREM AlwaysSuccessAgrees ==
    ReplaySpec => []SuccessAgrees
  <1>1. HistoryInv /\ FirstRun => SuccessAgrees
    <2> SUFFICES ASSUME HistoryInv, FirstRun, Len(runs) = 1 PROVE SuccessAgrees
      BY DEF SuccessAgrees
    <2> DEFINE d == runs[1].done
    <2>1. DOMAIN runs = {1}
      <3>1. DOMAIN runs = 1..Len(runs)
        BY DEF HistoryInv
      <3> QED
        BY <3>1
    <2>2. Concluded(d, runs[1].needs)
      BY <2>1 DEF HistoryInv
    <2>3. AuthoritativeSuccess(d) <=> /\ "execution_succeeded" \in d
                                      /\ "effect_validated" \in d
                                      /\ "containment_completed" \in d
      <3>1. ContainmentStatus(d) = "completed" <=> "containment_completed" \in d
        BY DEF ContainmentStatus
      <3>2. CompensationStatus(d) \in {"", "completed"}
        BY <2>2 DEF CompensationStatus, Concluded, InSequence
      <3> QED
        BY <3>1, <3>2 DEF AuthoritativeSuccess
    <2>4. ASSUME AuthoritativeSuccess(d) PROVE Complete(settled)
      <3>1. /\ ~ settled.illegal /\ ToldOnly(settled, d)
            /\ \/ settled.status = RunStatus(d)
               \/ /\ "compensation_required" \in d
                  /\ settled.status = RepairStatus(d)
        BY DEF FirstRun
      <3>2. /\ "execution_blocked" \notin d /\ "execution_failed" \notin d
            /\ "execution_started" \in d
            /\ "containment_partial" \notin d /\ "containment_unresolved" \notin d
            /\ "compensation_required" \in d => "compensation_completed" \in d
        BY <2>2, <2>3, <2>4 DEF Concluded, InSequence, ContainmentEnds
      <3>3. settled.status \in {"contained", "compensated"}
        BY <2>3, <2>4, <3>1, <3>2 DEF RunStatus, RepairStatus
      <3>4. \A g \in settled.reasons : g = Missing
        BY <3>1, <3>2 DEF ToldOnly, GapsOf
      <3> QED
        BY <3>1, <3>3, <3>4 DEF Complete, BlockingGaps, Missing
    <2> QED
      BY <2>1, <2>2, <2>3, <2>4, AxesOfRun DEF SuccessAgrees
  <1>2. HistoryInv /\ FirstRun /\ [ReplayNext]_replayVars => HistoryInv' /\ FirstRun'
    BY NextHistory, NextFirst
  <1> QED
    BY <1>1, <1>2, InitHistory, InitFirst, PTL DEF ReplaySpec

-----------------------------------------------------------------------------
(* The timeline of a packet of events. *)

\* The pack being read, as the record it becomes.
RunOf(records, first) == [records |-> records, first |-> first]
Pack(first) == RunOf(accepted, first)

\* The exceptions of TimelineIsReplay do not hit it.
Untroubled(run) == /\ ~ TieBehind(run)
                   /\ \A i \in DOMAIN run.records : ~ run.records[i].approval

(* The instants of a run never go back, and what comes before its          *)
(* activation has no event.                                                *)
Timed(records) ==
    /\ \A i \in DOMAIN records : /\ records[i].at \in 1..i
                                 /\ \A j \in 1..i : records[j].at <= records[i].at
    /\ \A i \in DOMAIN records : records[i].kind = "activated" =>
          \A j \in 1..(i - 1) : records[j].kind \in Preludes \ {"activated"}

(* A kind is read once, so there are no more records than kinds.           *)
Ordered ==
    /\ accepted \in Seq({accepted[i] : i \in DOMAIN accepted})
    /\ done = {accepted[i].kind : i \in DOMAIN accepted}
    /\ Cardinality(done) = Len(accepted)
    /\ Timed(accepted)
    /\ verdict \in {"idle", "refused"} => accepted = <<>>

(* The events of the first n runs come before those of later ones.         *)
Below(events, n) ==
    /\ IsFiniteSet(events) /\ Distinct(events)
    /\ \A e \in events : /\ e.at \in 0..(n * Span + Span - 1)
                         /\ e.id \in 0..(n * 2 * Span + 2 * Span - 1)
                         /\ e.digest \in 0..(n * 2 * Span + 2 * Span - 1)

TimelineInv ==
    /\ Ordered
    /\ (\A n \in DOMAIN runs : Untroubled(runs[n])) =>
          /\ Below(EventsFromPacket, Len(runs))
          /\ ProjectTimeline = settled
          /\ \A first \in BOOLEAN :
                Untroubled(Pack(first)) =>
                    LET events == EventsFromPacket \cup RunEvents(Pack(first), Len(runs) + 1)
                    IN  /\ Below(events, Len(runs) + 1)
                        /\ ReduceVerified(events) = replay

-----------------------------------------------------------------------------
(* The timeline: what ReduceVerified makes of events that come in order.   *)

\* What Replayed computes, as far as its n-th event.
Replays(f, sorted, n) ==
    f = [i \in 0..n |-> IF i = 0 THEN Fresh ELSE ReducerStep(f[i - 1], sorted[i])]

(* The recursion by which Replayed is defined has a solution.              *)
LEMMA ReplayGrows ==
    ASSUME NEW sorted, NEW n \in Nat, NEW f, Replays(f, sorted, n)
    PROVE  \E g : Replays(g, sorted, n + 1)
  <1> DEFINE g == [i \in 0..(n + 1) |->
                      IF i = n + 1 THEN ReducerStep(f[n], sorted[n + 1]) ELSE f[i]]
             step(i) == IF i = 0 THEN Fresh ELSE ReducerStep(g[i - 1], sorted[i])
  <1>1. ASSUME NEW i \in 0..n
        PROVE  f[i] = IF i = 0 THEN Fresh ELSE ReducerStep(f[i - 1], sorted[i])
    BY Zenon DEF Replays
  <1>2. \A i \in 0..n : i \in 0..(n + 1) /\ i # n + 1 /\ g[i] = f[i]
    OBVIOUS
  <1>3. /\ g[n + 1] = ReducerStep(f[n], sorted[n + 1])
        /\ n \in 0..n /\ n + 1 # 0 /\ (n + 1) - 1 = n
    OBVIOUS
  <1> HIDE DEF g
  <1>4. ASSUME NEW i \in 0..(n + 1)
        PROVE  g[i] = step(i)
    <2>1. CASE i = n + 1
      BY <1>2, <1>3, <2>1
    <2>2. CASE i = 0
      BY <1>1, <1>2, <2>2
    <2>3. CASE i # n + 1 /\ i # 0
      <3>1. i \in 0..n /\ i - 1 \in 0..n
        BY <2>3
      <3> QED
        BY <1>1, <1>2, <2>3, <3>1
    <2> QED
      BY <2>1, <2>2, <2>3
  <1>5. g = [i \in 0..(n + 1) |-> g[i]]
    BY DEF g
  <1>6. g = [i \in 0..(n + 1) |-> step(i)]
    BY <1>4, <1>5
  <1> QED
    BY <1>6 DEF Replays

LEMMA ReplayExists ==
    ASSUME NEW sorted, NEW n \in Nat
    PROVE  \E f : Replays(f, sorted, n)
  <1> DEFINE Without == {m \in Nat : ~ \E f : Replays(f, sorted, m)}
  <1> SUFFICES ASSUME Without # {}
               PROVE  FALSE
    OBVIOUS
  <1>1. PICK m \in Without : \A j \in Without : m <= j
    <2>1. Without \subseteq Nat
      OBVIOUS
    <2> HIDE DEF Without
    <2> QED
      BY <2>1, SmallestNumber
  <1>2. m # 0
    <2>1. 0..0 = {0}
      OBVIOUS
    <2>2. Replays([i \in {0} |-> Fresh], sorted, 0)
      BY <2>1 DEF Replays
    <2> QED
      BY <2>2
  <1>3. m - 1 \in Nat /\ ~ (m <= m - 1) /\ (m - 1) + 1 = m
    BY <1>1, <1>2
  <1>4. PICK f : Replays(f, sorted, m - 1)
    BY <1>1, <1>3
  <1>5. \E g : Replays(g, sorted, m)
    BY <1>3, <1>4, ReplayGrows
  <1> QED
    BY <1>1, <1>5

\* The first n events of two sequences.
SameStart(s, t, n) == \A i \in 1..n : t[i] = s[i]

(* Two replays agree as far as their events do.                            *)
LEMMA ReplaysAgree ==
    ASSUME NEW s, NEW t, NEW n \in Nat, NEW m \in Nat, n <= m, SameStart(s, t, n),
           NEW f, Replays(f, s, n), NEW g, Replays(g, t, m)
    PROVE  \A i \in 0..n : g[i] = f[i]
  <1>1. ASSUME NEW i \in 0..n
        PROVE  f[i] = IF i = 0 THEN Fresh ELSE ReducerStep(f[i - 1], s[i])
    BY Zenon DEF Replays
  <1>2. ASSUME NEW i \in 0..n
        PROVE  g[i] = IF i = 0 THEN Fresh ELSE ReducerStep(g[i - 1], t[i])
    <2>1. i \in 0..m
      OBVIOUS
    <2> QED
      BY <2>1, Zenon DEF Replays
  <1> DEFINE Apart == {i \in 0..n : g[i] # f[i]}
  <1> SUFFICES ASSUME Apart # {}
               PROVE  FALSE
    OBVIOUS
  <1>3. PICK i \in Apart : \A j \in Apart : i <= j
    <2>1. Apart \subseteq Nat
      OBVIOUS
    <2> HIDE DEF Apart
    <2> QED
      BY <2>1, SmallestNumber
  <1>4. i # 0
    BY <1>1, <1>2, <1>3
  <1>5. i \in 1..n /\ i - 1 \in 0..n /\ ~ (i <= i - 1) /\ i \in 0..n
    BY <1>3, <1>4
  <1>6. g[i - 1] = f[i - 1]
    BY <1>3, <1>5
  <1>7. g[i] = f[i]
    BY <1>1, <1>2, <1>4, <1>5, <1>6 DEF SameStart
  <1> QED
    BY <1>3, <1>7

(* One more event is one more step.                                        *)
LEMMA ReplayedAppend ==
    ASSUME NEW n \in Nat, NEW s, NEW t, Len(s) = n, Len(t) = n + 1, SameStart(s, t, n)
    PROVE  Replayed(t) = ReducerStep(Replayed(s), t[n + 1])
  <1>1. PICK f : Replays(f, s, n) /\ Replayed(s) = f[n]
    <2>1. \E f : Replays(f, s, n)
      BY ReplayExists
    <2> QED
      BY <2>1 DEF Replayed, Replays
  <1>2. PICK g : Replays(g, t, n + 1) /\ Replayed(t) = g[n + 1]
    <2>1. \E g : Replays(g, t, n + 1)
      BY ReplayExists
    <2> QED
      BY <2>1 DEF Replayed, Replays
  <1>3. g[n] = f[n]
    <2>1. \A i \in 0..n : g[i] = f[i]
      BY <1>1, <1>2, ReplaysAgree
    <2> QED
      BY <2>1
  <1>4. g[n + 1] = ReducerStep(g[n], t[n + 1])
    <2>1. n + 1 \in 0..(n + 1) /\ n + 1 # 0 /\ (n + 1) - 1 = n
      OBVIOUS
    <2> QED
      BY <1>2, <2>1, Zenon DEF Replays
  <1> QED
    BY <1>1, <1>2, <1>3, <1>4

LEMMA ReplayedNone ==
    ASSUME NEW s, Len(s) = 0
    PROVE  Replayed(s) = Fresh
  <1>1. PICK f : Replays(f, s, 0) /\ Replayed(s) = f[0]
    <2>1. \E f : Replays(f, s, 0)
      BY ReplayExists
    <2> QED
      BY <2>1 DEF Replayed, Replays
  <1>2. 0 \in 0..0
    OBVIOUS
  <1> QED
    BY <1>1, <1>2, Zenon DEF Replays

\* Instants and identifiers can be compared.
Dated(events) == \A e \in events : e.at \in Nat /\ e.id \in Nat

(* An event that all others come before is the last one to be replayed.    *)
LEMMA LastEvent ==
    ASSUME NEW events, IsFiniteSet(events), NEW last, Dated(events \cup {last}),
           \A e \in events : EventBefore(e, last)
    PROVE  LET all == events \cup {last}
               n == Cardinality(events)
           IN  /\ n \in Nat
               /\ Len(Sorted(events)) = n /\ Len(Sorted(all)) = n + 1
               /\ SameStart(Sorted(events), Sorted(all), n)
               /\ Sorted(all)[n + 1] = last
  <1> DEFINE all == events \cup {last}
             n == Cardinality(events)
             At(S, m) == {e \in S : Cardinality(Earlier(S, e)) = m - 1}
  <1>1. /\ last \notin events
        /\ \A e \in events : ~ EventBefore(last, e) /\ ~ EventBefore(e, e)
        /\ ~ EventBefore(last, last)
    BY DEF EventBefore, Dated
  <1>2. n \in Nat /\ Cardinality(all) = n + 1 /\ IsFiniteSet(all)
    BY <1>1, FS_CardinalityType, FS_AddElement
  <1>3. Earlier(all, last) = events
    BY <1>1 DEF Earlier
  <1>4. ASSUME NEW e \in events
        PROVE  /\ Earlier(all, e) = Earlier(events, e)
               /\ Cardinality(Earlier(events, e)) \in Nat
               /\ Cardinality(Earlier(events, e)) < n
    <2>1. Earlier(all, e) = Earlier(events, e)
      BY <1>1 DEF Earlier
    <2>2. Earlier(events, e) \subseteq events \ {e}
      BY <1>1 DEF Earlier
    <2>3. IsFiniteSet(events \ {e}) /\ Cardinality(events \ {e}) = n - 1
      BY FS_RemoveElement
    <2>4. /\ IsFiniteSet(Earlier(events, e))
          /\ Cardinality(Earlier(events, e)) <= n - 1
      BY <2>2, <2>3, FS_Subset
    <2>5. Cardinality(Earlier(events, e)) \in Nat
      BY <2>4, FS_CardinalityType
    <2> QED
      BY <1>2, <2>1, <2>4, <2>5
  <1>5. /\ Sorted(events) = [m \in 1..n |-> OneOf(At(events, m))]
        /\ Sorted(all) = [m \in 1..(n + 1) |-> OneOf(At(all, m))]
    BY <1>2 DEF Sorted
  <1>6. Len(Sorted(events)) = n /\ Len(Sorted(all)) = n + 1
    <2> HIDE DEF At, n, all
    <2> QED
      BY <1>2, <1>5
  <1>7. ASSUME NEW m \in 1..n
        PROVE  At(all, m) = At(events, m)
    <2> HIDE DEF n
    <2>1. Cardinality(Earlier(all, last)) # m - 1
      BY <1>2, <1>3 DEF n
    <2> QED
      BY <1>4, <2>1
  <1>8. At(all, n + 1) = {last}
    <2>1. (n + 1) - 1 = n
      BY <1>2
    <2>2. Cardinality(Earlier(all, last)) = n
      BY <1>3
    <2>3. \A e \in events : Cardinality(Earlier(all, e)) # n
      BY <1>2, <1>4
    <2> HIDE DEF n
    <2> QED
      BY <2>1, <2>2, <2>3
  <1>9. OneOf({last}) = last
    BY DEF OneOf
  <1> HIDE DEF At, n, all
  <1>10. SameStart(Sorted(events), Sorted(all), n)
    <2>1. ASSUME NEW m \in 1..n
          PROVE  Sorted(all)[m] = Sorted(events)[m]
      <3>1. m \in 1..(n + 1)
        BY <1>2
      <3> QED
        BY <1>5, <1>7, <3>1
    <2> QED
      BY <2>1 DEF SameStart
  <1>11. Sorted(all)[n + 1] = last
    <2>1. n + 1 \in 1..(n + 1)
      BY <1>2
    <2> QED
      BY <1>5, <1>8, <1>9, <2>1
  <1> QED
    BY <1>2, <1>6, <1>10, <1>11 DEF n, all

LEMMA ReduceLast ==
    ASSUME NEW events, IsFiniteSet(events), NEW last, Dated(events \cup {last}),
           \A e \in events : EventBefore(e, last), Distinct(events \cup {last})
    PROVE  ReduceVerified(events \cup {last}) = ReducerStep(ReduceVerified(events), last)
  <1>1. Distinct(events)
    BY DEF Distinct
  <1> DEFINE s == Sorted(events)
             t == Sorted(events \cup {last})
             n == Cardinality(events)
  <1>2. /\ n \in Nat /\ Len(s) = n /\ Len(t) = n + 1
        /\ SameStart(s, t, n) /\ t[n + 1] = last
    BY LastEvent
  <1>3. ReduceVerified(events) = Replayed(s) /\ ReduceVerified(events \cup {last}) = Replayed(t)
    BY <1>1 DEF ReduceVerified
  <1> HIDE DEF s, t, n
  <1>4. Replayed(t) = ReducerStep(Replayed(s), t[n + 1])
    BY <1>2, ReplayedAppend
  <1> QED
    BY <1>2, <1>3, <1>4

(* The proposal is the whole timeline of a contract without runs.          *)
LEMMA ReduceProposal ==
    /\ Below({ProposalEvent}, 0)
    /\ ReduceVerified({ProposalEvent}) = ReducerStep(Fresh, ProposalEvent)
  <1>1. /\ ProposalEvent.at = 0 /\ ProposalEvent.id = 0 /\ ProposalEvent.digest = 0
    BY DEF ProposalEvent
  <1>2. IsFiniteSet({}) /\ Cardinality({}) = 0 /\ IsFiniteSet({ProposalEvent})
    BY FS_EmptySet, FS_Singleton
  <1>3. Below({ProposalEvent}, 0)
    BY <1>1, <1>2 DEF Below, Distinct, Span
  <1>4. Dated({ProposalEvent}) /\ Distinct({ProposalEvent}) /\ {} \cup {ProposalEvent} = {ProposalEvent}
    BY <1>1 DEF Dated, Distinct
  <1>5. ReduceVerified({ProposalEvent}) = ReducerStep(ReduceVerified({}), ProposalEvent)
    BY <1>2, <1>4, ReduceLast
  <1>6. ReduceVerified({}) = Fresh
    <2>1. Distinct({})
      BY DEF Distinct
    <2>2. Len(Sorted({})) = 0
      BY <1>2 DEF Sorted
    <2> QED
      BY <2>1, <2>2, ReplayedNone DEF ReduceVerified
  <1> QED
    BY <1>3, <1>5, <1>6

-----------------------------------------------------------------------------
\* There are 18 kinds of records.
LEMMA KindsAreFew == IsFiniteSet(RecordKinds) /\ Cardinality(RecordKinds) <= 18
  <1> DEFINE name == <<"proposal_ingested", "activation_requested",
                       "precondition_evaluated", "decision_ready", "activated",
                       "execution_blocked", "execution_succeeded", "execution_failed",
                       "execution_started", "effect_recorded", "effect_validated",
                       "containment_completed", "containment_partial",
                       "containment_unresolved", "containment_requested",
                       "compensation_required", "compensation_started",
                       "compensation_completed">>
             f == [i \in 1..18 |-> name[i]]
  <1>1. \A k \in RecordKinds : \E i \in 1..18 : name[i] = k
    BY DEF RecordKinds, Preludes, ExecutionKinds, ExecutionEnds, EffectKinds,
       ContainmentKinds, ContainmentEnds, CompensationKinds
  <1>2. \A i \in 1..18 : name[i] \in RecordKinds
    BY DEF RecordKinds, Preludes, ExecutionKinds, ExecutionEnds, EffectKinds,
       ContainmentKinds, ContainmentEnds, CompensationKinds
  <1> HIDE DEF name
  <1>3. f \in Surjection(1..18, RecordKinds)
    BY <1>1, <1>2 DEF Surjection
  <1> HIDE DEF f
  <1>4. IsFiniteSet(1..18) /\ Cardinality(1..18) = 18
    <2>1. 1 \in Int /\ 18 \in Int /\ ~ (1 > 18) /\ 18 - 1 + 1 = 18
      OBVIOUS
    <2>2. IsFiniteSet(1..18) /\ Cardinality(1..18) = IF 1 > 18 THEN 0 ELSE 18 - 1 + 1
      BY <2>1, FS_Interval, Zenon
    <2> QED
      BY <2>1, <2>2
  <1> QED
    BY <1>3, <1>4, FS_Surjection

\* An event's instant and state are all the reducer asks of it.
LEMMA StepOfEvent ==
    ASSUME NEW s, NEW e
    PROVE  ReducerStep(s, e) = ReducerStep(s, [kind |-> e.kind, state |-> e.state])
  BY DEF ReducerStep, StatusAfter, ReasonsAfter, Unresolved

\* Without an activation there are no events.
LEMMA Eventless ==
    ASSUME NEW k \in Preludes \ {"activated"}
    PROVE  EventKindOf(k) = ""
  BY EventTable DEF RecordKinds

LEMMA Eventful ==
    ASSUME NEW k \in RecordKinds, EventKindOf(k) # ""
    PROVE  k \notin Preludes \ {"activated"}
  BY EventTable

\* The order of the records is that of their events.
LEMMA EventOrder ==
    ASSUME NEW run, NEW m \in Nat, NEW i \in Nat, NEW j \in Nat, i # 0, i < j, j <= 18,
           run.records[i].at \in Nat, run.records[j].at \in Nat,
           run.records[i].at <= run.records[j].at, run.records[j].kind # "activated",
           run.records[i].kind = "activated" /\ ~ run.first =>
                run.records[i].at # run.records[j].at
    PROVE  LET x == EventAt(run, m, i)
               y == EventAt(run, m, j)
           IN  EventBefore(x, y) /\ x.id # y.id /\ x.digest # y.digest
  <1> DEFINE x == EventAt(run, m, i)
             y == EventAt(run, m, j)
  <1>1. PICK from \in Nat, base \in Nat : from = m * Span /\ base = m * 2 * Span
    <2>1. m * Span \in Nat /\ m * 2 * Span \in Nat
      BY DEF Span
    <2> QED
      BY <2>1
  <1>2. /\ x.at = from + run.records[i].at /\ y.at = from + run.records[j].at
        /\ y.id = base + j /\ y.digest = base + j /\ x.digest = base + i
        /\ x.id = IF run.records[i].kind = "activated"
                  THEN IF run.first THEN base ELSE base + Span
                  ELSE base + i
    BY <1>1 DEF EventAt
  <1> HIDE DEF x, y
  <1>3. x.id # y.id /\ x.digest # y.digest
    BY <1>2 DEF Span
  <1>4. EventBefore(x, y)
    BY <1>2 DEF EventBefore
  <1> QED
    BY <1>3, <1>4 DEF x, y

\* A record was read after the first k.
OneMore(records, more, k) ==
    /\ DOMAIN records = 1..k /\ DOMAIN more = 1..(k + 1) /\ SameStart(records, more, k)
    /\ Timed(more) /\ \A i \in 1..(k + 1) : more[i].kind \in RecordKinds

\* An earlier place in a sequence of at most 18.
LEMMA InPrefix ==
    ASSUME NEW k \in 0..17, NEW i \in 1..k
    PROVE  /\ i \in 1..(k + 1) /\ i < k + 1 /\ i \in 1..((k + 1) - 1) /\ i \in Nat /\ i # 0
           /\ k + 1 \in 1..(k + 1) /\ k + 1 \in Nat /\ k + 1 <= 18
  OBVIOUS

(* One more record of run n + 1, after events in order.                    *)
OneMoreRead(events, n, k, records, more, first) ==
    /\ n \in Nat /\ k \in 0..17 /\ first \in BOOLEAN
    /\ OneMore(records, more, k) /\ Untroubled(RunOf(more, first))
    /\ Below(events, n)
    /\ Below(events \cup RunEvents(RunOf(records, first), n + 1), n + 1)

OneMoreFed(events, n, k, records, more, first) ==
    /\ Below(events \cup RunEvents(RunOf(more, first), n + 1), n + 1)
    /\ ReduceVerified(events \cup RunEvents(RunOf(more, first), n + 1))
         = Fed(ReduceVerified(events \cup RunEvents(RunOf(records, first), n + 1)),
               more[k + 1].kind)

(* Reading one more record adds the event that is replayed last.           *)
LEMMA NextEvent ==
    ASSUME NEW events, NEW n, NEW k, NEW records, NEW more, NEW first,
           OneMoreRead(events, n, k, records, more, first)
    PROVE  OneMoreFed(events, n, k, records, more, first)
  <1>a. /\ n \in Nat /\ k \in 0..17 /\ first \in BOOLEAN
        /\ OneMore(records, more, k) /\ Untroubled(RunOf(more, first))
        /\ Below(events, n)
        /\ Below(events \cup RunEvents(RunOf(records, first), n + 1), n + 1)
    BY DEF OneMoreRead
  <1> USE <1>a
  <1> DEFINE run == RunOf(records, first)
             longer == RunOf(more, first)
             old == events \cup RunEvents(run, n + 1)
             next == events \cup RunEvents(longer, n + 1)
             e == EventAt(longer, n + 1, k + 1)
             Had == {j \in 1..k : EventKindOf(more[j].kind) # ""}
  <1>0. /\ k \in Nat /\ k + 1 \in 1..(k + 1) /\ k + 1 <= 18
        /\ \A j : j \in 1..(k + 1) <=> j \in 1..k \/ j = k + 1
        /\ \A j \in 1..k : j < k + 1 /\ j \in 1..((k + 1) - 1) /\ j \in Nat
    OBVIOUS
  <1>1. /\ run.records = records /\ run.first = first
        /\ longer.records = more /\ longer.first = first
        /\ DOMAIN records = 1..k /\ DOMAIN more = 1..(k + 1)
    BY DEF RunOf, OneMore
  <1>2. /\ \A i \in 1..k : more[i] = records[i]
        /\ \A i \in 1..(k + 1) : ~ more[i].approval
        /\ \A i \in 1..(k + 1) : /\ more[i].at \in 1..i /\ more[i].at \in Nat
                                  /\ more[k + 1].at \in Nat /\ more[k + 1].at <= 18
                                  /\ more[i].at <= more[k + 1].at
        /\ \A i \in 1..(k + 1) : more[i].kind \in RecordKinds
    <2>1. \A i \in 1..(k + 1) : /\ more[i].at \in 1..i
                                /\ \A j \in 1..i : more[j].at <= more[i].at
      BY <1>1 DEF OneMore, Timed
    <2>2. \A i \in 1..(k + 1) : more[i].at <= more[k + 1].at
      BY <1>0, <2>1
    <2>3. more[k + 1].at \in 1..(k + 1)
      BY <1>0, <2>1
    <2> QED
      BY <1>0, <1>1, <2>1, <2>2, <2>3 DEF OneMore, SameStart, Untroubled
  <1>3. \A i \in 1..k : EventAt(run, n + 1, i) = EventAt(longer, n + 1, i)
    BY <1>1, <1>2 DEF EventAt
  <1>4. RunEvents(run, n + 1) = {EventAt(longer, n + 1, i) : i \in Had}
    <2>1. {i \in 1..k : records[i].approval} = {}
      BY <1>2
    <2>2. RunEvents(run, n + 1)
             = {EventAt(run, n + 1, i) : i \in {j \in 1..k : EventKindOf(records[j].kind) # ""}}
      BY <1>1, <2>1 DEF RunEvents
    <2>3. {j \in 1..k : EventKindOf(records[j].kind) # ""} = Had
      BY <1>2
    <2> HIDE DEF Had, run, longer
    <2>4. \A i \in Had : EventAt(run, n + 1, i) = EventAt(longer, n + 1, i)
      BY <1>3 DEF Had
    <2> QED
      BY <2>2, <2>3, <2>4
  <1>5. RunEvents(longer, n + 1)
           = {EventAt(longer, n + 1, i) :
                i \in {j \in 1..(k + 1) : EventKindOf(more[j].kind) # ""}}
    <2>1. {i \in 1..(k + 1) : more[i].approval} = {}
      BY <1>2
    <2> QED
      BY <1>1, <2>1 DEF RunEvents
  <1> HIDE DEF run, longer
  <1>6. CASE EventKindOf(more[k + 1].kind) = ""
    <2>1. {j \in 1..(k + 1) : EventKindOf(more[j].kind) # ""} = Had
      BY <1>0, <1>6
    <2>2. next = old
      BY <1>4, <1>5, <2>1
    <2>3. Fed(ReduceVerified(old), more[k + 1].kind) = ReduceVerified(old)
      BY <1>6 DEF Fed
    <2> QED
      BY <2>2, <2>3 DEF run, longer, OneMoreFed
  <1>7. CASE EventKindOf(more[k + 1].kind) # ""
    <2>1. {j \in 1..(k + 1) : EventKindOf(more[j].kind) # ""} = Had \cup {k + 1}
      BY <1>0, <1>7
    <2>2. next = old \cup {e}
      BY <1>4, <1>5, <2>1
    <2>3. /\ e.at = (n + 1) * Span + more[k + 1].at /\ e.digest = (n + 1) * 2 * Span + (k + 1)
          /\ e.id = IF more[k + 1].kind = "activated" /\ first THEN (n + 1) * 2 * Span
                    ELSE IF more[k + 1].kind = "activated" THEN (n + 1) * 2 * Span + Span
                    ELSE (n + 1) * 2 * Span + (k + 1)
          /\ e.kind = EventKindOf(more[k + 1].kind) /\ e.state = TransitionState(more[k + 1].kind)
      BY <1>1 DEF EventAt
    <2> HIDE DEF e
    <2>4. e.at \in Nat /\ e.id \in Nat /\ e.digest \in Nat
      BY <1>0, <1>2, <2>3 DEF Span
    <2>5. ASSUME NEW x \in events
          PROVE  /\ x.at < e.at /\ x.id # e.id /\ x.digest # e.digest
      <3>1. /\ x.at \in 0..(n * Span + Span - 1)
            /\ x.id \in 0..(n * 2 * Span + 2 * Span - 1)
            /\ x.digest \in 0..(n * 2 * Span + 2 * Span - 1)
        BY DEF Below
      <3> QED
        BY <1>0, <1>2, <2>3, <3>1 DEF Span
    <2>6. ASSUME NEW i, i \in Had
          PROVE  LET x == EventAt(longer, n + 1, i)
                 IN EventBefore(x, e) /\ x.id # e.id /\ x.digest # e.digest
      <3>0. i \in 1..k /\ EventKindOf(more[i].kind) # ""
        BY <2>6
      <3>1. /\ i \in 1..(k + 1) /\ i < k + 1 /\ i \in 1..((k + 1) - 1) /\ i \in Nat /\ i # 0
            /\ k + 1 \in 1..(k + 1) /\ k + 1 \in Nat /\ k + 1 <= 18
        BY <3>0, InPrefix
      <3>2. more[k + 1].kind # "activated"
        <4>1. more[i].kind \notin Preludes \ {"activated"}
          BY <1>2, <3>0, <3>1, Eventful
        <4>2. more[k + 1].kind = "activated" =>
                 \A j \in 1..((k + 1) - 1) : more[j].kind \in Preludes \ {"activated"}
          BY <1>1, <3>1 DEF Timed, OneMore
        <4> QED
          BY <3>1, <4>1, <4>2
      <3>3. more[i].kind = "activated" /\ ~ first => more[i].at # more[k + 1].at
        BY <1>1, <3>1 DEF Untroubled, TieBehind, longer
      <3>4. more[i].at \in Nat /\ more[k + 1].at \in Nat /\ more[i].at <= more[k + 1].at
        BY <1>2, <3>1
      <3>5. /\ longer.records[i].at \in Nat /\ longer.records[k + 1].at \in Nat
            /\ longer.records[i].at <= longer.records[k + 1].at
            /\ longer.records[k + 1].kind # "activated"
            /\ longer.records[i].kind = "activated" /\ ~ longer.first =>
                  longer.records[i].at # longer.records[k + 1].at
        BY <1>1, <3>2, <3>3, <3>4
      <3>6. n + 1 \in Nat
        OBVIOUS
      <3> QED
        BY <3>1, <3>5, <3>6, EventOrder DEF e
    <2>7. ASSUME NEW x \in old
          PROVE  EventBefore(x, e) /\ x.id # e.id /\ x.digest # e.digest
      <3>1. CASE x \in events
        BY <2>5, <3>1 DEF EventBefore
      <3>2. CASE x \in RunEvents(run, n + 1)
        BY <1>4, <2>6, <3>2
      <3> QED
        BY <3>1, <3>2
    <2>8. Below(old, n + 1)
      BY DEF run
    <2>9. Below(old \cup {e}, n + 1)
      <3>1. IsFiniteSet(old \cup {e})
        BY <2>8, FS_AddElement DEF Below
      <3>2. Distinct(old \cup {e})
        BY <2>7, <2>8 DEF Below, Distinct
      <3>3. /\ e.at \in 0..((n + 1) * Span + Span - 1)
            /\ e.id \in 0..((n + 1) * 2 * Span + 2 * Span - 1)
            /\ e.digest \in 0..((n + 1) * 2 * Span + 2 * Span - 1)
        BY <1>0, <1>2, <2>3 DEF Span
      <3> QED
        BY <2>8, <3>1, <3>2, <3>3 DEF Below
    <2>10. Dated(old \cup {e}) /\ IsFiniteSet(old) /\ Distinct(old \cup {e})
      BY <2>4, <2>8, <2>9 DEF Below, Dated
    <2> HIDE DEF old
    <2>11. ReduceVerified(old \cup {e}) = ReducerStep(ReduceVerified(old), e)
      BY <2>7, <2>10, ReduceLast
    <2>12. ReducerStep(ReduceVerified(old), e) = Fed(ReduceVerified(old), more[k + 1].kind)
      BY <1>7, <2>3, StepOfEvent DEF Fed
    <2>13. /\ Below(next, n + 1)
           /\ ReduceVerified(next) = Fed(ReduceVerified(old), more[k + 1].kind)
      BY <2>2, <2>9, <2>11, <2>12
    <2> QED
      BY <2>13 DEF old, run, longer, OneMoreFed
  <1> QED
    BY <1>6, <1>7

\* Before the activation a run has read preludes only.
LEMMA NotActivated ==
    ASSUME Consistent, "activated" \notin done
    PROVE  done \subseteq Preludes \ {"activated"}
  <1>1. \A k \in ExecutionKinds : k \notin done
    BY DEF Consistent, InSequence
  <1>2. \A k \in EffectKinds : k \notin done
    BY <1>1 DEF Consistent, InSequence, EffectKinds, ExecutionKinds, ExecutionEnds
  <1>3. \A k \in ContainmentKinds : k \notin done
    BY <1>2 DEF Consistent, InSequence, ContainmentKinds, ContainmentEnds, EffectKinds
  <1>4. \A k \in CompensationKinds : k \notin done
    BY <1>1 DEF Consistent, InSequence, CompensationKinds, ExecutionKinds
  <1> QED
    BY <1>1, <1>2, <1>3, <1>4 DEF Consistent, InSequence, RecordKinds

(* A record that is read is of a new kind, and the last one in time.       *)
LEMMA OrderedStep ==
    ASSUME Ordered, Consistent, NEW r, r.kind \in RecordKinds, Accept(r)
    PROVE  /\ Ordered' /\ Len(accepted) \in 0..17
           /\ OneMore(accepted, accepted', Len(accepted))
           /\ accepted'[Len(accepted) + 1].kind = r.kind
  <1> DEFINE S == {accepted[i] : i \in DOMAIN accepted}
             k == Len(accepted)
             more == accepted'
  <1>1. PICK x : /\ more = Append(accepted, x) /\ x.kind = r.kind
                 /\ x.at = IF accepted = <<>> THEN 1
                           ELSE accepted[k].at + (IF r.tie THEN 0 ELSE 1)
    BY DEF Accept
  <1>2. /\ accepted \in Seq(S) /\ k \in Nat /\ DOMAIN accepted = 1..k
        /\ (k = 0 => accepted = <<>>)
    BY DEF Ordered
  <1>3. /\ more \in Seq(S \cup {x}) /\ Len(more) = k + 1 /\ DOMAIN more = 1..(k + 1)
        /\ \A i \in 1..k : more[i] = accepted[i]
        /\ more[k + 1] = x
    <2>1. accepted \in Seq(S \cup {x})
      BY <1>2
    <2> QED
      BY <1>1, <1>2, <2>1, AppendProperties
  <1>4. r.kind \notin done /\ done' = done \cup {r.kind} /\ verdict' = "reading"
    BY DEF Accept, InOrder
  <1>5. done \subseteq RecordKinds
    BY DEF Consistent, InSequence
  <1>6. k \in 0..17 /\ Cardinality(done') = k + 1
    <2>1. IsFiniteSet(done)
      BY <1>5, KindsAreFew, FS_Subset
    <2>2. Cardinality(done') = k + 1
      <3>1. Cardinality(done) = k
        BY DEF Ordered
      <3>2. Cardinality(done \cup {r.kind}) = Cardinality(done) + 1
        BY <1>4, <2>1, FS_AddElement
      <3> QED
        BY <1>4, <3>1, <3>2
    <2>3. done' \subseteq RecordKinds
      BY <1>4, <1>5
    <2>4. Cardinality(done') <= Cardinality(RecordKinds) /\ Cardinality(RecordKinds) \in Nat
      BY <2>3, KindsAreFew, FS_Subset, FS_CardinalityType
    <2>5. Cardinality(RecordKinds) <= 18
      BY KindsAreFew
    <2> HIDE DEF k, more, S
    <2>6. Cardinality(done') <= 18
      BY <2>4, <2>5, <1>2, <2>2
    <2> QED
      BY <1>2, <2>2, <2>6
  <1>7. /\ Timed(accepted)
        /\ \A i \in 1..k : accepted[i].kind \in done
        /\ \A i \in 1..k : accepted[i].kind \in RecordKinds
    BY <1>2, <1>5 DEF Ordered
  <1>8. /\ \A i \in 1..k : /\ accepted[i].at \in 1..i
                           /\ \A j \in 1..i : accepted[j].at <= accepted[i].at
        /\ \A i \in 1..k : accepted[i].kind = "activated" =>
              \A j \in 1..(i - 1) : accepted[j].kind \in Preludes \ {"activated"}
    BY <1>2, <1>7 DEF Timed
  <1>9. more \in Seq({more[i] : i \in DOMAIN more})
    BY <1>3
  <1>10. done' = {more[i].kind : i \in DOMAIN more}
    <2>1. done = {accepted[i].kind : i \in 1..k}
      BY <1>2 DEF Ordered
    <2>2. \A i : i \in 1..(k + 1) <=> i \in 1..k \/ i = k + 1
      BY <1>2
    <2> HIDE DEF k, more
    <2> QED
      BY <1>1, <1>3, <1>4, <2>1, <2>2
  <1> HIDE DEF k, more, S
  <1>11. x.at \in 1..(k + 1) /\ \A j \in 1..k : accepted[j].at <= x.at
    <2>1. CASE k = 0
      BY <1>1, <1>2, <2>1
    <2>2. CASE k # 0
      <3>1. k \in 1..k /\ accepted # <<>>
        BY <1>2, <2>2 DEF k
      <3>2. accepted[k].at \in 1..k /\ \A j \in 1..k : accepted[j].at <= accepted[k].at
        BY <1>8, <3>1
      <3>3. \A j \in 1..k : accepted[j].at \in 1..j
        BY <1>8
      <3>4. x.at = accepted[k].at \/ x.at = accepted[k].at + 1
        BY <1>1, <3>1, <3>2
      <3> QED
        BY <1>2, <3>2, <3>3, <3>4
    <2> QED
      BY <2>1, <2>2
  <1>12. x.kind = "activated" => \A j \in 1..k : accepted[j].kind \in Preludes \ {"activated"}
    BY <1>1, <1>4, <1>7, NotActivated
  <1>13. Timed(more)
    <2>1. ASSUME NEW i \in 1..(k + 1)
          PROVE  /\ more[i].at \in 1..i
                 /\ \A j \in 1..i : more[j].at <= more[i].at
                 /\ more[i].kind = "activated" =>
                       \A j \in 1..(i - 1) : more[j].kind \in Preludes \ {"activated"}
      <3>1. CASE i \in 1..k
        <4>1. \A j \in 1..i : j \in 1..k
          BY <1>2, <3>1
        <4>2. \A j \in 1..(i - 1) : j \in 1..k
          BY <1>2, <3>1
        <4> QED
          BY <1>3, <1>8, <3>1, <4>1, <4>2
      <3>2. CASE i = k + 1
        <4>1. \A j \in 1..i : j \in 1..k \/ j = k + 1
          BY <1>2, <3>2
        <4>2. \A j \in 1..(i - 1) : j \in 1..k
          BY <1>2, <3>2
        <4>3. x.at \in Nat
          BY <1>11
        <4>4. x.at <= x.at
          BY <4>3
        <4> QED
          BY <1>3, <1>11, <1>12, <3>2, <4>1, <4>2, <4>4
      <3> QED
        BY <1>2, <3>1, <3>2
    <2> QED
      BY <1>3, <2>1 DEF Timed
  <1>14. \A i \in 1..(k + 1) : more[i].kind \in RecordKinds
    BY <1>1, <1>2, <1>3, <1>7
  <1>15. OneMore(accepted, more, k)
    BY <1>2, <1>3, <1>13, <1>14 DEF OneMore, SameStart
  <1>16. Ordered'
    BY <1>3, <1>4, <1>6, <1>9, <1>10, <1>13 DEF Ordered, more
  <1> QED
    BY <1>1, <1>3, <1>6, <1>15, <1>16 DEF k, more

\* A pack that is not being read has no record.
LEMMA OrderedNone ==
    ASSUME accepted' = <<>>, done' = {}
    PROVE  Ordered'
  <1>1. IsFiniteSet({}) /\ Cardinality({}) = 0
    BY FS_EmptySet
  <1>2. DOMAIN accepted' = {}
    OBVIOUS
  <1>3. Timed(accepted')
    BY <1>2 DEF Timed
  <1>4. done' = {accepted'[i].kind : i \in DOMAIN accepted'}
    BY <1>2
  <1>5. Len(accepted') = 0 /\ accepted' \in Seq({accepted'[i] : i \in DOMAIN accepted'})
    OBVIOUS
  <1> QED
    BY <1>1, <1>3, <1>4, <1>5 DEF Ordered

\* Nor has it events.
LEMMA NoRecords ==
    ASSUME NEW first, NEW n
    PROVE  RunEvents(RunOf(<<>>, first), n) = {} /\ Untroubled(RunOf(<<>>, first))
  <1>1. RunOf(<<>>, first).records = <<>> /\ DOMAIN <<>> = {}
    BY DEF RunOf
  <1> QED
    BY <1>1 DEF RunEvents, Untroubled, TieBehind

\* A pack read so far is not hit by what does not hit it whole.
LEMMA UntroubledBefore ==
    ASSUME NEW records, NEW more, NEW k \in Nat, OneMore(records, more, k),
           NEW first, Untroubled(RunOf(more, first))
    PROVE  Untroubled(RunOf(records, first))
  <1>1. /\ RunOf(records, first).records = records /\ RunOf(records, first).first = first
        /\ RunOf(more, first).records = more /\ RunOf(more, first).first = first
    BY DEF RunOf
  <1>2. /\ DOMAIN records = 1..k /\ DOMAIN more = 1..(k + 1)
        /\ \A i \in 1..k : more[i] = records[i]
    BY DEF OneMore, SameStart
  <1>3. \A i \in 1..k : i \in 1..(k + 1)
    OBVIOUS
  <1>4. ~ TieBehind(RunOf(records, first))
    BY <1>1, <1>2, <1>3 DEF Untroubled, TieBehind
  <1> QED
    BY <1>1, <1>2, <1>3, <1>4 DEF Untroubled

\* The events of a run are those of its records.
LEMMA EventsOfRun ==
    ASSUME NEW run, NEW n
    PROVE  RunEvents(run, n) = RunEvents(RunOf(run.records, run.first), n)
  <1>1. /\ RunOf(run.records, run.first).records = run.records
        /\ RunOf(run.records, run.first).first = run.first
    BY DEF RunOf
  <1> QED
    BY <1>1 DEF RunEvents, EventAt, ApprovalEvent

\* The packet of a contract that one more run was translated for.
LEMMA OneMoreRun ==
    ASSUME HistoryInv, NEW run, runs' = Append(runs, run)
    PROVE  /\ Len(runs) \in Nat /\ Len(runs') = Len(runs) + 1
           /\ DOMAIN runs = 1..Len(runs) /\ DOMAIN runs' = 1..(Len(runs) + 1)
           /\ \A n \in DOMAIN runs : runs'[n] = runs[n] /\ n \in DOMAIN runs'
           /\ runs'[Len(runs) + 1] = run
           /\ EventsFromPacket' = EventsFromPacket \cup RunEvents(run, Len(runs) + 1)
  <1> DEFINE S == {runs[n] : n \in DOMAIN runs} \cup {run}
             m == Len(runs)
  <1>1. runs \in Seq(S)
    BY DEF HistoryInv
  <1>2. /\ runs' \in Seq(S) /\ Len(runs') = m + 1 /\ m \in Nat
        /\ DOMAIN runs = 1..m /\ DOMAIN runs' = 1..(m + 1)
        /\ \A n \in 1..m : runs'[n] = runs[n]
        /\ runs'[m + 1] = run
    BY <1>1, AppendProperties
  <1> HIDE DEF S, m
  <1>3. \A n : n \in 1..(m + 1) <=> n \in 1..m \/ n = m + 1
    BY <1>2
  <1>4. EventsFromPacket' = EventsFromPacket \cup RunEvents(run, m + 1)
    <2>1. EventsFromPacket = {ProposalEvent} \cup (UNION {RunEvents(runs[n], n) : n \in 1..m})
      BY <1>2 DEF EventsFromPacket
    <2>2. EventsFromPacket'
             = {ProposalEvent} \cup (UNION {RunEvents(runs'[n], n) : n \in 1..(m + 1)})
      BY <1>2 DEF EventsFromPacket
    <2>3. \A n \in 1..m : RunEvents(runs'[n], n) = RunEvents(runs[n], n)
      BY <1>2
    <2>4. UNION {RunEvents(runs'[n], n) : n \in 1..(m + 1)}
             = (UNION {RunEvents(runs[n], n) : n \in 1..m}) \cup RunEvents(run, m + 1)
      BY <1>2, <1>3, <2>3
    <2> QED
      BY <2>1, <2>2, <2>4
  <1> QED
    BY <1>2, <1>3, <1>4 DEF m

\* The claim of TimelineInv for the runs of the chain, and for the pack.
RunsTold == /\ Below(EventsFromPacket, Len(runs)) /\ ProjectTimeline = settled

PackTold(first) ==
    LET events == EventsFromPacket \cup RunEvents(Pack(first), Len(runs) + 1)
    IN  Below(events, Len(runs) + 1) /\ ReduceVerified(events) = replay

RunsUntroubled == \A n \in DOMAIN runs : Untroubled(runs[n])

LEMMA TimelineParts ==
    TimelineInv <=> /\ Ordered
                    /\ RunsUntroubled =>
                          /\ RunsTold
                          /\ \A first \in BOOLEAN : Untroubled(Pack(first)) => PackTold(first)
  BY DEF TimelineInv, RunsTold, PackTold, RunsUntroubled

\* Events below a run's are below the next one's.
LEMMA BelowNext ==
    ASSUME NEW n \in Nat, NEW events, Below(events, n)
    PROVE  Below(events, n + 1)
  <1>1. ASSUME NEW e \in events
        PROVE  /\ e.at \in 0..((n + 1) * Span + Span - 1)
               /\ e.id \in 0..((n + 1) * 2 * Span + 2 * Span - 1)
               /\ e.digest \in 0..((n + 1) * 2 * Span + 2 * Span - 1)
    <2>1. /\ e.at \in 0..(n * Span + Span - 1)
          /\ e.id \in 0..(n * 2 * Span + 2 * Span - 1)
          /\ e.digest \in 0..(n * 2 * Span + 2 * Span - 1)
      BY DEF Below
    <2> QED
      BY <2>1 DEF Span
  <1> QED
    BY <1>1 DEF Below

NothingRead == accepted = <<>> /\ replay = settled

\* Without a pack being read, the packet is that of the runs.
LEMMA NoPack ==
    HistoryInv /\ RunsTold /\ NothingRead =>
        \A first \in BOOLEAN : PackTold(first)
  <1> SUFFICES ASSUME HistoryInv, RunsTold, accepted = <<>>, replay = settled,
                      NEW first \in BOOLEAN
               PROVE  PackTold(first)
    BY DEF NothingRead
  <1>1. RunEvents(Pack(first), Len(runs) + 1) = {}
    BY NoRecords DEF Pack
  <1>2. Len(runs) \in Nat
    BY DEF HistoryInv
  <1>3. Below(EventsFromPacket, Len(runs) + 1)
    BY <1>2, BelowNext DEF RunsTold
  <1>4. EventsFromPacket \cup {} = EventsFromPacket
    OBVIOUS
  <1> QED
    BY <1>1, <1>3, <1>4 DEF PackTold, RunsTold, ProjectTimeline

LEMMA InitTimeline == ReplayInit => TimelineInv
  <1> SUFFICES ASSUME ReplayInit PROVE TimelineInv
    OBVIOUS
  <1>1. /\ runs = <<>> /\ accepted = <<>> /\ done = {} /\ replay = settled
        /\ settled = ReducerStep(Fresh, ProposalEvent)
    BY DEF ReplayInit, GaitInit
  <1>2. HistoryInv
    BY InitHistory
  <1>3. EventsFromPacket = {ProposalEvent} /\ Len(runs) = 0
    BY <1>1 DEF EventsFromPacket
  <1>4. RunsTold
    BY <1>1, <1>3, ReduceProposal DEF RunsTold, ProjectTimeline
  <1>5. Ordered
    <2>1. IsFiniteSet({}) /\ Cardinality({}) = 0
      BY FS_EmptySet
    <2>2. DOMAIN accepted = {} /\ Len(accepted) = 0
      BY <1>1
    <2>3. Timed(accepted)
      BY <2>2 DEF Timed
    <2>4. done = {accepted[i].kind : i \in DOMAIN accepted}
      BY <1>1, <2>2
    <2>5. accepted \in Seq({accepted[i] : i \in DOMAIN accepted})
      BY <1>1
    <2> QED
      BY <1>1, <2>1, <2>2, <2>3, <2>4, <2>5 DEF Ordered
  <1> QED
    BY <1>1, <1>2, <1>4, <1>5, NoPack, TimelineParts DEF NothingRead

\* The runs of the chain stay as they were.
LEMMA SameRuns ==
    ASSUME UNCHANGED <<runs, settled>>
    PROVE  /\ EventsFromPacket' = EventsFromPacket /\ ProjectTimeline' = ProjectTimeline
           /\ (RunsUntroubled' <=> RunsUntroubled) /\ (RunsTold' <=> RunsTold)
  BY DEF EventsFromPacket, ProjectTimeline, RunsUntroubled, RunsTold

\* Between two packs.
LEMMA NoneRead ==
    ASSUME HistoryInv', Ordered', NothingRead', RunsUntroubled' => RunsTold'
    PROVE  TimelineInv'
  <1>1. RunsTold' => (\A first \in BOOLEAN : PackTold(first))'
    BY NoPack, PTL
  <1>2. RunsUntroubled' => /\ RunsTold'
                           /\ (\A first \in BOOLEAN : Untroubled(Pack(first)) => PackTold(first))'
    BY <1>1
  <1> QED
    BY <1>2, TimelineParts, PTL

\* A pack begins, or is refused.
LEMMA TimelineNoPack ==
    ASSUME TimelineInv, HistoryInv', UNCHANGED <<runs, settled>>, replay' = settled,
           accepted' = <<>>, done' = {}
    PROVE  TimelineInv'
  <1>1. Ordered'
    BY OrderedNone
  <1>2. RunsUntroubled' => RunsTold'
    BY SameRuns, TimelineParts
  <1>3. NothingRead'
    BY DEF NothingRead
  <1> QED
    BY <1>1, <1>2, <1>3, NoneRead

\* A record is read: the reducer replays its event last.
LEMMA TimelineRead ==
    ASSUME TimelineInv, HistoryInv, NEW r, r.kind \in RecordKinds, Accept(r),
           replay' = Fed(replay, r.kind), UNCHANGED <<runs, settled>>
    PROVE  TimelineInv'
  <1> DEFINE n == Len(runs)
             k == Len(accepted)
             more == accepted'
  <1>1. /\ Ordered' /\ k \in 0..17 /\ OneMore(accepted, more, k) /\ more[k + 1].kind = r.kind
    <2>1. Ordered /\ Consistent
      BY TimelineParts DEF HistoryInv
    <2> QED
      BY <2>1, OrderedStep
  <1>2. RunsUntroubled' => RunsTold'
    BY SameRuns, TimelineParts
  <1>3. ASSUME RunsUntroubled', NEW first \in BOOLEAN, Untroubled(RunOf(more, first))
        PROVE  /\ Below(EventsFromPacket \cup RunEvents(RunOf(more, first), n + 1), n + 1)
               /\ ReduceVerified(EventsFromPacket \cup RunEvents(RunOf(more, first), n + 1))
                    = Fed(replay, r.kind)
    <2>1. k \in Nat
      BY <1>1
    <2>2. Untroubled(RunOf(accepted, first))
      BY <1>1, <1>3, <2>1, UntroubledBefore
    <2>3. RunsTold /\ PackTold(first)
      BY <1>3, <2>2, SameRuns, TimelineParts DEF Pack
    <2>4. /\ Below(EventsFromPacket, n)
          /\ Below(EventsFromPacket \cup RunEvents(RunOf(accepted, first), n + 1), n + 1)
          /\ ReduceVerified(EventsFromPacket \cup RunEvents(RunOf(accepted, first), n + 1))
               = replay
      BY <2>3 DEF RunsTold, PackTold, Pack
    <2>5. n \in Nat
      BY DEF HistoryInv
    <2> HIDE DEF n, k, more
    <2>6. /\ Below(EventsFromPacket \cup RunEvents(RunOf(more, first), n + 1), n + 1)
          /\ ReduceVerified(EventsFromPacket \cup RunEvents(RunOf(more, first), n + 1))
               = Fed(ReduceVerified(EventsFromPacket
                                      \cup RunEvents(RunOf(accepted, first), n + 1)),
                     more[k + 1].kind)
      <3>1. OneMoreRead(EventsFromPacket, n, k, accepted, more, first)
        BY <1>1, <1>3, <2>4, <2>5 DEF OneMoreRead
      <3>2. OneMoreFed(EventsFromPacket, n, k, accepted, more, first)
        BY <3>1, NextEvent
      <3> QED
        BY <3>2 DEF OneMoreFed
    <2> QED
      BY <1>1, <2>4, <2>6
  <1>4. ASSUME RunsUntroubled', NEW first \in BOOLEAN, Untroubled(Pack(first))'
        PROVE  PackTold(first)'
    <2>1. Pack(first)' = RunOf(more, first)
      BY DEF Pack
    <2>2. Untroubled(RunOf(more, first))
      BY <1>4, <2>1 DEF Untroubled, TieBehind
    <2>3. /\ EventsFromPacket' = EventsFromPacket /\ Len(runs)' = n
          /\ RunEvents(Pack(first), Len(runs) + 1)' = RunEvents(RunOf(more, first), n + 1)
      BY <2>1, SameRuns DEF RunEvents, EventAt, ApprovalEvent
    <2> QED
      BY <1>3, <1>4, <2>2, <2>3 DEF PackTold
  <1>5. RunsUntroubled' => /\ RunsTold'
                           /\ (\A first \in BOOLEAN : Untroubled(Pack(first)) => PackTold(first))'
    BY <1>2, <1>4
  <1> QED
    BY <1>1, <1>5, TimelineParts, PTL

\* The pack becomes the last run of the chain, with its events.
LEMMA TimelineTranslate ==
    ASSUME TimelineInv, HistoryInv, HistoryInv', Translate
    PROVE  TimelineInv'
  <1>1. /\ settled' = replay /\ replay' = replay /\ accepted' = <<>> /\ done' = {}
    BY DEF Translate, Leave
  <1>2. PICK own \in BOOLEAN : runs' = Append(runs, [records |-> accepted, done |-> done,
                                                       needs |-> needs, first |-> own])
    BY DEF Translate
  <1> DEFINE run == [records |-> accepted, done |-> done, needs |-> needs, first |-> own]
             n == Len(runs)
  <1>3. run.records = accepted /\ run.first = own /\ runs' = Append(runs, run)
    BY <1>2
  <1> HIDE DEF run
  <1>4. /\ n \in Nat /\ Len(runs') = n + 1
        /\ \A m \in DOMAIN runs : runs'[m] = runs[m] /\ m \in DOMAIN runs'
        /\ n + 1 \in DOMAIN runs' /\ runs'[n + 1] = run
        /\ EventsFromPacket' = EventsFromPacket \cup RunEvents(run, n + 1)
    BY <1>3, OneMoreRun
  <1>5. RunEvents(run, n + 1) = RunEvents(Pack(own), n + 1)
    BY <1>3, EventsOfRun DEF Pack
  <1>6. /\ Pack(own).records = accepted /\ Pack(own).first = own
    BY DEF Pack, RunOf
  <1>7. ASSUME RunsUntroubled'
        PROVE  RunsUntroubled /\ Untroubled(Pack(own))
    <2>1. \A m \in DOMAIN runs' : Untroubled(runs'[m])
      BY <1>7 DEF RunsUntroubled, Untroubled, TieBehind
    <2>2. Untroubled(run)
      BY <1>4, <2>1
    <2>3. RunsUntroubled
      BY <1>4, <2>1 DEF RunsUntroubled
    <2> QED
      BY <1>3, <1>6, <2>2, <2>3 DEF Untroubled, TieBehind
  <1>8. ASSUME RunsUntroubled'
        PROVE  RunsTold'
    <2>1. PackTold(own)
      BY <1>7, <1>8, TimelineParts
    <2>2. /\ Below(EventsFromPacket', n + 1) /\ ReduceVerified(EventsFromPacket') = replay
      BY <1>4, <1>5, <2>1 DEF PackTold
    <2>3. Below(EventsFromPacket', Len(runs')) /\ ReduceVerified(EventsFromPacket') = settled'
      BY <1>1, <1>4, <2>2
    <2> QED
      BY <2>3 DEF RunsTold, ProjectTimeline, Below, ReduceVerified, Distinct
  <1>9. NothingRead' /\ Ordered'
    BY <1>1, OrderedNone DEF NothingRead
  <1> QED
    BY <1>8, <1>9, NoneRead

\* The pack read so far is kept.
LEMMA TimelineStays ==
    ASSUME TimelineInv, UNCHANGED <<done, accepted, runs, settled, replay>>,
           verdict' \in {"idle", "refused"} => accepted = <<>>
    PROVE  TimelineInv'
  <1>1. Ordered'
    BY TimelineParts DEF Ordered, Timed
  <1>2. RunsUntroubled' => RunsTold'
    BY SameRuns, TimelineParts
  <1>3. ASSUME NEW first \in BOOLEAN
        PROVE  /\ Untroubled(Pack(first))' <=> Untroubled(Pack(first))
               /\ PackTold(first)' <=> PackTold(first)
    <2>1. Pack(first)' = Pack(first)
      BY DEF Pack, RunOf
    <2> QED
      BY <2>1, SameRuns DEF PackTold, Pack, RunOf, Untroubled, TieBehind
  <1>4. RunsUntroubled' => /\ RunsTold'
                           /\ (\A first \in BOOLEAN : Untroubled(Pack(first)) => PackTold(first))'
    BY <1>2, <1>3, SameRuns, TimelineParts
  <1> QED
    BY <1>1, <1>4, TimelineParts, PTL

LEMMA NextTimeline ==
    TimelineInv /\ HistoryInv /\ HistoryInv' /\ [ReplayNext]_replayVars => TimelineInv'
  <1> SUFFICES ASSUME TimelineInv, HistoryInv, HistoryInv', [ReplayNext]_replayVars
               PROVE  TimelineInv'
    OBVIOUS
  <1>1. CASE NextPack
    <2>1. /\ verdict \in {"idle", "refused"} /\ UNCHANGED <<done, accepted, runs, settled>>
          /\ replay' = settled
      BY <1>1 DEF NextPack, Begin
    <2>2. accepted = <<>> /\ done = {}
      BY <2>1, TimelineParts DEF Ordered, HistoryInv
    <2> QED
      BY <2>1, <2>2, TimelineNoPack
  <1>2. CASE Read(ReadPrelude) \/ Read(ReadExecution) \/ Read(ReadEffect)
             \/ Read(ReadContainment) \/ Read(ReadCompensation)
    <2>1. PICK r \in Candidates :
             /\ \/ ReadPrelude(r) \/ ReadExecution(r) \/ ReadEffect(r)
                \/ ReadContainment(r) \/ ReadCompensation(r)
             /\ replay' = Fed(replay, r.kind)
             /\ UNCHANGED <<runs, settled>>
      BY <1>2 DEF Read
    <2>2. Accept(r) /\ r.kind \in RecordKinds
      BY <2>1 DEF ReadPrelude, ReadExecution, ReadEffect, ReadContainment,
                  ReadCompensation, RecordKinds
    <2> QED
      BY <2>1, <2>2, TimelineRead
  <1>3. CASE RefusePack
    BY <1>3, TimelineNoPack DEF RefusePack, Refuse, Leave
  <1>4. CASE EndOfPack
    <2>1. CASE Ended
      BY <1>4, <2>1, TimelineStays DEF EndOfPack, Finish
    <2>2. CASE ~ Ended
      BY <1>4, <2>2, TimelineNoPack DEF EndOfPack, Finish, Leave
    <2> QED
      BY <2>1, <2>2
  <1>5. CASE RefuseFixture
    BY <1>5, TimelineNoPack DEF RefuseFixture, Leave
  <1>6. CASE Translate
    BY <1>6, TimelineTranslate
  <1>7. CASE UNCHANGED replayVars
    <2>1. UNCHANGED <<done, accepted, verdict, runs, settled, replay>>
      BY <1>7 DEF replayVars
    <2> QED
      BY <2>1, TimelineStays, TimelineParts DEF Ordered
  <1> QED
    BY <1>1, <1>2, <1>3, <1>4, <1>5, <1>6, <1>7 DEF ReplayNext

(* The timeline of a contract, which ReduceVerified rebuilds from the      *)
(* events of its packet, sorted, tells the state the packs' records led    *)
(* the reducer to, for any packs and any number of runs: unless an         *)
(* activation is tied with the execution it sorts behind, or an approval   *)
(* is among the references.                                                *)
THEOREM TimelineAlwaysReplay == ReplaySpec => []TimelineIsReplay
  <1>1. TimelineInv => TimelineIsReplay
    BY DEF TimelineInv, TimelineIsReplay, Untroubled
  <1> QED
    BY <1>1, InitHistory, NextHistory, InitTimeline, NextTimeline, PTL DEF ReplaySpec
=============================================================================

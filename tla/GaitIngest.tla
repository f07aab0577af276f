----------------------------- MODULE GaitIngest -----------------------------
(***************************************************************************)
(* core/ingest/gait: `axym ingest --source gait` reads every pack it is    *)
(* given, verifies and translates all of them, and only then appends.      *)
(*                                                                         *)
(* An item of a pack is [type, id, key, links, state, bundle]: a passed    *)
(* through proof record, a native record, a lifecycle pack or a source     *)
(* artifact; the RecordID and the dedupe key of the record it becomes; the *)
(* RecordIDs it links to; what is wrong with it, if anything. The store is *)
(* the one EvidenceLog promises.                                           *)
(*                                                                         *)
(* A definition that no action or property uses is a faulty variant of the *)
(* one below it; the properties are run against it to see them violated.   *)
(***************************************************************************)
EXTENDS Naturals, Sequences, FiniteSets, SequencesExt

CONSTANTS
    Packs,      \* Packs[p]: what the path p holds: [form, items]
    Requests,   \* the sequences of paths a command may be given
    MaxCalls,   \* bound: commands
    MaxFaults   \* bound: appends that fail, cancellations and kills

ASSUME GaitIngestAssumption ==
    /\ \A p \in DOMAIN Packs : Packs[p].items \in Seq(ToSet(Packs[p].items))
    /\ \A req \in Requests : req \in Seq(DOMAIN Packs)
    /\ MaxCalls \in Nat /\ MaxFaults \in Nat

VARIABLES
    log,          \* the evidence store's log: translated records
    pc,           \* "idle", "staging", "appending"
    paths,        \* the paths still to be staged
    verifies,     \* lifecycle verification options were given
    correlation,  \* RecordIDs of the records an artifact may link to
    staged,       \* the records still to be appended
    result,       \* [appended, deduped, rejected]
    outcome,      \* how the last command ended
    request,      \* its paths
    before,       \* length of the log when it began
    calls, faults

vars == <<log, pc, paths, verifies, correlation, staged, result, outcome,
          request, before, calls, faults>>

NoResult == [appended |-> 0, deduped |-> 0, rejected |-> 0]

Ids(records) == {r.id : r \in ToSet(records)}
Keys(records) == {r.key : r \in ToSet(records)}

-----------------------------------------------------------------------------
(* pack.Read: the entries of a directory, a zip or a file by name, sorted  *)
(* into what they hold. One undecodable entry, or an authorization bundle  *)
(* that occurs twice, fails the pack; a JSON file of an unknown artifact   *)
(* type is skipped, but a pack of one such file, or a directory with       *)
(* nothing to ingest, is an error.                                         *)
Malformed(item) == item.state = "malformed"
Unsupported(item) == item.state = "unsupported"

Supported(item) == item.type # "other" /\ ~ Unsupported(item)

ParseSourceArtifact(item) ==
    CASE Malformed(item) -> "invalid"
      [] Unsupported(item) -> "skip"
      [] OTHER -> "artifact"

\* The items that were chosen, in their order: a recursive function, where
\* SelectSeq could not be proved about.
Selected(items, chosen) ==
    LET upTo[i \in 0..Len(items)] ==
            IF i = 0 THEN <<>>
            ELSE IF items[i] \in chosen THEN Append(upTo[i - 1], items[i])
            ELSE upTo[i - 1]
    IN  upTo[Len(items)]

OfType(items, type) == Selected(items, {item \in ToSet(items) : item.type = type})

Bundles(items) ==
    {i \in DOMAIN items : items[i].type = "artifact" /\ items[i].bundle # ""
                          /\ ParseSourceArtifact(items[i]) = "artifact"}

ValidateAuthorizationBundleIDs(items) ==
    \A i, j \in Bundles(items) : i # j => items[i].bundle # items[j].bundle

Readable(pack) ==
    /\ \A item \in ToSet(pack.items) : ~ Malformed(item)
    /\ ValidateAuthorizationBundleIDs(pack.items)
    /\ pack.form = "directory" =>
            \E item \in ToSet(pack.items) : item.type # "other"
    /\ pack.form = "file" =>
            \A item \in ToSet(pack.items) : Supported(item)

Artifacts(pack) ==
    Selected(pack.items, {item \in ToSet(pack.items) :
                            item.type = "artifact" /\ ParseSourceArtifact(item) = "artifact"})

ContainsLifecycle(pack) == OfType(pack.items, "lifecycle") # <<>>

(* What a record of the log keeps of the item it was translated from: an   *)
(* artifact's links are in its metadata, outside the dedupe key.           *)
Translated(item) == [id |-> item.id, key |-> item.key, type |-> item.type,
                     links |-> item.links, state |-> item.state]

TranslateNative(items) ==
    Selected(items, {item \in ToSet(items) : item.state # "untranslatable"})

TranslateLifecycles(items) ==
    Selected(items, {item \in ToSet(items) : item.state = "authoritative"})

(* ValidateSourceArtifactLinks, for the artifacts in order: each may link  *)
(* to the chain, to earlier packs, to its own pack's records and to the    *)
(* artifacts before it.                                                    *)
LinksResolve(artifacts, known) ==
    \A i \in DOMAIN artifacts :
        artifacts[i].links
            \subseteq known \cup Ids(SubSeq(artifacts, 1, i - 1))

Natives(pack) == TranslateNative(OfType(pack.items, "native"))
Lifecycles(pack) == TranslateLifecycles(OfType(pack.items, "lifecycle"))

(* Mutant: a pack's artifacts go before the records they link to.          *)
StageArtifactsFirst(pack) ==
    Artifacts(pack) \o OfType(pack.items, "proof") \o Natives(pack)
    \o Lifecycles(pack)

Stage(pack) ==
    OfType(pack.items, "proof") \o Natives(pack) \o Lifecycles(pack)
    \o Artifacts(pack)

(* Why a pack is refused as a whole, or "".                                *)
Refusal(pack, known) ==
    IF ~ Readable(pack) THEN "read failed"
    ELSE IF ContainsLifecycle(pack) /\ ~ verifies THEN "verification required"
    ELSE IF \E item \in ToSet(OfType(pack.items, "lifecycle")) : item.state = "refused"
         THEN "verification failed"
    ELSE IF ~ LinksResolve(Artifacts(pack),
                           known \cup Ids(OfType(pack.items, "proof")
                                          \o Natives(pack) \o Lifecycles(pack)))
         THEN "unverifiable links"
    ELSE ""

-----------------------------------------------------------------------------
Unstaged == UNCHANGED <<log, correlation, staged, result>>
Called == UNCHANGED <<request, before, calls, verifies>>

End(how) == /\ pc' = "idle" /\ outcome' = how
            /\ paths' = <<>> /\ staged' = <<>> /\ correlation' = {}

(* The command: lifecycle packs without options are refused before the     *)
(* store is opened, and so is one the preflight cannot verify. The packs   *)
(* are read again afterwards, and may have been written to in between.     *)
Preflight(req, options) ==
    \A i \in DOMAIN req :
        ContainsLifecycle(Packs[req[i]]) =>
            /\ options
            /\ Readable(Packs[req[i]])
            /\ \A item \in ToSet(OfType(Packs[req[i]].items, "lifecycle")) :
                    item.state # "refused"

Ingest(req, options) ==
    /\ pc = "idle" /\ calls < MaxCalls
    /\ calls' = calls + 1
    /\ request' = req /\ before' = Len(log) /\ verifies' = options
    /\ result' = NoResult
    /\ \/ ~ Preflight(req, options) /\ End("preflight")
       \/ /\ pc' = "staging" /\ outcome' = ""
          /\ paths' = req /\ staged' = <<>> /\ correlation' = Ids(log)
    /\ UNCHANGED <<log, faults>>

(* Mutant: each pack is appended before the next is read.                  *)
StagePackAppending ==
    /\ pc = "staging" /\ paths # <<>>
    /\ LET pack == Packs[Head(paths)] IN
       IF Refusal(pack, correlation) # ""
       THEN End(Refusal(pack, correlation)) /\ UNCHANGED <<log, result>>
       ELSE /\ log' = log \o [i \in DOMAIN Stage(pack) |->
                                Translated(Stage(pack)[i])]
            /\ correlation' = correlation \cup Ids(Stage(pack))
            /\ paths' = Tail(paths)
            /\ UNCHANGED <<pc, outcome, staged, result>>
    /\ Called /\ UNCHANGED faults

StagePack ==
    /\ pc = "staging" /\ paths # <<>>
    /\ LET pack == Packs[Head(paths)]
           rejected == Len(OfType(pack.items, "native")) - Len(Natives(pack))
       IN  IF Refusal(pack, correlation) # ""
           THEN End(Refusal(pack, correlation)) /\ UNCHANGED result
           ELSE /\ staged' = staged \o Stage(pack)
                /\ correlation' = correlation \cup Ids(Stage(pack))
                /\ paths' = Tail(paths)
                /\ result' = [result EXCEPT !.rejected = @ + rejected]
                /\ UNCHANGED <<pc, outcome>>
    /\ Called /\ UNCHANGED <<log, faults>>

Cancel == /\ pc = "staging" /\ paths # <<>> /\ faults < MaxFaults
          /\ End("canceled")
          /\ faults' = faults + 1
          /\ Called /\ UNCHANGED <<log, result>>

Staged == /\ pc = "staging" /\ paths = <<>>
          /\ pc' = "appending"
          /\ UNCHANGED <<paths, outcome, faults>> /\ Called /\ Unstaged

(* appendRecord. The store takes a lifecycle record only from this command *)
(* (AppendVerifiedLifecycle): one passed through has no receipt, and the   *)
(* command ends there.                                                     *)
Attested(item) == item.state # "unattested"

AppendRecord ==
    /\ pc = "appending" /\ staged # <<>>
    /\ Attested(Head(staged)) /\ Head(staged).key \notin Keys(log)
    /\ log' = Append(log, Translated(Head(staged)))
    /\ result' = [result EXCEPT !.appended = @ + 1]
    /\ staged' = Tail(staged)
    /\ UNCHANGED <<pc, paths, correlation, outcome, faults>> /\ Called

(* The registration of a lifecycle record that is in the chain looks for   *)
(* its RecordID.                                                           *)
DedupeRecord ==
    /\ pc = "appending" /\ staged # <<>>
    /\ Attested(Head(staged)) /\ Head(staged).key \in Keys(log)
    /\ Head(staged).type = "lifecycle" => Head(staged).id \in Ids(log)
    /\ result' = [result EXCEPT !.deduped = @ + 1]
    /\ staged' = Tail(staged)
    /\ UNCHANGED <<log, pc, paths, correlation, outcome, faults>> /\ Called

RefuseRecord ==
    /\ pc = "appending" /\ staged # <<>>
    /\ \/ ~ Attested(Head(staged))
       \/ /\ Head(staged).type = "lifecycle"
          /\ Head(staged).key \in Keys(log) /\ Head(staged).id \notin Ids(log)
    /\ End("append failed")
    /\ Called /\ UNCHANGED <<log, result, faults>>

(* Mutant: a failed append is skipped.                                     *)
FailAppendSkipping ==
    /\ pc = "appending" /\ staged # <<>> /\ faults < MaxFaults
    /\ staged' = Tail(staged)
    /\ faults' = faults + 1
    /\ UNCHANGED <<log, pc, paths, correlation, outcome, result>> /\ Called

(* An append that fails ends the command; its record may be in the chain.  *)
FailAppend ==
    /\ pc = "appending" /\ staged # <<>> /\ faults < MaxFaults
    /\ Attested(Head(staged)) /\ Head(staged).key \notin Keys(log)
    /\ log' \in {log, Append(log, Translated(Head(staged)))}
    /\ faults' = faults + 1
    /\ End("append failed")
    /\ Called /\ UNCHANGED result

Kill == /\ pc # "idle" /\ faults < MaxFaults
        /\ faults' = faults + 1
        /\ End("killed")
        /\ Called /\ UNCHANGED <<log, result>>

Done == /\ pc = "appending" /\ staged = <<>>
        /\ End("done")
        /\ Called /\ UNCHANGED <<log, result, faults>>

Init == /\ log = <<>> /\ pc = "idle" /\ paths = <<>> /\ verifies = FALSE
        /\ correlation = {} /\ staged = <<>> /\ result = NoResult
        /\ outcome = "" /\ request = <<>> /\ before = 0
        /\ calls = 0 /\ faults = 0

Next == \/ \E req \in Requests, options \in BOOLEAN : Ingest(req, options)
        \/ StagePack \/ Cancel \/ Staged
        \/ AppendRecord \/ DedupeRecord \/ RefuseRecord \/ FailAppend
        \/ Kill \/ Done

Spec == Init /\ [][Next]_vars

-----------------------------------------------------------------------------
TypeOK ==
    /\ pc \in {"idle", "staging", "appending"}
    /\ outcome \in {"", "preflight", "read failed", "verification required",
                    "verification failed", "unverifiable links", "canceled",
                    "append failed", "killed", "done"}
    /\ calls \in 0..MaxCalls /\ faults \in 0..MaxFaults
    /\ before \in 0..Len(log)

(* A command that fails on any of its packs has appended nothing of the    *)
(* others: only a failed append or a kill leaves a part of them.           *)
AllPacksOrNone ==
    outcome \in {"preflight", "read failed", "verification required",
                 "verification failed", "unverifiable links", "canceled"}
        => Len(log) = before

(* A command that succeeds has in the chain every passed through record,   *)
(* every translated native record, every authoritative lifecycle pack and  *)
(* every artifact it was given, and what it counts is what the chain grew  *)
(* by; a repeated command after a failed append completes it.              *)
DoneIsComplete ==
    outcome = "done" =>
        /\ result.appended = Len(log) - before
        /\ \A i \in DOMAIN request :
                Keys(Stage(Packs[request[i]])) \subseteq Keys(log)

(* What an artifact in the chain links to comes before it in the chain, or *)
(* is the repetition of a record that does: the store keeps the first. The *)
(* links of other records are not looked at.                               *)
KeyOf(id) == {item.key : item \in {x \in UNION {ToSet(Packs[p].items) :
                                                p \in DOMAIN Packs} :
                                        x.id = id}}

LinkedBefore ==
    \A n \in DOMAIN log : log[n].type = "artifact" => \A id \in log[n].links :
        \/ id \in Ids(SubSeq(log, 1, n - 1))
        \/ KeyOf(id) \cap Keys(SubSeq(log, 1, n - 1)) # {}
=============================================================================

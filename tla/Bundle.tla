------------------------------- MODULE Bundle -------------------------------
(***************************************************************************)
(* core/bundle: `axym bundle` assembles an audit bundle from a store that  *)
(* other commands go on writing, and replaces the output directory.        *)
(*                                                                         *)
(* Build takes no lock.  It reads the chain, reads it again to verify it,  *)
(* looks every lifecycle record up in the registry, reads the Action       *)
(* Contracts, the receipts of activations and the registry, each when its  *)
(* turn comes, so the copies may be of different times, and the chain may  *)
(* hold a record that a failing append is about to take back.  The bundle  *)
(* is written beside the output directory, signed, verified, and moved in  *)
(* its place: the old output is renamed away, the new one renamed into     *)
(* place, and the old one removed.                                         *)
(*                                                                         *)
(* The store is EvidenceStore, step by step.  One bundle command runs at a *)
(* time; it may fail or be killed at every step and be issued again.       *)
(* What is computed from records, redacted, signed or laid out stands for  *)
(* the records it was computed from.                                       *)
(* A definition that no action or property uses is a faulty variant of the *)
(* one below it; the properties are run against it to see them violated.   *)
(***************************************************************************)
EXTENDS EvidenceStore

CONSTANTS
    Stored,      \* the Action Contracts that may be there at first
    MaxVersion,  \* bound: times the activation is persisted
    MaxBuilds,   \* bound: bundle commands
    MaxFailures, \* bound: steps of theirs that fail
    MaxKills     \* bound: bundle commands that are killed

ASSUME BundleAssumption ==
    /\ Stored \subseteq [proposal : BOOLEAN, activation : 0..MaxVersion]
    /\ MaxVersion \in Nat /\ MaxBuilds \in Nat
    /\ MaxFailures \in Nat /\ MaxKills \in Nat

VARIABLES
    contracts, \* the Action Contracts of the store: is there a proposal, and
               \* how often the one activation was persisted
    bpc,       \* the next step of the bundle command
    staged,    \* what it has gathered, in memory and then in the staging directory
    checking,  \* the position of the record it looks up next
    was,       \* the output directory it found
    out,       \* the output directory
    backups,   \* directories that old outputs were renamed to
    last,      \* the output directory promoted last
    builds, failures, kills

builder == <<bpc, staged, checking, was>>
outputs == <<out, backups, last>>
bounds  == <<builds, failures, kills>>
bvars == <<vars, contracts, builder, outputs, bounds>>

\* A bundle by its parts: the chain, the state of the store that its chain
\* verification describes, the records that summaries, identity and derived
\* artifacts were computed from, the activation and its receipt, whether there
\* is a proposal and the records its register was computed from, and the
\* registry.  "owed" is no part of it: the appends answered before the build.
Blank == [chain |-> EmptyChain, checked |-> EmptyChain, summary |-> <<>>,
          envelope |-> 0, receipt |-> 0, proposal |-> FALSE,
          register |-> <<>>, registry |-> {}, owed |-> {}]

\* A directory by its entries: the marker of the safety package, and a bundle.
NoDir == <<>>
Marked == <<"marker">>
Whole(bundle) == <<"marker", bundle>>

\* Earlier commands may have left a bundle of the empty store, in place or, when
\* one failed or was killed within the promotion, in its backup.
BundleInit ==
    /\ Init
    /\ contracts \in Stored
    /\ bpc = "idle" /\ staged = Blank /\ checking = 1 /\ was = NoDir
    /\ \/ last \in {NoDir, Whole(Blank)} /\ out = last /\ backups = {}
       \/ last = Whole(Blank) /\ out = NoDir /\ backups = {last}
    /\ builds = 0 /\ failures = 0 /\ kills = 0

-----------------------------------------------------------------------------
(* The other commands: the appends of EvidenceStore, and an activation     *)
(* that is persisted, the files of which ActionContractStore keeps whole.  *)

StoreStep == Next /\ UNCHANGED <<contracts, builder, outputs, bounds>>

PersistActivation ==
    /\ contracts.activation < MaxVersion
    /\ contracts' = [contracts EXCEPT !.activation = @ + 1]
    /\ UNCHANGED <<vars, builder, outputs, bounds>>

-----------------------------------------------------------------------------
(* Gathering.                                                              *)

Continue(label, part) == bpc' = label /\ staged' = part

BuildFails == failures < MaxFailures /\ failures' = failures + 1

Fail == Continue("cleanup", Blank) /\ checking' = 1

\* The command is over and its memory and its staging directory are gone.
End == Continue("idle", Blank) /\ checking' = 1 /\ was' = NoDir

\* The deferred cleanup: the staging directory goes, and with it an output
\* directory that this command created.
CleanupAlways ==
    /\ bpc = "cleanup"
    /\ End
    /\ out' = NoDir
    /\ UNCHANGED <<vars, contracts, backups, last, bounds>>

Cleanup ==
    /\ bpc = "cleanup"
    /\ End
    /\ \/ /\ out' = IF was = NoDir THEN NoDir ELSE out
          /\ UNCHANGED failures
       \/ /\ was = NoDir /\ out # NoDir
          /\ BuildFails /\ UNCHANGED out
    /\ UNCHANGED <<vars, contracts, backups, last, builds, kills>>

\* The output directory is created and marked when it is not there; a staging
\* directory that cannot be created ends the command before the cleanup is due.
Start ==
    /\ bpc = "idle"
    /\ builds < MaxBuilds /\ builds' = builds + 1
    /\ out' = IF out = NoDir THEN Marked ELSE out
    /\ \/ /\ Continue("chain", [Blank EXCEPT !.owed = acks]) /\ was' = out
          /\ UNCHANGED failures
       \/ BuildFails /\ UNCHANGED <<bpc, staged, was>>
    /\ UNCHANGED <<vars, contracts, checking, backups, last, kills>>

Gather(label, next, part) ==
    /\ bpc = label
    /\ Continue(next, part)
    /\ UNCHANGED <<vars, contracts, was, outputs, bounds>>

\* LoadChain and cloneChain: the mutex it takes is its own process's.
SnapshotChain ==
    Gather("chain", "verify", [staged EXCEPT !.chain = chainFile]) /\ UNCHANGED checking

\* VerifyChainFromStoreDir reads the file again, and reports on what it reads.
VerifyChain ==
    /\ bpc = "verify"
    /\ IF Verified(chainFile)
       THEN Continue("provenance", [staged EXCEPT !.checked = chainFile])
            /\ UNCHANGED checking
       ELSE Fail
    /\ UNCHANGED <<vars, contracts, was, outputs, bounds>>

RegisteredByID(entry) == \E e \in registryFile : e.rec = entry.rec

\* VerifyRegisteredLifecycle: the registry, as it is now, has the very entry.
Registered(entry) == [rec |-> entry.rec, hash |-> Hash(entry)] \in registryFile

\* The lookup of one record, in either of the two passes over the snapshot.
LookUp(label, next, part) ==
    IF checking > Len(staged.chain.records)
    THEN Gather(label, next, part) /\ checking' = 1
    ELSE LET entry == staged.chain.records[checking] IN
         IF entry.rec \in Lifecycle /\ ~ Registered(entry)
         THEN Gather(label, "cleanup", Blank) /\ checking' = 1
         ELSE Gather(label, label, staged) /\ checking' = checking + 1

\* The first pass, and then all that is computed from the snapshot.
CheckProvenance ==
    LookUp("provenance", "contracts", [staged EXCEPT !.summary = staged.chain.records])

\* Without a proposal there is nothing to project.
AfterReceipt(proposal) == IF proposal THEN "govern" ELSE "registry"

\* LoadStored; the receipts it verified are not kept.
LoadContracts ==
    /\ Gather("contracts",
              IF contracts.activation = 0 THEN AfterReceipt(contracts.proposal) ELSE "receipt",
              [staged EXCEPT !.envelope = contracts.activation,
                             !.proposal = contracts.proposal])
    /\ UNCHANGED checking

ReadReceipt ==
    /\ Gather("receipt", AfterReceipt(staged.proposal),
              [staged EXCEPT !.receipt = contracts.activation])
    /\ UNCHANGED checking

\* addGovernanceArtifacts looks the lifecycle records up again before it
\* projects them.
Govern == LookUp("govern", "registry", [staged EXCEPT !.register = staged.chain.records])

\* The registry goes in as it is by now; then all artifacts and the manifest are
\* written, signed and verified, and a name for the backup is found.
ReadRegistry ==
    /\ Gather("registry", "moveAway", [staged EXCEPT !.registry = registryFile])
    /\ UNCHANGED checking

\* A read, a write, a schema or the request's frameworks fail.
GatherFails ==
    /\ bpc \in {"chain", "verify", "provenance", "contracts", "receipt",
                "govern", "registry", "moveAway"}
    /\ BuildFails
    /\ Fail
    /\ UNCHANGED <<vars, contracts, was, outputs, builds, kills>>

-----------------------------------------------------------------------------
(* Promoting.                                                              *)

MoveAwayRemoving ==
    /\ bpc = "moveAway"
    /\ bpc' = "promote"
    /\ out' = NoDir
    /\ UNCHANGED <<vars, contracts, staged, checking, was, backups, last, bounds>>

MoveAway ==
    /\ bpc = "moveAway"
    /\ bpc' = "promote"
    /\ backups' = backups \cup {out} /\ out' = NoDir
    /\ UNCHANGED <<vars, contracts, staged, checking, was, last, bounds>>

\* The old output, as Start left it.
Old == IF was = NoDir THEN Marked ELSE was

Promote ==
    /\ bpc = "promote"
    /\ out' = Whole(staged) /\ last' = Whole(staged)
    /\ bpc' = "discard"
    /\ UNCHANGED <<vars, contracts, staged, checking, was, backups, bounds>>

\* The old output is renamed back; when that fails too it stays away.
PromoteFails ==
    /\ bpc = "promote"
    /\ Fail
    /\ \/ /\ BuildFails
          /\ out' = Old /\ backups' = backups \ {Old}
       \/ /\ failures + 1 < MaxFailures /\ failures' = failures + 2
          /\ UNCHANGED <<out, backups>>
    /\ UNCHANGED <<vars, contracts, was, last, builds, kills>>

\* The old output is removed, the error of which is ignored.
Discard ==
    /\ bpc = "discard"
    /\ End
    /\ \/ backups' = backups \ {Old} /\ UNCHANGED failures
       \/ BuildFails /\ UNCHANGED backups
    /\ UNCHANGED <<vars, contracts, out, last, builds, kills>>

\* The command is killed.
Killed ==
    /\ bpc # "idle"
    /\ kills < MaxKills /\ kills' = kills + 1
    /\ End
    /\ UNCHANGED <<vars, contracts, outputs, builds, failures>>

BundleNext ==
    \/ StoreStep
    \/ PersistActivation
    \/ Start \/ SnapshotChain \/ VerifyChain \/ CheckProvenance
    \/ LoadContracts \/ ReadReceipt \/ Govern \/ ReadRegistry
    \/ GatherFails
    \/ MoveAway \/ Promote \/ PromoteFails \/ Discard \/ Cleanup
    \/ Killed

BundleSpec == BundleInit /\ [][BundleNext]_bvars

-----------------------------------------------------------------------------
(* core/verify/bundle: Verify on a bundle whose signatures are good.       *)

ProvenanceHolds(b) ==
    \A i \in DOMAIN b.chain.records :
        LET entry == b.chain.records[i] IN
        entry.rec \in Lifecycle => [rec |-> entry.rec, hash |-> Hash(entry)] \in b.registry

\* Summary, identity and derived artifacts are those of the bundle's own chain.
Recomputes(b) == b.summary = b.chain.records

\* LoadStored on the bundle, and the register, packets and timelines again.
GovernanceHolds(b) == /\ b.envelope = b.receipt
                      /\ b.proposal => b.register = b.chain.records

Accepted(b) == /\ Verified(b.chain)
               /\ ProvenanceHolds(b) /\ Recomputes(b) /\ GovernanceHolds(b)

Includes(chain, records) ==
    /\ Len(records) <= Len(chain.records)
    /\ \A i \in DOMAIN records : chain.records[i] = records[i]

AllButLast(records) == SubSeq(records, 1, Len(records) - 1)

Bundles == IF last = NoDir THEN {} ELSE {last[2]}

(* bundle.Build, verify.Verify: a bundle that was promoted is accepted by  *)
(* `axym verify --bundle`, however the reads of the build fell between the *)
(* writes of other commands, except when an activation was persisted again *)
(* within the build, or its last record's append was taken back.           *)
RefusedOnlyByRace ==
    \A b \in Bundles : \/ Accepted(b)
                       \/ b.envelope # b.receipt
                       \/ ~ Includes(chainFile, b.chain.records)

(* bundle.Build: a promoted bundle leaves out no append that was answered  *)
(* before the build began, and but for its last record, which a failing    *)
(* append may take back, it contains nothing that is not in the store, now *)
(* or when its chain verification was made.                                *)
BundleIsHistory ==
    \A b \in Bundles :
        /\ Keeps(b.chain, b.owed)
        /\ Includes(chainFile, AllButLast(b.chain.records))
        /\ Includes(b.checked, AllButLast(b.chain.records))

(* bundle.Build: the output directory never holds part of a bundle or an   *)
(* outdated one, and the bundle promoted last is in it or in a backup,     *)
(* through failed renames and kills.                                       *)
OutputWhole ==
    /\ out \in {NoDir, Marked, last}
    /\ last = NoDir \/ out = last \/ last \in backups

(* TestBundleFailurePreservesExistingManagedOutput: a command that fails   *)
(* after it has begun leaves the output directory as it found it, or, when *)
(* neither rename of the promotion works, its content in the backup.       *)
FailureKeepsOutput ==
    [][bpc = "cleanup" /\ bpc' = "idle"
       => out' = was \/ was \in backups' \/ (was = NoDir /\ out' = Marked)]_bvars

=============================================================================

# A TLA+ model of Axym

Axym collects evidence about AI systems, signs it, keeps it in a local
hash-linked chain and derives reviews and audit bundles from it. It is a command
line program: every command is a process of its own, several may run on one
store directory, and all state that outlives a command is in files.

This directory holds TLA+ modules that model its core, the TLC configurations
that check them on small instances, and proofs that TLAPS checks for every
instance. `PROJECT.json` maps every definition to the lines it models, names
the faulty variant that breaks each property, and lists the hazards the
properties are for.

    tlc -workers 2 -config store_one_process.cfg EvidenceStoreMC.tla
    tlapm EvidenceStoreProofs.tla

## 1. The system

| part | state | operations | calls |
|---|---|---|---|
| evidence store (`core/store`) | `chain.json`, `dedupe-index.json`, a mutex per open store | `Append`, `AppendVerifiedLifecycle`, `LoadChain` | signing key, lifecycle registry (callback) |
| signing key (`core/store`, `core/verify`) | `signing-key.json` | created at open, read by every append and verification | |
| lifecycle registry (`core/governance/verified_registry.go`) | `verified-lifecycle.json` | register, verify | called back inside an append |
| collection (`core/collect`, `core/proofemit`, `core/policy/sink`) | the result of a run | `Run`, `Emit`, `OnSinkFailure` | collectors, store |
| collectors (`core/collect/*`) | none | `Collect` | plugin processes, fixture files |
| Wrkr ingest (`core/ingest/wrkr`, `core/ingest/state`) | `wrkr-last-ingest.json`, its lock file, a heartbeat goroutine | `Ingest`, `WithLockedState` | store, privilege drift |
| Gait ingest (`core/ingest/gait`) | the records staged so far | preflight, read, verify, translate, append | store, lifecycle registry |
| Action Contract store (`core/ingest/actioncontract`) | proposals, activations, receipts: payload, envelope, signed receipt | `PersistProposal`, `PersistActivation`, `LoadStored` | signing key |
| governance (`core/governance`) | none | lifecycle reduction, packets, timelines, gate chains, releases | registry, store |
| compliance (`core/compliance`, `core/gaps`, `core/review/grade`) | none | match, coverage, threshold, gaps, grade | chain, framework definitions |
| derived registers (`core/bundleartifacts`, `core/identitygovernance`) | none | registers, profiles, drift and digests for a bundle | chain, compliance |
| overrides (`core/override`) | `overrides/overrides.jsonl` | `Create` | store |
| replay (`core/replay`) | none | `Run` | store |
| ticket bridge (`core/ticket`) | `ticket-dlq.jsonl` | `Process`, `Enqueue` | remote ticket system, store |
| regression (`core/regress`) | a baseline file | init, run | chain, compliance |
| review (`core/review`) | none | daily review, export | chain |
| bundle (`core/bundle`, `core/verify/bundle`) | a bundle directory, a stage and a backup beside it | build, promote, verify | everything above |
| samples, configuration, command line | files written once | | everything above |

What is hard in it, and what makes each part correct:

* **The store** keeps three files that a crash or a failed write can leave in any
  combination, undoes an append by writing back what it had read, and excludes
  only the goroutines of its own process. Correct means: the chain always
  verifies, an answered append is never lost, content is in it once, and
  "deduped" is only said of what is there. The last holds but for one case,
  which is part of what the store is taken to promise (`Leave`).
* **The key** is created on demand, without exclusion between processes; what is
  signed must verify, unless an open was misled about the key.
* **A collection run** meets failing collectors, failing appends, cancellation and
  kills, and its numbers must still say what is in the chain.
* **Wrkr ingest** locks by a file that goes stale, so exclusion depends on clocks,
  heartbeats and who removes whose file. Drift must be reported once, and a
  baseline must not run ahead of the evidence for it.
* **Overrides and tickets** write a second file beside the chain; the two must not
  drift apart when one write fails and the command is repeated.
* **Gait ingest, the Action Contract store and bundles** read or write many files
  as one: all or nothing, and for a bundle, parts that are of different times but
  still fit together.
* **Lifecycle verification and reduction** are two state machines over one
  history, written apart: what the first accepts the second must be able to
  replay, and a view that says "complete" must hide no failure.
* **Matching, gaps, grades, registers and regression** are functions of the chain;
  correct means that more evidence never lowers a result, that the views agree,
  and that the advice they give works.

## 2. The modules

Each module has one variable per piece of state, one action per step the code can
be interrupted at, and in its comments the functions it models. Operators no
action uses are faulty variants of the definition after them: `PROJECT.json`
pairs each with the property that it makes fail.

**EvidenceLog** is what the store promises: a log that only grows, one record per
dedupe key, and answers that are never taken back. The promise has a hole: an append
that fails, or whose process dies, may leave its key in the index and nothing in the
log (`Leave`), and while the key is there the store answers "deduped" for a record it
has not (`Skip` of what is `Known`). Only a failed rollback, a directory sync that
failed after its rename, or a kill leaves a key.

**EvidenceStore** is `Store.append` with the registry callback. A worker is a
goroutine in a call, a store is a process. `LoadChain` takes the mutex and reads
clock and chain; `LoadIndex` looks the key up and does everything the code does
in memory; `PersistChain`, `PersistIndex`, `LoadRegistry`, `PersistRegistry` are
the writes and reads that follow; `RollbackChain` and `RollbackIndex` the undo,
whose errors are ignored; `ReadFails` and `Crash` can strike at each step. A write
either happens or not (it is a rename), except that with fsync it can happen and
still be reported as failed (`Outcomes`). A record's hash stands for the sequence
of records up to it, which is what an uncollidable hash of content and previous
hash amounts to. Index entries carry expiry and last use; the tie between equally
old entries at the size limit is open, because the code sorts a Go map's entries.

**SigningKey** is the life of the key: `Open`, `Create`, the append reduced to
reading the chain, reading the key, writing and rolling back, and a verifier that
reads chain and key at different times. A record is the number of the key that
signed it. Any number of processes may open the store at any time, and a read of the
key can fail at open, which the code answers by creating a key. Two history variables
record what came of it: `replaced`, the keys that an open has overwritten, and
`misled`, that some open failed to read a key that is there, or found none while
another was already creating it.

**CollectRun** is `Runner.Run` with `Emitter.Emit` and the sink policy, a
candidate at a time. **WrkrIngest** is the ingest command with its lock file,
heartbeat and baseline; a lock is its modification time. Heartbeats may be late and
any number of runs killed; the histories `late` and `contested` record that a
heartbeat was later than the TTL, and that two runs had found one lock stale.
**OverrideHistory** is
`override create`, where a line may be torn and then garble the next one.
**TicketBridge** is `Processor.Process` for several calls at once against a
remote system whose answer may be lost.

**ActionContractStore** is the package's two `Persist` functions, a file at a
time: the snapshot of what is there (`Snapshot`), the atomic writes of payload,
envelope and receipt, and the undo that writes the old files back in place
(`Restore`); and `LoadStored`, which lists a directory and then reads file after
file (`LoadStart` to `LoadReturn`). Envelopes and receipts are what they state,
the bytes of the payload and the conformance; their signature is taken to verify
with the store's key, whose life is SigningKey's subject.

**GaitLifecycle** is the verification of one lifecycle pack: a loop over its
records with the flags it keeps, one action per record accepted (`Accept`, and
what refuses it). **LifecycleReducer** is the transition table that replays events
of one Action Contract: a function from a state and an event to a state, folded
over the events in time order. **LifecycleReplay** EXTENDS both: packs that verify
become records of the chain, the packet of the contract collects their
transitions, and its timeline replays them. `replay` is the reducer fed with each
record at the moment the verifier accepts it; no code keeps it, it is there to
compare the two machines step by step.

**GaitIngest** is `axym ingest --source gait`: the preflight, the staging of every
pack (read, verify, translate, resolve links), then one append at a time on the
log the store promises. An item of a pack is its type, the RecordID and the dedupe
key of its record, its links, and what is wrong with it.

**Compliance** holds matcher, coverage, threshold, grade and gap list, and
**DerivedRegisters** the registers and profiles of a bundle, the review of a day and
the regression baseline, as definitions over a set of records. **Audit** is the
chain that grows, record by record, with a report and a baseline in between.

**Bundle** EXTENDS EvidenceStore: the same files, appended to by the same steps,
while `Build` reads chain, chain again, registry, contracts and receipts, each at
its own time, stages the bundle, and promotes it by renames, with the cleanup its
deferred functions do and a kill possible at every step. What `Verify` recomputes
is an operator on the bundle (`Accepted`).

How they compose: EvidenceStore implements EvidenceLog (checked and proved for one
process per directory). CollectRun, OverrideHistory and TicketBridge take
EvidenceLog's step with their own records and keys, GaitIngest writes that step
out, and each of the four is proved to do with its log only what EvidenceLog
allows (`CollectImplementsLog`, `HistoryImplementsLog`, `BridgeImplementsLog`,
`IngestImplementsLog`), so what they show holds over that store; Bundle runs over the
detailed store itself. The first three use a store in compliance mode: `collect` in
its default sink mode and any it does not know (`collect.go:51`), `override create`
always (`override.go:88`), the ticket bridge when its caller does (`ComplianceMode`).
So their appends may leave their key, and a later one may be answered "deduped" with
nothing in the chain; what they claim excepts exactly the keys in `left`. The ingests
and `record add` open it without that mode. An append that reports an error may also
have left its record in the log; every module that appends allows for it. WrkrIngest
needs only the set of records in the chain.
Compliance and DerivedRegisters have no state of their own.

Proofs are in modules beside the component's: `EvidenceStoreProofs`,
`SigningKeyProofs`, `ReportProofs`, `ActionContractProofs`, `WrkrProofs`,
`OverrideProofs`, `TicketProofs`, `GaitProofs`. Three of them hold what is proved of
two modules: `EvidenceStoreProofs` of the store and of Bundle, which runs over it;
`GaitProofs` of GaitIngest and LifecycleReplay; `ReportProofs` of CollectRun and
Audit, what commands report of the chain.

Where Go tests one condition after another, a definition is a chain of `IF`, not a
`CASE`: the guards of a `CASE` that overlap leave its value open, to the prover and
to a reader. Selections and sums are recursive functions (`Selected`, `SumOf`)
rather than `SelectSeq` and folds, because those are recursive operators, of which
nothing can be proved. Where Go adds up counts, a definition counts one set of
pairs instead (`AllControls` of all frameworks, `Altogether` of all days): a
cardinality needs no induction over the addends.

## 3. What is checked

All runs of one module share its MC module, which names model values.

| run | shows | bounds |
|---|---|---|
| `store_one_process` | the store implements EvidenceLog; "deduped" is said of what is there or of a key left behind; chain verifies, content once, answered lifecycle records registered; every append returns | 2 goroutines, 3 records (record add, lifecycle, malformed), index of 1, 2 seconds, 2 failures, 1 crash, fsync |
| `store_lost_update` | (violation) see below | 2 processes, 2 records, no failure |
| `key_lifetime` | signatures verify but for overwritten keys, no other alarm, only a misled open replaces a key | 2 processes from the creation of the key on, a verifier, races at open, 2 failed writes, 1 failed read (at open too), 2 crashes |
| `collect_runs` | every candidate counted, totals are sums, completeness, growth; every run ends | 2 runs, 3 collectors, 4 mode strings (one unknown), 2 failed appends that may leave record or key |
| `wrkr_runs` | exclusion and single reports until a race, baseline, drift reports; every run ends | 3 runs, lock TTL 1, 4 ticks, 1 failure, 1 crash, late heartbeats |
| `override_history` | history follows the chain | 2 exceptions (symmetric), 2 seconds, 1 failure, 1 kill |
| `contract_store` | a failed call leaves no trace; a load is complete and trusted, or fails | 1 process that writes, 1 load at a time, a proposal and an activation, 2 contents, 2 conformances, 2 failures, 1 kill |
| `ticket_calls` | outcomes accounted, retries bounded; every call ends | 2 calls on one change, 3 attempts, 1 failed write |
| `lifecycle_replay` | verifier, reducer, packet and timeline tell one story | 2 runs of one contract, records with ties of instants, approvals, one flaw per check |
| `gait_ingest` | all packs or none; success is complete; links before artifacts | 3 commands, 12 requests over 9 packs, 1 failure or kill |
| `audit` | evidence never lowers a result, gaps are actionable, views agree | up to 4 records of 16, 2 frameworks, 3 policies |
| `bundle` | a bundle is history of the store and verifies; the output is whole | 1 worker, a collected and a lifecycle record, 1 failure and 1 crash of the store, an activation persisted twice, 1 command, 2 failures, 1 kill |

Why the bounds are enough. Two goroutines or processes already give every pair
of interleaved calls, and the hazards are about pairs. Two failures are one to
start a rollback and one to break it. One second past the TTL of one second lets
entries expire; an index of one key evicts on every second key. A record whose key
is not found in the chain can be appended without end, so such a record is only
presented to a chain shorter than `MaxChain`. For the lock, three runs are one that is
killed and two that contend for its lock; four ticks at a TTL of one let the lock go
stale and both of them finish. Two lifecycle runs are what tells the reducer's state after a run from its initial one. Three
gait ingests are a partial one, its repetition, and one of other packs in between.
Coverage, grade and drift compare one chain with a longer one; four records meet
a requirement set of two in two ways and leave room for a bad record after good
ones. One bundle command suffices because `BundleInit` has the results of earlier
ones: an output that is empty, a whole bundle, or one that a kill has left in the
backup only. The other bounds (`MaxTime`, `MaxFaults`, `MaxCrashes`, `MaxRuns`,
`MaxCalls`, `MaxVersion`, `MaxFailures`, `MaxKills`) only cap how often the
environment does something; the steps of the program are not capped.

With two processes on one directory `ChainIntact` and `ReingestIdempotent` have no
run; their theorems hold for any number of processes.

`CHECK_DEADLOCK FALSE` is set where the program really ends: after the last run,
call or command the bounds allow.

### What the documents say and the code does not do

`store_lost_update` checks one property, taken from a document, and finds it
violated: the store is append-only (`product/axym.md`), but of two processes on
one directory each writes back the chain it has read, so that an append that was
answered disappears.

The models show further limits. Where a passing run reaches one, its property names
it as an exception. The exceptions for keys left behind, overwritten signing keys and
contested locks are needed: without one TLC finds the property violated in that run.

Store and key:

* Two first opens of a store create two keys, and the second replaces the one
  that has signed; and `ensureSigningKey` (`store.go:376`) creates a new key on any
  error of reading the old one, so one failed read at open does the same. Records
  signed before then fail verification, although ADR-0001 speaks of a persistent
  local signing key. `SignaturesVerify` and `NoFalseAlarm` except records of an
  overwritten key (`replaced`), `KeyOutlivesChain` an open that was `misled`.
* In compliance mode, an index write whose directory sync fails, or a rollback
  whose index write fails (`store.go:282`), leaves the key of a record that is not in
  the chain. The retry is answered as deduped, although `product/axym.md:887` says
  that "evidence collection returns success only after durable write". `SkippedPresent`
  excepts the keys `left`, and so do `SuccessIsComplete`, `HistoryFollowsChain` and
  `OutcomeAccounted`, for the commands that use such a store.
* `record add` passes a key the chain does not know, so once the index forgot it,
  a repeated command appends the record again. `ReingestIdempotent` excepts such
  records (`Manual`).
* A process killed between the chain write and the registry write leaves a
  lifecycle record without its receipt, although `docs/operator/integration-model.md`
  couples the two. `AnsweredRegistered` speaks of answered calls only.

Wrkr, overrides, tickets:

* With three Wrkr runs, of which one was killed, two others can both find its
  lock stale; the slower one then removes the lock the faster one has created
  (`wrkr_state.go:103` removes by name), and both hold it. A heartbeat later than the
  TTL has the same effect, as with any lease. `MutualExclusion` and
  `DriftReportedOnce` hold until one of them happens (`Raced`), `DriftReported` and
  `BaselineHasEvidence` whatever happens.
* A second payload attached to one change is deduped in the chain, since the
  payload is no part of the key. `RecordsTrue` speaks of outcomes, not payloads.
* When the line of an override cannot be written, the repeated command is deduped,
  reports the override as created and never writes the line, although
  `product/axym.md:599` says that bundles include override artifacts.
  `HistoryFollowsChain` allows such gaps.

Action Contract store:

* When the directory sync after the rename of a proposal's envelope fails,
  `persist` removes the payload and leaves the envelope, and `LoadStored` refuses
  the whole store until the proposal is persisted again. `AllOrNothing` excepts it
  (`damaged`).
* A process killed inside an atomic write leaves its temporary file, which
  `LoadStored` refuses in an artifact directory (`strays`); nothing removes it. A
  process killed inside the undo of an activation can leave a torn payload: every
  retry is then refused as having other bytes, and `LoadStored` fails.
* Of two processes that persist one activation, the one that fails removes, with
  its undo, the files of the one that was answered: `LoadedIsComplete` fails with
  `Processes = {p1, p2}` (`LoadedWasIssued` does not, as section 4 proves).

Gait ingest and lifecycle:

* A passed through proof record whose evidence kind is `gait_lifecycle` has no
  receipt: its append is refused after earlier records of the command were
  appended, and so is every retry. `AllPacksOrNone` speaks of refused packs, not
  of refused appends.
* The links of an artifact are no part of its dedupe key: an updated artifact is
  deduped and its new links are dropped. `LinkedBefore` excuses links to records
  that were deduped under another RecordID.
* `axym ingest --source action-contract` persists proposals one by one, without a
  preflight.
* The state of an axis in the packet of repeated runs is that of the last terminal
  item in the order of identifiers, not of time; `SuccessAgrees` claims one run.
* An approval among the evidence references of a pack becomes an event at the
  pack's last instant, which the reducer refuses after the activation; so does a tie of
  activation and execution start whose aggregate record sorts later, and a run
  that follows one left partial. Each turns the timeline into a gap;
  `IllegalOnlyAfterGap` and `TimelineIsReplay` name these cases.

Compliance, registers, regression:

* Several trust graduations of one path are compared, every baseline entry with
  the last current one in the order of bundle and artifact identifiers. So
  `regress run` can report drift on an unchanged chain, or hide one, although
  `product/PLAN_v1.0.md:1174` wants real coverage drift only.
  `EvidenceNeverLowers` claims maturity drift for paths with one graduation.
* An artifact's own record matches its own references, so a missing approval or
  trace reference is never raised by `linkedProofRefs`; an incident counts as
  reconstructed even when its signatures failed; the approval gates ignore the
  status of an entry; a credential without a status is `standing_blocked`; a
  privilege drift finding without the approved flag is "unapproved" in the report
  and not in the matcher. The definitions say what the code does; no property
  rests on it.
* One of actor, downstream agent and delegation chain supplies the identity for
  all three. The advice of a gap names record types but not the source products a
  control accepts. A control's time window moves with the latest record of any
  type. Coverage is rounded to four decimals before the threshold, so it can pass
  one slightly above the true ratio. A framework without controls is complete and
  has grade F.

Bundle:

* `Build` can promote, and answer, a bundle that `Verify` refuses: when an
  activation is persisted with another conformance between `LoadStored` and the
  read of its receipt, or when the last record of the snapshot was taken back and
  registered again under another hash before the registry was read.
  `RefusedOnlyByRace` says that there is no other way.
* A bundle can hold a record whose append was reported as failed; the report on
  the chain can be of a newer chain than the chain in it, and overrides may name
  records that are not in it.
* Two gait ingests at once can lose a registry entry, after which `Build` and
  `Verify` refuse the lifecycle record for good.
* Two bundle commands into one fresh output: the one that fails removes the
  other's bundle with its deferred cleanup. The model has one command at a time.
* When both renames of the promotion fail, the old output is in the backup only;
  stage and backup directories of a killed command stay. `OutputWhole` counts the
  backup.
* `Verify` accepts derived artifacts that are expected but not declared. `Build`
  opens the store with `store.New`, which creates directory and key when absent.

### Fairness

`EvidenceStore!FairSpec` has weak fairness on the steps of a call that holds the
mutex (nothing there waits) and strong fairness on taking it, because
`sync.Mutex` hands itself to a waiter that has starved for a millisecond.
`WrkrIngest` and `TicketBridge` have weak fairness per process: a lock that is
held ends the run, requests and backoffs end. `CollectRun` has weak fairness on
the one thread of a run: plugins are stopped by their timeout. Crashes, faults,
cancellation and clock ticks are never forced. The other modules state no
liveness: their commands are loops over a finite input.

Heartbeats are not assumed to be on time: a holder may beat after the TTL, or never.

## 4. What is proved

Every theorem holds for every value of the constants that meets the module's
assumptions, so for every number of processes, records, failures and kills, unless
it names a further assumption.

`EvidenceStoreProofs`

* `TypeCorrect`, `ChainAlwaysIntact`, `ReingestAlwaysIdempotent`, for any number of
  processes. The first is inductive. The other two are not: a process writes what
  it holds in memory, so the invariant says of every worker's chain in memory what
  it says of the file, and of a worker about to write that its record repeats no
  key of the chain it read. Lost updates do not matter, since any of those chains
  is a good one.
* `AnswersAlwaysKept` and `StoreImplementsLog`, assuming `SingleProcess` (all
  workers use one store). Here the invariant adds that at most one worker is
  inside the mutex, that the file is the chain it read or that chain with its
  record, according to its step, and that all answers are in the chain it read:
  so a rollback takes back its own record only. The refinement maps the log to
  the chain last decided on (`SettledLog`): while a worker can still roll back,
  that is the chain it read. A step that answers is an append, all others stutter.
* `AnsweredAlwaysRegistered`, assuming also `LifecycleKeysDerived` (the caller of a
  lifecycle append passes the key the store derives, as Gait ingest does). The
  registry is written after the chain and before the answer; `RegistryInv` says
  that the records a worker was told of stay in the chain and keep their receipts,
  and that a record being written was told to nobody, so the rollback of its
  receipt takes nothing from anybody.
* `SkippedAlwaysPresent`, assuming `SingleProcess`, with or without compliance mode.
  `IndexInv` says that every key of the index, on disk and in a worker's memory, is
  accounted for: its record is in the chain last decided on, or an undone append left
  it (`Accounted`), or it is that of a worker still inside its append (`Live`), which
  will settle or undo it. The refinement `StoreImplementsLog` rests on it for its steps
  that answer "deduped".
* `BundleAlwaysHistory` and `AlwaysRefusedOnlyByRace`, assuming `SingleProcess` and
  `LifecycleKeysDerived`, for the bundle command beside the store. `BuildInv` says that
  what the command has gathered follows the chain last decided on, which only grows
  while the file may go back by one record; that the receipt it has looked up for a
  record is still in the registry or the record was taken back since; and that the
  last bundle has all that `Verify` asks for.
* `OutputAlwaysWhole` and `FailureAlwaysKeepsOutput`, whatever the store holds. The steps
  of the store leave the directories alone; for those of a build, `OutInv` says what
  output, backup and stage hold at each step (`Placed`) and where the old content can
  be found (`Found`).

`SigningKeyProofs`, for any number of processes, races and failed reads:
`SignaturesAlwaysVerify`, `NeverFalseAlarm`, `KeyAlwaysOutlivesChain`. Keys are numbered
as they are generated. The invariant `KeyInv` says that the key on disk is newer than
all it has replaced, and that the chain, what a process or the verifier has read of
it, and the record about to be written are signed with keys there have been, older
ones first (`Signed`): so what the key on disk does not verify precedes what it does.
While there is no key there are no records and no process past its open, and an open
that was not misled writes its key in that situation.

`ReportProofs`

* `CollectTypeCorrect`, `SuccessAlwaysComplete`, `AppendedAlwaysGrowth`,
  `EveryCandidateAlwaysCounted`. `CollectInv` says of the source at
  work that its candidates are those counted, in the summary or, when deduped, by a
  reason only, and those still to emit (`Counting`), and that each one a real run is
  through with was rejected, is in the chain, or was deduped on a key left behind
  (`Emitted`, `Held`); of the sources that are done, that all they returned is so held
  unless they failed or the run is degraded (`Gathered`), and of a degraded run that its mode
  allows it (`Tolerated`). `SumsInv` adds that Result counts in step with the summary
  at work, from which the totals of `EveryCandidateCounted` follow.
* `EvidenceCannotLower`. `AuditInv` only says that a report is what its chain says;
  the argument is about the operators. Whether a record matches a requirement set
  does not depend on the others but for the latest one, so no set does worse on a
  longer chain (`SetNeverLowers`); of competing sets the one with the best status is
  selected whatever else they are compared by (`BestStatusSelected`, along the
  recursion of `EvaluateControl`), so no control does (`ControlNeverLowers`); the
  rounded ratio of a framework is monotone in its covered controls
  (`CoverageMonotone`). Unresolved references only shrink (`GapsShrink`), so that the
  entry of a path's one graduation is matched by itself (`MaturityStays`).
* `GapsAlwaysActionable`. Where no field is missing, what is present is complete, so a
  set all types of which are present is covered (`PresentIsCovered`): there is always
  something to advise. A record of a missing type that follows the advice is complete
  and, because the latest record of the chain stays the latest (`LatestStays`, from
  `LatestIsOne`: a finite chain has one), recent; so the set is filled
  (`CollectedFills`) and then selected.

* `ViewsAlwaysAgree`. The result of a control is that of one of its requirement sets
  (`ResultOfSet`), so what holds of every set's result holds of every control's
  (`Sound`): in particular a result that is covered has no weakness, and one that
  blames an identity names a record. Grade A is given exactly without gaps and
  weaknesses (`NoGap`, `NoWeakness`), and the rounded coverage of a framework is full
  exactly when all its controls are covered, since one control of fewer than
  `2 * One` moves it by more than rounding hides (`FullyCovered`). The identifiers
  make the order of the gaps total, so their ranks are a bijection onto the numbers
  up to theirs (`RanksRun`). Every record is of one day and at most one grade, so the
  counts of the days glue to those of the chain (`PartsCounted`). The registers agree
  with the profile because an entry is found by its record's identifier
  (`RegistersOfOne`).

  These three take frameworks to be finite and controls to have a requirement set,
  which `controlRequirementSets` guarantees. The last two also take every set to name
  a record type (`TypesAssumption`). The code does not enforce that, the library
  that loads frameworks is not in the repository, and a control with a set of no
  types would be a gap for ever, with the advice to increase its frequency.
  `ViewsAlwaysAgree` further takes a command to name a framework (`LoadMany` refuses
  none), each framework to have a control, and fewer than twenty thousand, under
  identifiers of their own (`ControlsAssumption`). Framework files come from outside,
  nothing in the repository checks these; a framework without controls does make the
  views disagree (section 3). Records of one chain have different RecordIDs, and
  `deriveAuditability` takes no grade but high, medium and low (`AuditAssumption`).

`ActionContractProofs`

* `ContractTypeCorrect` and `LoadedAlwaysIssued`, for any number of processes. The
  latter is not inductive: a receipt reaches the disk also through an undo, which
  restores what it found. So `TrustInv` says of every receipt on disk, and of every
  one a call would put back, that it was issued, of every call past its checks that
  the producer's signature is verified, and of what a load has accepted that it was
  issued. Whatever a load saw of the other files does not matter.
* `AlwaysAllOrNothing`, assuming `OneWriter` (at most one process persists). `UndoInv`
  says, by the step a call is at, which of the files it has read, written or put
  back still are, or are kept as, what they were when it began (`Recoverable`).
* `LoadedAlwaysComplete`, assuming `OneWriter`. A load reads while that process
  writes. `CompleteInv` says that a committed artifact keeps its files, or bytes it
  can be loaded with, through every later call and its undo (`Written`, `Kept`), and
  that each artifact the load owes is ahead of it in its listing, in hand, or
  returned (`Accounted`).

`WrkrProofs`

* `WrkrTypeCorrect` and `BaselineAlwaysHasEvidence`, without any exclusion: a run
  saves only what it has appended or found in the chain, and the chain only grows
  (`EvidenceInv`).
* `RunsAlwaysExclude`: until a race there is no second holder, for any number of runs and
  kills. `LockInv` says that until then a holder's lock exists and is no older than the
  TTL, so that whoever finds a stale lock finds it without a holder, and that a run
  about to take it over is the only one.
* `DriftAlwaysReported`, whatever races: `ReportInv` says that a privilege saved, or read
  from what was saved, which no record approves is reported, or is about to be by a
  run that has saved it, or a run was killed. No lock is needed for it.
* `DriftAlwaysReportedOnce`: `OnceInv` adds that until a race what is reported is in the
  baseline, and known to the run that holds the lock.

`OverrideProofs`: `HistoryAlwaysFollowsChain`. A created override is in the chain or its
key was left behind; the invariant adds that the chain repeats no key (`NoRepeats`) and
that a line being written is for the newest record
(`Fresh`), which keeps the order.

`TicketProofs`: `AttemptsAlwaysHonest`, `OutcomeAlwaysAccounted`,
`RecordsAlwaysTrue`, for any number of calls at once. Each call's part (`CallOK`)
speaks of the remote ticket, the queue, the chain and the keys left behind only as
things that grow, so other calls cannot disturb it.

`GaitProofs`

* `AlwaysAllPacksOrNone` and `DoneAlwaysComplete`. The invariant says what has been
  staged of which paths, and while appending, that what is not yet appended or found
  is still to come (`Pending`), and that the counts are the growth of the chain
  (`Counted`).
* `AlwaysLinkedBefore`. `LinkInv` says that what the command takes for known is in the
  chain, repeated there, or waits to be appended, and that each artifact that waits
  links only to what is in the chain or waits before it. A command that ends half way
  leaves a chain that is linked; the next one starts from the RecordIDs in it.
* `AlwaysIllegalOnlyAfterGap` and `AlwaysCompleteHidesNothing`, for any number of runs of a
  contract. `HistoryInv` relates the two machines: the records accepted of a run are
  in an order the verifier's flags allow (`InSequence`), the reducer's status is that
  of the last of them (`Followed`) and its reasons tell every blocked, partial or
  unresolved end (`Told`), unless it has refused an activation after a run left in
  partial or gap and is stuck there (`Stuck`). What ends a pack is recorded of every
  run (`Concluded`).
* `AlwaysSuccessAgrees`: `FirstRun` adds that in a contract of one run the reducer has
  no reason but those the records give it.
* `TimelineAlwaysReplay`. `TimelineInv` says that the events of the packet, put in the
  timeline's order, replay to the state the reducer reached record by record, and so
  do those events with the ones of the pack being read. It carries on because the
  instants of a run never go back (`Timed`) and those of a later run are later
  (`Below`): unless an activation is tied with what it sorts behind, or an approval is
  referenced, the event of the next record is the last in the order, and to replay
  the longer sequence is one more step. A finite set of distinct events has one order
  only, so it does not matter which one `CHOOSE` picks.
* `IngestImplementsLog`: each step of an ingest leaves the chain alone or puts one
  record at its end, translated from an item of a pack, whose key is not there yet.
  `IngestInv` supplies that what is staged comes from packs.

Recursion is proved about where a definition needs it (`Selected`, `SumOf`,
`EvaluateControl`) by the smallest number: that the recursion has a solution, and what it computes, because
there is no shortest prefix for which it fails (`SmallestNumber`).

Only model-checked is liveness (`AppendReturns`, `RunEnds`, `RunsEnd`, `CallEnds`): the
prover has no fairness reasoning here. Every invariant and action property of the
passing runs is stated by a theorem.

## 5. What is not modelled

* Content: canonicalization, hashing, signatures, schema validation, redaction.
  Hashes are taken to be free of collisions, `proof.VerifyChain` and
  `proof.Sign` to do what their names say (that library is not in the repository);
  that a RecordID is a function of the record is taken from its use.
* The clock going backwards, and corruption of files from outside: a file that
  cannot be parsed is a failed read.
* The SLA clock of the ticket bridge, and a bridge without a dead letter queue.
* Separation of duties and freeze windows, and the validation of Action Contract
  documents: predicates over one document, field by field and without state, which
  a unit test reaches as well as a model. So do the parsers of the collectors, which
  are modelled by what they return.
* Session stitching: one comparison of neighbours in chain order, reported after an
  ingest. As chain order is not time order, records ingested late do not close a
  gap it has reported.
* Governance gates, releases and exports, evidence context, OSCAL, the text of the
  daily review, samples and configuration: projections and fixed files. Gate
  chains, the control lifecycle and the completeness rollup have no caller among
  the commands.
* Replay certification: one append under a key with the start time in it.
* Of bundle verification, schemas, digests and signatures of the files: what is
  modelled is what it recomputes from a bundle's parts. Of the command line, only
  what decides how the store is used.

## 6. Plan

Done: every component that keeps state, their compositions with the store, the
lifecycle machines, compliance with its registers, regression, bundles, and the
proofs of section 4. Left, in this order:

1. Two bundle commands at once, and two processes that append beside one.
2. Sessions, separation of duties and freeze windows as operators, once a command
   decides something by them.
3. Gate chains and the control lifecycle, once a command calls them.

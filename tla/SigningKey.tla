---------------------------- MODULE SigningKey ----------------------------
(***************************************************************************)
(* core/store, core/verify: the store's signing key.                       *)
(*                                                                         *)
(* Every command that writes opens the store first, which creates the key  *)
(* when it cannot be read; every append reads it again and signs with it;  *)
(* `axym verify --chain` checks all signatures against it.  A record is    *)
(* the key that signed it here, and a key is the number of its generation. *)
(*                                                                         *)
(* A definition that no action or property uses is a faulty variant of the *)
(* one below it; the properties are run against it to see them violated.   *)
(***************************************************************************)
EXTENDS Naturals, Sequences

CONSTANTS
    Processes,     \* processes that open the store to write
    MaxReadFaults, \* bound: reads of the key file that fail though it exists
    MaxFaults,     \* bound: writes that fail
    MaxCrashes,    \* bound: processes that die
    MaxChain       \* bound: records

ASSUME KeyAssumption ==
    /\ MaxReadFaults \in Nat /\ MaxFaults \in Nat
    /\ MaxCrashes \in Nat /\ MaxChain \in Nat

NoKey == 0

VARIABLES
    keyFile,   \* signing-key.json
    chain,     \* chain.json: the key of each record's signature
    generated, \* keys generated so far
    pc,        \* pc[p]: what process p does next
    loaded,    \* loaded[p]: the chain p read
    key,       \* key[p]: the key p read
    verifying, \* the verifier has read the chain
    evidence,  \* the chain it read
    verdict,   \* its last answer
    replaced,  \* history: the keys that a later open has overwritten
    misled,    \* history: an open found no key although there was one, or
               \* although another process was about to write one
    readFaults, faults, crashes

counters == <<readFaults, faults, crashes>>
verifier == <<verifying, evidence, verdict>>
history  == <<replaced, misled>>
vars == <<keyFile, chain, generated, pc, loaded, key, verifier, history, counters>>

SignedBy(c, k) == \A i \in 1..Len(c) : c[i] = k

-----------------------------------------------------------------------------

Init ==
    /\ generated = 0
    /\ keyFile = NoKey
    /\ chain = <<>>
    /\ pc = [p \in Processes |-> "closed"]
    /\ loaded = [p \in Processes |-> <<>>]
    /\ key = [p \in Processes |-> NoKey]
    /\ verifying = FALSE
    /\ evidence = <<>>
    /\ verdict = "none"
    /\ replaced = {} /\ misled = FALSE
    /\ readFaults = 0 /\ faults = 0 /\ crashes = 0

Goto(p, label) == pc' = [pc EXCEPT ![p] = label]

ReadFault == readFaults < MaxReadFaults /\ readFaults' = readFaults + 1

\* A write fails before the rename, or (in ComplianceMode) after it.
Write(file, new, ok) ==
    \/ file' = new /\ ok /\ UNCHANGED faults
    \/ /\ faults < MaxFaults /\ faults' = faults + 1
       /\ file' \in {file, new}
       /\ ~ ok

OpenAlwaysCreates(p) ==
    /\ pc[p] = "closed"
    /\ Goto(p, "create")
    /\ UNCHANGED <<keyFile, chain, generated, loaded, key, verifier, history, counters>>

\* ensureSigningKey reads the key; any error of the read makes it create one.
Open(p) ==
    /\ pc[p] = "closed"
    /\ \/ /\ keyFile # NoKey
          /\ Goto(p, "open")
          /\ UNCHANGED <<misled, readFaults>>
       \/ /\ keyFile # NoKey /\ ReadFault
          /\ Goto(p, "create")
          /\ misled' = TRUE
       \/ /\ keyFile = NoKey
          /\ Goto(p, "create")
          /\ IF \E q \in Processes : pc[q] = "create"
             THEN misled' = TRUE
             ELSE UNCHANGED misled
          /\ UNCHANGED readFaults
    /\ UNCHANGED <<keyFile, chain, generated, loaded, key, verifier, replaced,
                   faults, crashes>>

\* The new key is written over what is there by now.
Create(p) ==
    /\ pc[p] = "create"
    /\ generated' = generated + 1
    /\ \E ok \in BOOLEAN :
          /\ Write(keyFile, generated + 1, ok)
          /\ Goto(p, IF ok THEN "open" ELSE "closed")
    /\ replaced' = replaced \cup ({keyFile} \ {NoKey, keyFile'})
    /\ UNCHANGED <<chain, loaded, key, verifier, misled, readFaults, crashes>>

\* An append reads the chain, then the key, and writes the signed record.
LoadChain(p) ==
    /\ pc[p] = "open"
    /\ Len(chain) < MaxChain
    /\ loaded' = [loaded EXCEPT ![p] = chain]
    /\ Goto(p, "key")
    /\ UNCHANGED <<keyFile, chain, generated, key, verifier, counters, history>>

LoadKeyOnce(p) ==
    /\ pc[p] = "key"
    /\ key' = [key EXCEPT ![p] = IF @ = NoKey THEN keyFile ELSE @]
    /\ Goto(p, "persist")
    /\ UNCHANGED <<keyFile, chain, generated, loaded, verifier, counters, history>>

SignFresh(p) ==
    /\ pc[p] = "key"
    /\ key' = [key EXCEPT ![p] = generated + 1]
    /\ generated' = generated + 1
    /\ Goto(p, "persist")
    /\ UNCHANGED <<keyFile, chain, loaded, verifier, counters, history>>

LoadKey(p) ==
    /\ pc[p] = "key"
    /\ \/ /\ keyFile # NoKey
          /\ key' = [key EXCEPT ![p] = keyFile]
          /\ Goto(p, "persist")
          /\ UNCHANGED readFaults
       \/ ReadFault /\ Goto(p, "open") /\ UNCHANGED key
    /\ UNCHANGED <<keyFile, chain, generated, loaded, verifier, faults, crashes, history>>

\* The append succeeds, fails, or goes on to roll the chain back.
Persist(p) ==
    /\ pc[p] = "persist"
    /\ \E ok \in BOOLEAN :
          /\ Write(chain, Append(loaded[p], key[p]), ok)
          /\ \/ Goto(p, "open")
             \/ ok /\ Goto(p, "rollback")
    /\ UNCHANGED <<keyFile, generated, loaded, key, verifier, readFaults, crashes, history>>

Rollback(p) ==
    /\ pc[p] = "rollback"
    /\ \E ok \in BOOLEAN : Write(chain, loaded[p], ok)
    /\ Goto(p, "open")
    /\ UNCHANGED <<keyFile, generated, loaded, key, verifier, readFaults, crashes, history>>

Exit(p) ==
    /\ pc[p] = "open"
    /\ Goto(p, "closed")
    /\ UNCHANGED <<keyFile, chain, generated, loaded, key, verifier, counters, history>>

Crash(p) ==
    /\ pc[p] \notin {"closed", "open"}
    /\ crashes < MaxCrashes /\ crashes' = crashes + 1
    /\ Goto(p, "closed")
    /\ UNCHANGED <<keyFile, chain, generated, loaded, key, verifier, readFaults, faults, history>>

\* VerifyChainFromStoreDir reads the chain, and the key when there are records.
VerifyRead ==
    /\ ~ verifying
    /\ evidence' = chain
    /\ \/ chain = <<>> /\ verdict' = "intact" /\ UNCHANGED verifying
       \/ chain # <<>> /\ verifying' = TRUE /\ UNCHANGED verdict
    /\ UNCHANGED <<keyFile, chain, generated, pc, loaded, key, counters, history>>

VerifySignatures ==
    /\ verifying
    /\ verifying' = FALSE
    /\ \/ /\ keyFile # NoKey
          /\ verdict' = IF SignedBy(evidence, keyFile) THEN "intact" ELSE "signature"
          /\ UNCHANGED readFaults
       \/ ReadFault /\ verdict' = "unreadable"
    /\ UNCHANGED <<keyFile, chain, generated, pc, loaded, key, evidence, faults, crashes, history>>

Step(p) ==
    \/ Open(p)
    \/ Create(p)
    \/ LoadChain(p)
    \/ LoadKey(p)
    \/ Persist(p)
    \/ Rollback(p)
    \/ Exit(p)
    \/ Crash(p)

Next ==
    \/ \E p \in Processes : Step(p)
    \/ VerifyRead
    \/ VerifySignatures

Spec == Init /\ [][Next]_vars

-----------------------------------------------------------------------------

TypeOK ==
    /\ generated \in Nat
    /\ keyFile \in 0..generated
    /\ chain \in Seq(Nat)
    /\ pc \in [Processes -> {"closed", "create", "open", "key", "persist", "rollback"}]
    /\ loaded \in [Processes -> Seq(Nat)]
    /\ key \in [Processes -> Nat]
    /\ verifying \in BOOLEAN
    /\ evidence \in Seq(Nat)
    /\ verdict \in {"none", "intact", "signature", "unreadable"}
    /\ replaced \subseteq 1..generated /\ misled \in BOOLEAN
    /\ readFaults \in Nat /\ faults \in Nat /\ crashes \in Nat

(* ADR-0001: records are signed with a persistent key.  The key on disk    *)
(* verifies the records of the chain on disk, all of them unless an open   *)
(* has overwritten a key; then those it does not verify were signed with   *)
(* an overwritten key, and come before all that it verifies.               *)
SignaturesVerify ==
    \A i \in 1..Len(chain) :
        chain[i] # keyFile => /\ chain[i] \in replaced
                              /\ \A j \in 1..(i - 1) : chain[j] # keyFile

(* verify --chain, which reads the chain and the key at different times,   *)
(* reports a bad signature, on a chain nobody tampered with, only when it  *)
(* read a record whose key has been overwritten.                           *)
NoFalseAlarm ==
    verdict = "signature" /\ ~ verifying
    => \E i \in 1..Len(evidence) : evidence[i] \in replaced

(* The key is not replaced under a chain that has records, on disk or in   *)
(* the hands of a process that is going to write it, unless some open was  *)
(* misled: its read of the key failed, or it raced the first one.          *)
KeyOutlivesChain ==
    [][chain # <<>> \/ (\E p \in Processes : pc[p] = "persist")
       => keyFile' = keyFile \/ misled]_vars

=============================================================================

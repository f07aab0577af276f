------------------------- MODULE SigningKeyProofs -------------------------
(***************************************************************************)
(* The signing key and the chain it signs, for every number of processes   *)
(* and every failure of a read at open, a write, or a process: what the    *)
(* key on disk does not verify was signed with a key that an open has      *)
(* overwritten, and only a misled open overwrites the key of a chain.      *)
(***************************************************************************)
EXTENDS SigningKey, TLAPS

Labels == {"closed", "create", "open", "key", "persist", "rollback"}

(* The keys there have been on disk.                                       *)
Keys == replaced \cup {keyFile}

(* Signatures of such keys, the later ones never with an older key.        *)
Signed(c) ==
    /\ \A i \in 1..Len(c) : c[i] \in Keys
    /\ \A i \in 1..Len(c) : \A j \in 1..(i - 1) : c[j] <= c[i]

(* The inductive invariant: until there is a key there is no record and no *)
(* process past its open; the key on disk is newer than all it replaced;   *)
(* what is, was read from or will be written to the chain is signed with   *)
(* keys there have been; and who was not misled creates the first key.     *)
KeyInv ==
    /\ TypeOK
    /\ keyFile = NoKey =>
          /\ chain = <<>> /\ evidence = <<>>
          /\ \A p \in Processes : pc[p] \in {"closed", "create"}
    /\ \A k \in replaced : k < keyFile
    /\ Signed(chain)
    /\ Signed(evidence)
    /\ \A p \in Processes :
          pc[p] \in {"key", "persist", "rollback"} => Signed(loaded[p])
    /\ \A p \in Processes : pc[p] = "persist" =>
          /\ key[p] \in Keys
          /\ \A i \in 1..Len(loaded[p]) : loaded[p][i] <= key[p]
    /\ NoFalseAlarm
    /\ ~ misled =>
          /\ \A p \in Processes : pc[p] = "create" => keyFile = NoKey
          /\ \A p, q \in Processes : pc[p] = "create" /\ pc[q] = "create" => p = q

LEMMA SignedEmpty == Signed(<<>>)
  BY DEF Signed

LEMMA SignedAppend ==
    ASSUME NEW c \in Seq(Nat), NEW k \in Nat, k \in Keys, Signed(c),
           \A i \in 1..Len(c) : c[i] <= k
    PROVE  Append(c, k) \in Seq(Nat) /\ Signed(Append(c, k))
  <1> DEFINE d == Append(c, k)
  <1>1. d \in Seq(Nat) /\ Len(c) \in Nat /\ Len(d) = Len(c) + 1
    OBVIOUS
  <1>2. \A i \in 1..Len(d) : d[i] = IF i = Len(d) THEN k ELSE c[i]
    OBVIOUS
  <1>3. \A i \in 1..Len(d) : d[i] \in Keys
    BY <1>1, <1>2 DEF Signed
  <1>4. ASSUME NEW i \in 1..Len(d), NEW j \in 1..(i - 1)
        PROVE  d[j] <= d[i]
    <2>1. j \in 1..Len(c) /\ j \in 1..Len(d) /\ j # Len(d) /\ d[j] = c[j]
      BY <1>1, <1>2
    <2>2. CASE i = Len(d)
      BY <1>2, <2>1, <2>2
    <2>3. CASE i # Len(d)
      <3>1. i \in 1..Len(c) /\ d[i] = c[i]
        BY <1>1, <1>2, <2>3
      <3> QED
        BY <2>1, <3>1 DEF Signed
    <2> QED
      BY <2>2, <2>3
  <1> QED
    BY <1>1, <1>3, <1>4 DEF Signed

(* The newest of the keys there have been is on disk.                      *)
LEMMA NewestOnDisk ==
    ASSUME KeyInv, NEW k \in Keys
    PROVE  k \in Nat /\ k <= keyFile
  BY DEF KeyInv, TypeOK, Keys

LEMMA KeyInit == Init => KeyInv
  <1> SUFFICES ASSUME Init PROVE KeyInv
    OBVIOUS
  <1>1. TypeOK
    <2>1. <<>> \in Seq(Nat)
      OBVIOUS
    <2>2. /\ loaded \in [Processes -> Seq(Nat)]
          /\ key \in [Processes -> Nat]
          /\ pc \in [Processes -> {"closed"}]
      BY <2>1 DEF Init, NoKey
    <2>3. verifying \in BOOLEAN /\ misled \in BOOLEAN
      BY Zenon DEF Init
    <2> QED
      BY <2>1, <2>2, <2>3 DEF Init, TypeOK, NoKey
  <1>2. Signed(chain) /\ Signed(evidence)
    BY SignedEmpty DEF Init
  <1>3. \A p \in Processes : pc[p] = "closed"
    BY DEF Init
  <1>4. replaced = {} /\ chain = <<>> /\ evidence = <<>> /\ ~ verifying /\ verdict = "none"
    BY DEF Init
  <1> QED
    BY <1>1, <1>2, <1>3, <1>4 DEF KeyInv, NoFalseAlarm

(* A step that leaves the key file and the chains alone.                   *)
LEMMA KeyRests ==
    ASSUME KeyInv, TypeOK',
           UNCHANGED <<keyFile, chain, evidence, verifying, verdict, replaced, loaded, key>>,
           \A p \in Processes :
              /\ pc'[p] \in {"key", "persist", "rollback"} => pc'[p] = pc[p]
              /\ keyFile = NoKey => pc'[p] \in {"closed", "create"},
           ~ misled' =>
              /\ \A p \in Processes : pc'[p] = "create" => keyFile = NoKey
              /\ \A p, q \in Processes : pc'[p] = "create" /\ pc'[q] = "create" => p = q
    PROVE  KeyInv'
  <1>1. \A c : Signed(c) => Signed(c)'
    BY DEF Signed, Keys
  <1>2. Keys' = Keys
    BY DEF Keys
  <1>3. Signed(chain)' /\ Signed(evidence)'
    BY DEF KeyInv, Signed, Keys
  <1>4. \A p \in Processes :
           pc'[p] \in {"key", "persist", "rollback"} => Signed(loaded[p])'
    BY <1>1 DEF KeyInv, Signed, Keys
  <1>5. NoFalseAlarm'
    BY DEF KeyInv, NoFalseAlarm
  <1> QED
    BY <1>2, <1>3, <1>4, <1>5 DEF KeyInv

LEMMA KeyTypes == TypeOK /\ [Next]_vars => TypeOK'
  <1> SUFFICES ASSUME TypeOK, [Next]_vars PROVE TypeOK'
    OBVIOUS
  <1> USE DEF TypeOK, Goto, NoKey, verifier, history, counters
  <1>1. ReadFault => readFaults' \in Nat
    BY DEF ReadFault
  <1>2. ASSUME NEW p \in Processes, Open(p) PROVE TypeOK'
    <2>1. misled' \in BOOLEAN /\ readFaults' \in Nat
      BY <1>1, <1>2 DEF Open
    <2>2. pc' = [pc EXCEPT ![p] = "open"] \/ pc' = [pc EXCEPT ![p] = "create"]
      BY <1>2 DEF Open
    <2>3. UNCHANGED <<keyFile, chain, generated, loaded, key, verifier, replaced,
                      faults, crashes>>
      BY <1>2 DEF Open
    <2> QED
      BY <2>1, <2>2, <2>3
  <1>3. ASSUME NEW p \in Processes, Create(p) PROVE TypeOK'
    <2> HIDE DEF TypeOK
    <2>1. /\ keyFile' \in {keyFile, generated + 1}
          /\ faults' = faults \/ faults' = faults + 1
      BY <1>3 DEF Create, Write
    <2>2. \E label \in {"open", "closed"} : pc' = [pc EXCEPT ![p] = label]
      BY <1>3 DEF Create
    <2>3. /\ generated' = generated + 1
          /\ replaced' = replaced \cup ({keyFile} \ {NoKey, keyFile'})
          /\ UNCHANGED <<chain, loaded, key, verifier, misled, readFaults, crashes>>
      BY <1>3 DEF Create
    <2>4. /\ generated \in Nat /\ keyFile \in 0..generated /\ replaced \subseteq 1..generated
          /\ faults \in Nat
      BY DEF TypeOK
    <2>5. generated' \in Nat /\ keyFile' \in 0..generated' /\ faults' \in Nat
      BY <2>1, <2>3, <2>4
    <2>6. replaced' \subseteq 1..generated'
      <3> SUFFICES ASSUME NEW k \in replaced'
                   PROVE  k \in 1..generated'
        OBVIOUS
      <3>1. k \in replaced \/ (k = keyFile /\ k # 0)
        BY <2>3
      <3>2. k \in 1..generated
        <4>1. CASE k \in replaced
          BY <2>4, <4>1
        <4>2. CASE k = keyFile /\ k # 0
          BY <2>4, <4>2
        <4> QED
          BY <3>1, <4>1, <4>2
      <3> QED
        BY <2>3, <2>4, <3>2
    <2> QED
      BY <2>2, <2>3, <2>5, <2>6 DEF TypeOK
  <1>4. ASSUME NEW p \in Processes, LoadChain(p) PROVE TypeOK'
    BY <1>4 DEF LoadChain
  <1>5. ASSUME NEW p \in Processes, LoadKey(p) PROVE TypeOK'
    <2>1. /\ readFaults' \in Nat /\ keyFile \in Nat
          /\ key' = [key EXCEPT ![p] = keyFile] \/ key' = key
          /\ pc' = [pc EXCEPT ![p] = "persist"] \/ pc' = [pc EXCEPT ![p] = "open"]
          /\ UNCHANGED <<keyFile, chain, generated, loaded, verifier, faults, crashes, history>>
      BY <1>1, <1>5 DEF LoadKey
    <2> QED
      BY <2>1
  <1>6. ASSUME NEW p \in Processes, Persist(p) PROVE TypeOK'
    <2>1. Append(loaded[p], key[p]) \in Seq(Nat)
      OBVIOUS
    <2>2. /\ chain' \in {chain, Append(loaded[p], key[p])}
          /\ faults' \in Nat
          /\ pc' \in {[pc EXCEPT ![p] = "open"], [pc EXCEPT ![p] = "rollback"]}
          /\ UNCHANGED <<keyFile, generated, loaded, key, verifier, readFaults, crashes, history>>
      BY <1>6 DEF Persist, Write
    <2> QED
      BY <2>1, <2>2
  <1>7. ASSUME NEW p \in Processes, Rollback(p) PROVE TypeOK'
    <2>1. /\ chain' \in {chain, loaded[p]}
          /\ faults' \in Nat
          /\ pc' = [pc EXCEPT ![p] = "open"]
          /\ UNCHANGED <<keyFile, generated, loaded, key, verifier, readFaults, crashes, history>>
      BY <1>7 DEF Rollback, Write
    <2> QED
      BY <2>1
  <1>8. ASSUME NEW p \in Processes, Exit(p) \/ Crash(p) PROVE TypeOK'
    <2>1. /\ pc' = [pc EXCEPT ![p] = "closed"] /\ crashes' \in Nat
          /\ UNCHANGED <<keyFile, chain, generated, loaded, key, verifier, readFaults,
                         faults, history>>
      BY <1>8 DEF Exit, Crash
    <2> QED
      BY <2>1
  <1>9. CASE VerifyRead
    <2>1. /\ evidence' = chain /\ verdict' \in {verdict, "intact"}
          /\ UNCHANGED <<keyFile, chain, generated, pc, loaded, key, counters, history>>
      BY <1>9 DEF VerifyRead
    <2>2. verifying' \in BOOLEAN
      BY <1>9, Zenon DEF VerifyRead
    <2> QED
      BY <2>1, <2>2
  <1>10. CASE VerifySignatures
    <2>1. /\ readFaults' \in Nat /\ verdict' \in {"intact", "signature", "unreadable"}
          /\ UNCHANGED <<keyFile, chain, generated, pc, loaded, key, evidence, faults,
                         crashes, history>>
      BY <1>1, <1>10 DEF VerifySignatures
    <2>2. verifying' \in BOOLEAN
      BY <1>10, Zenon DEF VerifySignatures
    <2> QED
      BY <2>1, <2>2
  <1>11. CASE UNCHANGED vars
    <2>1. UNCHANGED <<keyFile, chain, generated, pc, loaded, key, verifying, evidence,
                      verdict, replaced, misled, readFaults, faults, crashes>>
      BY <1>11 DEF vars
    <2> QED
      BY <2>1
  <1> QED
    BY <1>2, <1>3, <1>4, <1>5, <1>6, <1>7, <1>8, <1>9, <1>10, <1>11 DEF Next, Step

LEMMA KeyStep == KeyInv /\ [Next]_vars => KeyInv'
  <1> SUFFICES ASSUME KeyInv, [Next]_vars PROVE KeyInv'
    OBVIOUS
  <1>1. TypeOK /\ TypeOK'
    BY KeyTypes DEF KeyInv
  <1>2. /\ pc \in [Processes -> Labels] /\ keyFile \in Nat /\ NoKey \in Nat
        /\ key \in [Processes -> Nat] /\ loaded \in [Processes -> Seq(Nat)]
    BY <1>1 DEF TypeOK, Labels, NoKey
  <1>3. ASSUME NEW p \in Processes, Open(p) PROVE KeyInv'
    <2>1. /\ pc[p] = "closed" /\ \A q \in Processes \ {p} : pc'[q] = pc[q]
          /\ UNCHANGED <<keyFile, chain, generated, loaded, key, verifier, replaced>>
      BY <1>2, <1>3 DEF Open, Goto
    <2>2. \/ keyFile # NoKey /\ pc'[p] = "open" /\ misled' = misled
          \/ keyFile # NoKey /\ pc'[p] = "create" /\ misled'
          \/ /\ keyFile = NoKey /\ pc'[p] = "create"
             /\ ~ misled' => ~ misled /\ \A q \in Processes : pc[q] # "create"
      BY <1>2, <1>3 DEF Open, Goto
    <2>3. ASSUME ~ misled'
          PROVE  /\ \A q \in Processes : pc'[q] = "create" => keyFile = NoKey
                 /\ \A q, r \in Processes : pc'[q] = "create" /\ pc'[r] = "create" => q = r
      BY <2>1, <2>2, <2>3 DEF KeyInv
    <2>4. \A q \in Processes :
             /\ pc'[q] \in {"key", "persist", "rollback"} => pc'[q] = pc[q]
             /\ keyFile = NoKey => pc'[q] \in {"closed", "create"}
      BY <2>1, <2>2 DEF KeyInv
    <2> QED
      BY <1>1, <2>1, <2>3, <2>4, KeyRests DEF verifier
  <1>4. ASSUME NEW p \in Processes, Create(p) PROVE KeyInv'
    <2>1. /\ pc[p] = "create" /\ pc'[p] \in {"open", "closed"}
          /\ \A q \in Processes \ {p} : pc'[q] = pc[q]
          /\ generated' = generated + 1
          /\ replaced' = replaced \cup ({keyFile} \ {NoKey, keyFile'})
          /\ UNCHANGED <<chain, loaded, key, verifying, evidence, verdict, misled>>
      BY <1>2, <1>4 DEF Create, Goto, verifier
    <2>2. \/ keyFile' = generated + 1
          \/ keyFile' = keyFile /\ pc'[p] = "closed"
      BY <1>2, <1>4 DEF Create, Write, Goto
    <2>3. CASE keyFile' = keyFile /\ pc'[p] = "closed"
      <3>1. replaced' = replaced
        BY <2>1, <2>3
      <3> QED
        BY <1>1, <2>1, <2>3, <3>1, KeyRests DEF KeyInv
    <2>4. CASE keyFile' = generated + 1
      <3>1. /\ generated \in Nat /\ keyFile < keyFile' /\ keyFile' # NoKey
            /\ \A k \in replaced : k \in Nat /\ k < keyFile'
        BY <1>1, <2>4 DEF TypeOK, NoKey
      <3>2. \A k \in replaced' : k < keyFile'
        BY <2>1, <3>1
      <3>3. keyFile # NoKey => Keys \subseteq Keys'
        BY <2>1, <3>1 DEF Keys
      <3>4. /\ Signed(chain)' /\ Signed(evidence)'
            /\ \A q \in Processes :
                  pc'[q] \in {"key", "persist", "rollback"} => Signed(loaded[q])'
            /\ \A q \in Processes : pc'[q] = "persist" =>
                  key'[q] \in Keys' /\ \A i \in 1..Len(loaded'[q]) : loaded'[q][i] <= key'[q]
        <4>1. CASE keyFile = NoKey
          BY <2>1, <4>1, SignedEmpty DEF KeyInv, Signed
        <4>2. CASE keyFile # NoKey
          BY <2>1, <3>3, <4>2 DEF KeyInv, Signed
        <4> QED
          BY <4>1, <4>2
      <3>6. NoFalseAlarm'
        BY <2>1 DEF KeyInv, NoFalseAlarm
      <3>7. ASSUME ~ misled'
            PROVE  \A q \in Processes : pc'[q] # "create"
        BY <2>1, <3>7 DEF KeyInv
      <3> QED
        BY <1>1, <3>1, <3>2, <3>4, <3>6, <3>7 DEF KeyInv
    <2> QED
      BY <2>2, <2>3, <2>4
  <1>5. ASSUME NEW p \in Processes, LoadChain(p) PROVE KeyInv'
    <2>1. /\ pc[p] = "open" /\ pc'[p] = "key" /\ loaded'[p] = chain
          /\ \A q \in Processes \ {p} : pc'[q] = pc[q] /\ loaded'[q] = loaded[q]
          /\ UNCHANGED <<keyFile, chain, key, evidence, verifying, verdict, replaced, misled>>
      BY <1>2, <1>5 DEF LoadChain, Goto, verifier, history
    <2>2. keyFile # NoKey
      BY <2>1 DEF KeyInv
    <2> QED
      BY <1>1, <2>1, <2>2 DEF KeyInv, Signed, Keys, NoFalseAlarm
  <1>6. ASSUME NEW p \in Processes, LoadKey(p) PROVE KeyInv'
    <2>1. /\ pc[p] = "key" /\ \A q \in Processes \ {p} : pc'[q] = pc[q] /\ key'[q] = key[q]
          /\ UNCHANGED <<keyFile, chain, loaded, evidence, verifying, verdict, replaced, misled>>
      BY <1>2, <1>6 DEF LoadKey, Goto, verifier, history
    <2>2. \/ pc'[p] = "persist" /\ key'[p] = keyFile
          \/ pc'[p] = "open" /\ key' = key
      BY <1>2, <1>6 DEF LoadKey, Goto
    <2>3. keyFile # NoKey /\ Signed(loaded[p])
      BY <2>1 DEF KeyInv
    <2>4. \A i \in 1..Len(loaded[p]) : loaded[p][i] <= keyFile
      BY <2>3, NewestOnDisk DEF Signed
    <2>5. \A q \in Processes : pc'[q] = "persist" =>
             key'[q] \in Keys' /\ \A i \in 1..Len(loaded'[q]) : loaded'[q][i] <= key'[q]
      BY <2>1, <2>2, <2>4 DEF KeyInv, Keys
    <2>6. \A q \in Processes :
             pc'[q] \in {"key", "persist", "rollback"} => Signed(loaded[q])'
      BY <2>1, <2>3 DEF KeyInv, Signed, Keys
    <2> QED
      BY <1>1, <2>1, <2>2, <2>3, <2>5, <2>6 DEF KeyInv, Signed, Keys, NoFalseAlarm
  <1>7. ASSUME NEW p \in Processes, Persist(p) PROVE KeyInv'
    <2>1. /\ pc[p] = "persist" /\ pc'[p] \in {"open", "rollback"}
          /\ \A q \in Processes \ {p} : pc'[q] = pc[q]
          /\ chain' \in {chain, Append(loaded[p], key[p])}
          /\ UNCHANGED <<keyFile, loaded, key, evidence, verifying, verdict, replaced, misled>>
      BY <1>2, <1>7 DEF Persist, Write, Goto, verifier, history
    <2>2. Signed(chain) /\ Signed(Append(loaded[p], key[p]))
      BY <1>2, <2>1, SignedAppend DEF KeyInv
    <2>3. Signed(chain)'
      BY <2>1, <2>2 DEF Signed, Keys
    <2>4. keyFile # NoKey
      BY <2>1 DEF KeyInv
    <2> QED
      BY <1>1, <2>1, <2>3, <2>4 DEF KeyInv, Signed, Keys, NoFalseAlarm
  <1>8. ASSUME NEW p \in Processes, Rollback(p) PROVE KeyInv'
    <2>1. /\ pc[p] = "rollback" /\ pc'[p] = "open"
          /\ \A q \in Processes \ {p} : pc'[q] = pc[q]
          /\ chain' \in {chain, loaded[p]}
          /\ UNCHANGED <<keyFile, loaded, key, evidence, verifying, verdict, replaced, misled>>
      BY <1>2, <1>8 DEF Rollback, Write, Goto, verifier, history
    <2>2. Signed(chain)'
      BY <2>1 DEF KeyInv, Signed, Keys
    <2>3. keyFile # NoKey
      BY <2>1 DEF KeyInv
    <2> QED
      BY <1>1, <2>1, <2>2, <2>3 DEF KeyInv, Signed, Keys, NoFalseAlarm
  <1>9. ASSUME NEW p \in Processes, Exit(p) \/ Crash(p) PROVE KeyInv'
    <2>1. /\ pc'[p] = "closed" /\ \A q \in Processes \ {p} : pc'[q] = pc[q]
          /\ UNCHANGED <<keyFile, chain, evidence, verifying, verdict, replaced, misled,
                         loaded, key>>
      BY <1>2, <1>9 DEF Exit, Crash, Goto, verifier, history
    <2> QED
      BY <1>1, <2>1, KeyRests DEF KeyInv
  <1>10. CASE VerifyRead
    <2>1. /\ evidence' = chain
          /\ verifying' \/ (chain = <<>> /\ verdict' = "intact")
          /\ UNCHANGED <<keyFile, chain, pc, loaded, key, replaced, misled>>
      BY <1>10 DEF VerifyRead, history
    <2>2. Signed(chain)' /\ Signed(evidence)'
      BY <2>1 DEF KeyInv, Signed, Keys
    <2>3. \A q \in Processes :
             pc'[q] \in {"key", "persist", "rollback"} => Signed(loaded[q])'
      BY <2>1 DEF KeyInv, Signed, Keys
    <2> QED
      BY <1>1, <2>1, <2>2, <2>3 DEF KeyInv, Keys, NoFalseAlarm
  <1>11. CASE VerifySignatures
    <2>1. /\ verdict' = "signature" => ~ SignedBy(evidence, keyFile)
          /\ UNCHANGED <<keyFile, chain, pc, loaded, key, evidence, replaced, misled>>
      BY <1>11 DEF VerifySignatures, history
    <2>2. NoFalseAlarm'
      BY <2>1 DEF KeyInv, Signed, SignedBy, Keys, NoFalseAlarm
    <2>3. /\ Signed(chain)' /\ Signed(evidence)'
          /\ \A q \in Processes :
                pc'[q] \in {"key", "persist", "rollback"} => Signed(loaded[q])'
      BY <2>1 DEF KeyInv, Signed, Keys
    <2> QED
      BY <1>1, <2>1, <2>2, <2>3 DEF KeyInv, Keys
  <1>12. CASE UNCHANGED vars
    BY <1>1, <1>12, KeyRests DEF vars, verifier, history, KeyInv
  <1> QED
    BY <1>3, <1>4, <1>5, <1>6, <1>7, <1>8, <1>9, <1>10, <1>11, <1>12 DEF Next, Step

LEMMA KeyInvariant == Spec => []KeyInv
  BY KeyInit, KeyStep, PTL DEF Spec

(* The key on disk verifies the records of the chain on disk, but those    *)
(* signed with a key that an open has overwritten, which come before all   *)
(* that it verifies: through failed writes, rollbacks, crashes, racing     *)
(* opens and failed reads (ensureSigningKey, append, persistChain).        *)
THEOREM SignaturesAlwaysVerify == Spec => []SignaturesVerify
  <1>1. ASSUME KeyInv PROVE SignaturesVerify
    <2> SUFFICES ASSUME NEW i \in 1..Len(chain), chain[i] # keyFile
                 PROVE  chain[i] \in replaced /\ \A j \in 1..(i - 1) : chain[j] # keyFile
      BY DEF SignaturesVerify
    <2>1. /\ Signed(chain) /\ keyFile \in Nat /\ Len(chain) \in Nat
          /\ \A k \in replaced : k \in Nat /\ k < keyFile
      BY <1>1 DEF KeyInv, TypeOK
    <2>2. chain[i] \in replaced /\ chain[i] \in Nat /\ chain[i] < keyFile
      BY <2>1 DEF Signed, Keys
    <2>3. ASSUME NEW j \in 1..(i - 1) PROVE chain[j] # keyFile
      <3>1. chain[j] <= chain[i]
        BY <2>1 DEF Signed
      <3> QED
        BY <2>1, <2>2, <3>1
    <2> QED
      BY <2>2, <2>3
  <1> QED
    BY <1>1, KeyInvariant, PTL

(* VerifyChainFromStoreDir reports a bad signature only for a record whose *)
(* key was overwritten, although others write between its two reads.       *)
THEOREM NeverFalseAlarm == Spec => []NoFalseAlarm
  <1>1. KeyInv => NoFalseAlarm
    BY DEF KeyInv
  <1> QED
    BY <1>1, KeyInvariant, PTL

(* ensureSigningKey replaces the key of a chain that has, or is about to   *)
(* get, records only after an open was misled about the key.               *)
THEOREM KeyAlwaysOutlivesChain == Spec => KeyOutlivesChain
  <1> DEFINE Busy == chain # <<>> \/ \E p \in Processes : pc[p] = "persist"
  <1>1. ASSUME KeyInv, [Next]_vars, Busy
        PROVE  keyFile' = keyFile \/ misled
    <2> SUFFICES ASSUME ~ misled PROVE keyFile' = keyFile
      OBVIOUS
    <2>1. keyFile # NoKey
      BY <1>1 DEF KeyInv
    <2>2. \A p \in Processes : ~ Create(p)
      BY <1>1, <2>1 DEF KeyInv, Create
    <2> QED
      BY <1>1, <2>2 DEF Next, Step, vars, Open, LoadChain, LoadKey, Persist,
         Rollback, Exit, Crash, VerifyRead, VerifySignatures
  <1>2. KeyInv /\ [Next]_vars => [Busy => keyFile' = keyFile \/ misled]_vars
    BY <1>1
  <1> QED
    BY <1>2, KeyInvariant, PTL DEF Spec, KeyOutlivesChain

=============================================================================

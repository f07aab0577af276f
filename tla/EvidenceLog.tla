---------------------------- MODULE EvidenceLog ----------------------------
(***************************************************************************)
(* What the evidence store promises its callers, with no files, no mutex   *)
(* and no failures: one log that only grows, in which a record is written  *)
(* at most once per dedupe key, and answers that are never taken back.     *)
(*                                                                         *)
(* The promise has a hole.  An append that fails, or whose process dies,   *)
(* may leave its key in the dedupe index and nothing in the log; while the *)
(* key is there the store answers "deduped" for a record that it has not.  *)
(* EvidenceStore implements this log when one process owns the directory.  *)
(***************************************************************************)
EXTENDS Sequences, Naturals

CONSTANTS
    Records,       \* the proof records callers may append
    Repeats(_, _), \* Repeats(log, r): the content of a record of log has r's key
    KeyOf(_),      \* KeyOf(r): the key the caller passes with r
    Leavable       \* the records whose failed append may leave its key

VARIABLES
    log,     \* the records of the chain, oldest first
    acks,    \* the answers "appended": the record and the chain it was put on
    left,    \* the keys that undone appends left in the index
    skipped  \* the records answered "deduped"

vars == <<log, acks, left, skipped>>

Init == log = <<>> /\ acks = {} /\ left = {} /\ skipped = {}

(* A record goes to the end of the log; its caller may be told, or may get *)
(* an error although the record is there (a crash, a failed directory      *)
(* sync).  Only an appended record is ever acknowledged.                   *)
Append1(r) ==
    /\ ~ Repeats(log, r)
    /\ log' = Append(log, r)
    /\ acks' \in {acks, acks \cup {[rec |-> r, head |-> Append(log, r)]}}
    /\ UNCHANGED <<left, skipped>>

(* An append is undone, all but its key.                                   *)
Leave(r) ==
    /\ r \in Leavable
    /\ left' = left \cup {KeyOf(r)}
    /\ UNCHANGED <<log, acks, skipped>>

(* What may be answered "deduped": a record whose key or content the log   *)
(* has, or whose key was left behind.                                      *)
Known(r) ==
    \/ Repeats(log, r)
    \/ \E i \in DOMAIN log : KeyOf(log[i]) = KeyOf(r)
    \/ KeyOf(r) \in left

Skip(r) ==
    /\ Known(r)
    /\ skipped' = skipped \cup {r}
    /\ UNCHANGED <<log, acks, left>>

Next == \E r \in Records : Append1(r) \/ Leave(r) \/ Skip(r)

Spec == Init /\ [][Next]_vars
=============================================================================

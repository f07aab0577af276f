---------------------------- MODULE GaitIngestMC ----------------------------
EXTENDS GaitIngest

Item(type, id, key, links, state, bundle) ==
    [type |-> type, id |-> id, key |-> key, links |-> links,
     state |-> state, bundle |-> bundle]

(* A pack whose artifact links to its own record and its own approval; one *)
(* whose artifact links to the other's, with a repeated record; one with a *)
(* lifecycle record passed through; a lifecycle pack issued again under    *)
(* another RecordID; and packs that are refused, one for every reason.     *)
MCPacks ==
    [a |-> [form |-> "directory", items |->
        <<Item("artifact", "a3", "k3", {"a1", "a2"}, "plain", "b1"),
          Item("native", "a2", "k2", {}, "plain", ""),
          Item("native", "a4", "k4", {}, "untranslatable", ""),
          Item("proof", "a1", "k1", {}, "plain", "")>>],
     b |-> [form |-> "zip", items |->
        <<Item("artifact", "b3", "k5", {"a1", "b1"}, "plain", "b2"),
          Item("artifact", "b4", "k6", {}, "unsupported", "b2"),
          Item("proof", "b1", "k2", {}, "plain", "")>>],
     lifecycle |-> [form |-> "directory", items |->
        <<Item("artifact", "c2", "k8", {"c1"}, "plain", "b3"),
          Item("lifecycle", "c1", "k7", {}, "authoritative", "")>>],
     reissued |-> [form |-> "file", items |->
        <<Item("lifecycle", "c9", "k7", {}, "authoritative", "")>>],
     fixture |-> [form |-> "file", items |->
        <<Item("lifecycle", "d1", "k9", {}, "fixture", "")>>],
     forged |-> [form |-> "directory", items |->
        <<Item("lifecycle", "e1", "k10", {}, "refused", "")>>],
     passed |-> [form |-> "file", items |->
        <<Item("proof", "f1", "k11", {}, "plain", ""),
          Item("proof", "f2", "k12", {}, "unattested", "")>>],
     twice |-> [form |-> "zip", items |->
        <<Item("artifact", "g1", "k13", {}, "plain", "b4"),
          Item("artifact", "g2", "k14", {}, "plain", "b4")>>],
     empty |-> [form |-> "directory", items |->
        <<Item("other", "h1", "k15", {}, "plain", "")>>]]

MCRequests == {<<"a">>, <<"b">>, <<"a", "b">>, <<"b", "a">>,
               <<"a", "lifecycle">>, <<"lifecycle", "a">>, <<"fixture", "a">>,
               <<"lifecycle", "reissued">>,
               <<"a", "forged">>, <<"a", "passed">>, <<"a", "twice">>,
               <<"a", "empty">>}
=============================================================================

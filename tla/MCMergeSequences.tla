-------------------------- MODULE MCMergeSequences --------------------------
(* Small values for MergeSequences: one list key and a stranger's key, two   *)
(* users, one of them also spelled in capitals, and one malformed entry.     *)
EXTENDS MergeSequences

MCKeys == {"list", "stranger"}
MCWellFormed == {"alice", "ALICE", "bob"}
MCEntries == MCWellFormed \cup {"junk"}
MCUsers == {"alice", "bob"}
MCLower == [e \in MCWellFormed |-> IF e = "bob" THEN "bob" ELSE "alice"]

Event(author, kind, dTag, sig, t, form, entries, pTags) ==
  [author |-> author, kind |-> kind, dTag |-> dTag, sig |-> sig, createdAt |-> t,
   form |-> form, sealedTo |-> author, entries |-> entries, pTags |-> pTags]

(* Every shape of the list at two times, one of them sealed to a key that is *)
(* not the owner's; impostors and the malformed are newer still.             *)
MCCandidates ==
  UNION {
    {Event("list", KindPrivateList, FALSE, "valid", t, "tagArray", {"ALICE", "junk"}, {"bob"}) : t \in 1 .. 2},
    {Event("list", KindPrivateList, FALSE, "valid", t, "tagArray", {}, {"bob"}) : t \in 1 .. 2},
    {[Event("list", KindPrivateList, FALSE, "valid", t, "tagArray", {"bob"}, {"alice"})
        EXCEPT !.sealedTo = "stranger"] : t \in 1 .. 2},
    {Event("list", KindAppData, TRUE, "valid", t, "appData", es, {"alice"}) : t \in 1 .. 2, es \in {{}, {"bob"}}},
    {Event("list", KindPrivateList, FALSE, "valid", t, "none", {}, {"alice", "bob"}) : t \in {NoTime, 2}},
    {Event("list", KindAppData, TRUE, "valid", 2, "opaque", {"alice"}, {"junk"})},
    {Event("list", KindAppData, FALSE, "valid", 3, "appData", {"bob"}, {"bob"})},
    {Event("list", 1, FALSE, sig, 3, "none", {}, {"bob"}) : sig \in {"valid", "malformed"}},
    {Event("list", KindPrivateList, FALSE, "forged", t, "none", {}, {"bob"}) : t \in {1, 3}},
    {Event("list", KindPrivateList, FALSE, "malformed", 3, "none", {}, {"bob"})},
    {Event("stranger", KindPrivateList, FALSE, sig, 3, "tagArray", {"bob"}, {"bob"}) :
       sig \in {"valid", "malformed"}}
  }
=============================================================================

--------------------------- MODULE MCAllowlistSync ---------------------------
(* Small values for AllowlistSync: two list keys, two users, two relays.     *)
EXTENDS AllowlistSync

MCWellFormed == {"alice", "ALICE", "bob"}
MCEntries == MCWellFormed \cup {"junk"}
MCUsers == {"alice", "bob"}
MCLower == [e \in MCWellFormed |-> IF e = "bob" THEN "bob" ELSE "alice"]

Event(author, kind, sig, t, form, entries, pTags) ==
  [author |-> author, kind |-> kind, dTag |-> kind = KindAppData, sig |-> sig,
   createdAt |-> t, form |-> form, sealedTo |-> author, entries |-> entries,
   pTags |-> pTags]

Config(key, rs, minutes, kind) ==
  [npub |-> key, nsec |-> key, relays |-> rs, minutes |-> minutes, listKind |-> kind]

Both == Event("k1", KindPrivateList, "valid", 1, "tagArray", {"ALICE", "bob"}, {})
OnlyAlice == Event("k1", KindPrivateList, "valid", 2, "tagArray", {"alice"}, {})
Rotated == Event("k2", KindPrivateList, "valid", 1, "none", {}, {"bob"})
Forged == Event("k1", KindPrivateList, "forged", 3, "none", {}, {"bob"})
Crash == Event("k1", KindAppData, "malformed", 3, "none", {}, {"bob"})

(* Two versions of a list, a second list key whose configuration holds the   *)
(* wrong secret, a forgery, and a candidate that makes the merge throw.      *)
SyncEvents == {Both, OnlyAlice, Rotated}
SyncNoise == {Forged, Crash}
SyncConfigs == {Config("k1", <<"r1", "r2">>, 10, KindPrivateList),
                [Config("k2", <<"r2">>, 10, KindPrivateList) EXCEPT !.nsec = "k1"]}

OneRelay == {Config("k1", <<"r1">>, 10, KindPrivateList)}
TwoRelays == {Config("k1", <<"r1", "r2">>, 10, KindPrivateList)}
TwoVersions == {Both, OnlyAlice}
=============================================================================

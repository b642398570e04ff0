------------------------- MODULE MCUserProvisioning -------------------------
(* Small values for UserProvisioning: two keys, and one name that is none of *)
(* the npub names.                                                           *)
EXTENDS UserProvisioning

MCPubkeys == {"alice", "bob"}
MCNames == {"npub1alice", "npub1bob", "renamed"}
MCNpub == [p \in MCPubkeys |-> IF p = "alice" THEN "npub1alice" ELSE "npub1bob"]

OneKey == {"alice"}
OneNpub == [p \in OneKey |-> "npub1alice"]
OneKeyNames == {"npub1alice", "renamed"}
=============================================================================

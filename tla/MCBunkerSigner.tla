--------------------------- MODULE MCBunkerSigner ---------------------------
(* Small values for BunkerSigner: two relays, links that carry none, one or  *)
(* both, and signers that move the client.                                   *)
EXTENDS BunkerSigner

MCOffers == {{}, {"r1"}, {"r1", "r2"}}
MCSwitches == {{}, {"r2"}}

BothRelays == {{"r1", "r2"}}
NoSwitch == {{"r1", "r2"}}
=============================================================================

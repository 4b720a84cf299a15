------------------------ MODULE MCGatewayReputation ------------------------
(* GatewayReputation for TLC.                                              *)
EXTENDS GatewayReputation, TLC
CONSTANTS d1, d2
Two == {d1, d2}
Alike == Permutations(Two)
=============================================================================

---------------------------- MODULE MCFleetChain ----------------------------
(***************************************************************************)
(* FleetChain for TLC: two devices with every scheme and one that cannot   *)
(* make hash-based signatures, so that a promotion can leave it behind.    *)
(***************************************************************************)
EXTENDS FleetChain

CONSTANTS d1, d2, d3, Ed25519, Falcon512, SphincsPlus

MCDevice == {d1, d2, d3}
MCScheme == {Ed25519, Falcon512, SphincsPlus}
MCBase == {Ed25519}
MCCapable == [d \in MCDevice |-> IF d = d3 THEN {Ed25519, Falcon512} ELSE MCScheme]
=============================================================================

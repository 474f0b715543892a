---------------------------- MODULE MCFleetClient ----------------------------
(***************************************************************************)
(* FleetClient for TLC: two members whose calls contend for the head while *)
(* a third device joins and leaves.                                        *)
(***************************************************************************)
EXTENDS FleetClient

CONSTANTS d1, d2, d3, c1, c2, Ed25519, Falcon512

MCDevice == {d1, d2, d3}
MCScheme == {Ed25519, Falcon512}
MCBase == {Ed25519}
MCCapable == [d \in MCDevice |-> IF d = d3 THEN MCBase ELSE MCScheme]
MCClient == {c1, c2}
MCHome == [c \in MCClient |-> IF c = c1 THEN d1 ELSE d2]

Do(kind, target) == [kind |-> kind, target |-> target, k |-> 1]
Mint(d, k) == [kind |-> "checkpoint", target |-> d, k |-> k]

SponsorIntent == [c \in MCClient |->
  IF c = c1
  THEN {Do("bind", d3), Do("remove", d3), Do("depart", d1), Mint(d1, 1), Mint(d1, 2)}
  ELSE {Do("bind", d3), Do("declare", d2), Do("lock", d3), Do("unlock", d3), Do("depart", d2), Mint(d2, 2)}]
Guests == {d3}
Couple == {d1, d2}
=============================================================================

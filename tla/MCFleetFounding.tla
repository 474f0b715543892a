--------------------------- MODULE MCFleetFounding ---------------------------
(***************************************************************************)
(* FleetFounding for TLC: two devices, and as readers one of them and a      *)
(* contact.                                                                *)
(***************************************************************************)
EXTENDS FleetFounding

CONSTANTS a, b, friend

MCDevice == {a, b}
MCReader == {a, friend}
\* One clock runs behind the other.
MCClock == [d \in MCDevice |-> IF d = a THEN 1 ELSE 0]
=============================================================================

---------------------------- MODULE MCTraversal ----------------------------
(***************************************************************************)
(* Traversal for TLC: a node that moves from a home network with a sibling *)
(* on it to another one, and a peer whose LAN has the home's subnet.       *)
(***************************************************************************)
EXTENDS Traversal

CONSTANTS home, office, sibling, s1, s2, cafe

MCNet == {home, cafe}
MCSubnet == [n \in MCNet \cup {office} |-> IF n \in {home, office} THEN 0 ELSE 1]
MCFamily == [n \in MCNet |-> 4]
MCObserver == {sibling, s1, s2}
MCTrusted == {sibling}
MCSite == [o \in MCObserver |-> IF o = sibling THEN home ELSE office]
=============================================================================

----------------------------- MODULE MCFleetKey -----------------------------
(***************************************************************************)
(* FleetKey for TLC: a member that stays, one that comes and goes, and a   *)
(* third device that joins; the first and the third run the application.   *)
(***************************************************************************)
EXTENDS FleetKey

CONSTANTS d1, d2, d3

MCDevice == {d1, d2, d3}
MCEnrolled == {d1, d2}
MCJoiner == {d3}
MCLeaver == {d2}
MCLockable == {d3}
MCCaller == {d1, d3}
=============================================================================

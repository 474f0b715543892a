------------------------- MODULE MCPhonebookRecords -------------------------
(***************************************************************************)
(* PhonebookRecords for TLC: a device that publishes, a sibling whose      *)
(* declaration lifts the floor.                                            *)
(***************************************************************************)
EXTENDS PhonebookRecords

CONSTANTS p, q, h1, h2, a1, a2, Ed25519, Falcon512

MCDevice == {p, q}
MCPublisher == {p}
MCHandle == {h1, h2}
MCAddress == {a1, a2}
MCScheme == {Ed25519, Falcon512}
=============================================================================

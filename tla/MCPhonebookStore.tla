-------------------------- MODULE MCPhonebookStore --------------------------
(***************************************************************************)
(* The two parts of src/phonebook.rs that keep records in place, for TLC:  *)
(* PhonebookSlice, where a host keeps the records of its slice, and        *)
(* PhonebookRegistry, the run of records that siblings keep of themselves. *)
(* They share nothing, so a behaviour moves the one or the other.          *)
(*                                                                         *)
(* The slice has five keys, of which three want the first slot and all     *)
(* cannot fit in the four there are, and is offered a key of another       *)
(* slice.  The registry is of a fleet of two, one of which may leave, and  *)
(* a third device that may join; all three keep it.                        *)
(***************************************************************************)
EXTENDS PhonebookSlice, PhonebookRegistry

CONSTANTS d1, d2, d3

VARIABLE part   \* which of the two the behaviour is about

MCSlots == 4
MCKey == 1..6
MCHere == 1..5
MC_slot_of ==
  [k \in MCKey |-> CASE k \in 1..3 -> 0 [] k = 4 -> 2 [] k = 5 -> 3 [] k = 6 -> 1]

Rec(k) == [key |-> k, epoch |-> 1]
Body(places) ==
  [s \in 0..MCSlots-1 |-> IF s \in DOMAIN places THEN Rec(places[s]) ELSE Empty]

\* What a host that ran the same code may hold, and send.
FromPeers == {
  Body([s \in {0, 1} |-> s + 2]),
  Body([s \in {0, 2, 3} |-> IF s = 0 THEN 1 ELSE s + 2])}

MCPubkey == {d1, d2, d3}
MCFounders == <<d1, d2>>
MCSibling == MCPubkey
MCJoiner == {d3}
MCLeaver == {d1}

StoreVars == <<sliceVars, registryVars, part>>
StoreInit == SliceInit /\ RegistryInit /\ part \in {"slice", "registry"}
StoreNext ==
  \/ part = "slice" /\ SliceNext /\ UNCHANGED <<registryVars, part>>
  \/ part = "registry" /\ RegistryNext /\ UNCHANGED <<sliceVars, part>>
StoreSpec == StoreInit /\ [][StoreNext]_StoreVars
=============================================================================

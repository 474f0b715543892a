---------------------------- MODULE MCFleetState ----------------------------
(***************************************************************************)
(* FleetState for TLC: two devices, one friend and one setting.            *)
(***************************************************************************)
EXTENDS FleetState

CONSTANTS d1, d2, f1

\* A roster and settings left by a device that is gone.
OldFriend == With(Nothing, f1, [updated |-> 0, tombstone |-> FALSE, trust |-> 0, consent |-> FALSE])
OldGlobals == With(Nothing, 0, [value |-> 1, updated |-> 0, tombstone |-> FALSE])
Old == fstate_to_bytes([roster |-> OldFriend, globals |-> OldGlobals, maps |-> Nothing])

NeverStored == NoDocument
Legacy == [kind |-> "legacy"]
OlderRosterOnly == [roster_to_bytes(OldFriend) EXCEPT !.roster.form = "v6"]
OtherSettings == [Old EXCEPT !.roster.rows[f1].consent = {}, !.globals.form = "v8"]
OtherRoster == [Old EXCEPT !.roster.form = "other", !.globals.form = "v8"]
Broken == [kind |-> "broken"]
GarbledMaps == [Old EXCEPT !.globals.form = "v6", !.devices.form = "corrupt"]

MCDevice == {d1, d2}
MCFaulty == {d2}
MCMayUpgrade == {d2}
MCFriend == {f1}
MCSetting == {0}
MCValue == {0, 1}
MCTrust == {0, 1}
MCStored == {NeverStored, Legacy, OlderRosterOnly, OtherRoster, OtherSettings, GarbledMaps, Broken}
=============================================================================

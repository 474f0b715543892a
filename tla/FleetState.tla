----------------------------- MODULE FleetState -----------------------------
(***************************************************************************)
(* The state a fleet shares (src/fstate.rs, and its transport in           *)
(* src/client.rs): a roster of friends, the settings every device follows, *)
(* and each device's own settings.  A device merges what is stored into    *)
(* what it holds and stores the result, sealed under the fleet key.  The   *)
(* store is blind: it takes whatever a member posts last.  A device may be *)
(* upgraded to a newer build, whose documents this one cannot read.        *)
(*                                                                         *)
(* Abstractions.  The layers are functions from their keys to entries.  Of *)
(* what a roster entry says, its trust and its consent are kept; a setting *)
(* key and a value are their ranks in the order of their bytes.  A fleet   *)
(* key is its number.  Which edits are made, when a device synchronises    *)
(* and the discipline of a mint (pull, mint, store again) are the          *)
(* application's.  Of a newer build it is assumed that it is this code     *)
(* with a later version of the settings, and that it reads the earlier.    *)
(***************************************************************************)
EXTENDS Integers, FiniteSets, FiniteSetsExt

CONSTANTS
  Device,    \* the fleet's devices
  Friend,    \* contacts
  Setting,   \* setting keys
  Value,     \* setting values
  Trust,     \* trust levels
  Faulty,    \* devices that may stop, or lose a post
  MayUpgrade, \* devices that may be upgraded to a newer build
  Stored,    \* what the slot may hold at the start
  MaxTime,   \* bound: the last instant an edit is made
  MaxEdits,  \* bound: edits and upgrades made
  MaxKey     \* bound: the last fleet key

ASSUME StateAssumption ==
  /\ Faulty \subseteq Device /\ MayUpgrade \subseteq Device /\ Device # {}
  /\ Setting \subseteq Nat /\ Value \subseteq Nat /\ Trust \subseteq Nat
  /\ 0 \in Trust
  /\ MaxTime \in Nat /\ MaxEdits \in Nat /\ MaxKey \in Nat

VARIABLES
  clock,     \* now
  slot,      \* the stored document
  local,     \* the state each device holds
  call,      \* the synchronisation each device is in
  fleetKey,  \* the key of the published fan-out
  holds,     \* the fleet key each device holds
  upgraded,  \* the devices that run a newer build by now
  (* history, read by properties only *)
  edits,     \* how many edits were made
  best,      \* the winner of all writes ever made
  late       \* devices in a call, since whose pull a newer build has stored

stateVars == <<clock, slot, local, call, fleetKey, holds, upgraded, edits, best, late>>

Nothing == [x \in {} |-> 0]
EmptyState == [roster |-> Nothing, globals |-> Nothing, maps |-> Nothing]

\* The layers are partial functions from their keys.
Layer(Keys, Entries) == UNION {[S -> Entries] : S \in SUBSET Keys}
MapContents == Layer(Setting, Value)
Entry == [updated : 0..MaxTime, tombstone : BOOLEAN, trust : Trust, consent : BOOLEAN]
GlobalEntry == [value : Value, updated : 0..MaxTime, tombstone : BOOLEAN]
OwnMap == [updated : 0..MaxTime, entries : MapContents]
State == [roster : Layer(Friend, Entry), globals : Layer(Setting, GlobalEntry),
          maps : Layer(Device, OwnMap)]

-----------------------------------------------------------------------------
(* Merging: per key the newer of two entries, and an order that leaves no  *)
(* tie undecided.                                                          *)

\* roster_entry_canon compares what the entries say, trust before consent.
Bug_NoCanon(e, f) == FALSE
RosterCanonGreater(e, f) ==
  e.trust > f.trust \/ (e.trust = f.trust /\ e.consent /\ ~f.consent)

Bug_NewestOnly(e, cur) == e.updated > cur.updated
NewerFriend(e, cur) ==
  \/ e.updated > cur.updated
  \/ /\ e.updated = cur.updated
     /\ \/ e.tombstone /\ ~cur.tombstone
        \/ e.tombstone = cur.tombstone /\ RosterCanonGreater(e, cur)

NewerGlobal(e, cur) ==
  \/ e.updated > cur.updated
  \/ /\ e.updated = cur.updated
     /\ \/ e.tombstone /\ ~cur.tombstone
        \/ e.tombstone = cur.tombstone /\ e.value > cur.value

\* device_map_canon: the lists of (key, value) in the order of the keys.
Differing(x, y) ==
  {k \in DOMAIN x \cup DOMAIN y :
     ~(k \in DOMAIN x /\ k \in DOMAIN y /\ x[k] = y[k])}
MapCanonGreater(x, y) ==
  \E k \in Differing(x, y) :
    /\ \A j \in Differing(x, y) : k <= j
    /\ \/ k \in DOMAIN x /\ k \in DOMAIN y /\ x[k] > y[k]
       \/ k \notin DOMAIN y /\ \A j \in DOMAIN y : j < k
       \/ k \notin DOMAIN x /\ \E j \in DOMAIN x : j > k

NewerMap(m, cur) ==
  \/ m.updated > cur.updated
  \/ m.updated = cur.updated /\ MapCanonGreater(m.entries, cur.entries)

\* newer: the keys under which the second layer wins; of two equals the stable
\* sort keeps the first.
merge_by_key(a, b, newer) ==
  [k \in DOMAIN a \cup DOMAIN b |-> IF k \in DOMAIN a \ newer THEN a[k] ELSE b[k]]

merge_rosters(a, b) ==
  merge_by_key(a, b, {k \in DOMAIN a \cap DOMAIN b : NewerFriend(b[k], a[k])})
merge_global_settings(a, b) ==
  merge_by_key(a, b, {k \in DOMAIN a \cap DOMAIN b : NewerGlobal(b[k], a[k])})
Bug_OnlyMyOwn(a, b) == b
merge_device_settings(a, b) ==
  merge_by_key(a, b, {k \in DOMAIN a \cap DOMAIN b : NewerMap(b[k], a[k])})

merge_fstate(a, b) ==
  [roster  |-> merge_rosters(a.roster, b.roster),
   globals |-> merge_global_settings(a.globals, b.globals),
   maps    |-> merge_device_settings(a.maps, b.maps)]

-----------------------------------------------------------------------------
(* The document: three sections of rows, each with its version.            *)

\* A row without a word on consent is of a friendship older than the field.
RosterRows(roster) == [f \in DOMAIN roster |-> [roster[f] EXCEPT !.consent = {@}]]
RosterEntries(rows) == [f \in DOMAIN rows |-> [rows[f] EXCEPT !.consent = FALSE \notin @]]

NoEntry == [key |-> -1, value |-> -1]

\* One row for every device and entry; an empty map has a row for its clock.
Bug_NoBareRow(maps) ==
  UNION {{[device |-> d, map_updated |-> maps[d].updated,
           entry |-> [key |-> k, value |-> maps[d].entries[k]]] : k \in DOMAIN maps[d].entries}
         : d \in DOMAIN maps}
DeviceRows(maps) ==
  UNION {LET row(e) == [device |-> d, map_updated |-> maps[d].updated, entry |-> e]
         IN  IF maps[d].entries = Nothing
             THEN {row(NoEntry)}
             ELSE {row([key |-> k, value |-> maps[d].entries[k]]) : k \in DOMAIN maps[d].entries}
         : d \in DOMAIN maps}

DeviceMaps(rows) ==
  LET of(d) == {r \in rows : r.device = d}
      named(d) == {r.entry : r \in of(d)} \ {NoEntry}
  IN  [d \in {r.device : r \in rows} |->
         [updated |-> Max({r.map_updated : r \in of(d)}),
          entries |-> [k \in {e.key : e \in named(d)} |->
                         (CHOOSE e \in named(d) : e.key = k).value]]]

Absent == [form |-> "absent", rows |-> Nothing]
Section(rows) == [form |-> "v7", rows |-> rows]
VersionMatches(section) == section.form \in {"v6", "v7"}

fstate_to_bytes(st) ==
  [kind |-> "document", roster |-> Section(RosterRows(st.roster)), globals |-> Section(st.globals),
   devices |-> Section(DeviceRows(st.maps))]

\* A document of an older build that pushed the roster alone.
roster_to_bytes(roster) ==
  [kind |-> "document", roster |-> Section(RosterRows(roster)), globals |-> Absent, devices |-> Absent]

Read(st) == [ok |-> TRUE, state |-> st]
Unreadable == [ok |-> FALSE, state |-> EmptyState]

\* An absent layer of settings is empty; one that cannot be read is an error.
Bug_ReadsAnySettings(section) == TRUE
SettingsReadable(section) == section.form = "absent" \/ VersionMatches(section)

\* The hand-rolled tags read as absent; a roster that cannot be read as empty.
fstate_from_bytes(doc) ==
  CASE doc.kind = "legacy" -> Read(EmptyState)
    [] doc.kind = "broken" -> Unreadable
    [] doc.kind = "document" ->
         IF SettingsReadable(doc.globals) /\ SettingsReadable(doc.devices)
         THEN Read([roster  |-> IF VersionMatches(doc.roster) THEN RosterEntries(doc.roster.rows) ELSE Nothing,
                    globals |-> IF VersionMatches(doc.globals) THEN doc.globals.rows ELSE Nothing,
                    maps    |-> IF VersionMatches(doc.devices)
                                THEN DeviceMaps(doc.devices.rows) ELSE Nothing])
         ELSE Unreadable

\* A newer build: the same with a version of its own on the settings.
newer_to_bytes(st) == [fstate_to_bytes(st) EXCEPT !.globals.form = "v8"]
newer_from_bytes(doc) ==
  fstate_from_bytes(IF doc.kind = "document" /\ doc.globals.form = "v8"
                    THEN [doc EXCEPT !.globals.form = "v7"] ELSE doc)

\* What is stored at the start reads as a state, where it reads at all.
ASSUME StoredAssumption ==
  \A doc \in Stored : doc.kind = "none" \/ newer_from_bytes(doc).state \in State

-----------------------------------------------------------------------------
(* Synchronising. *)

Idle == [at |-> "idle", key |-> 0]
NoDocument == [kind |-> "none"]
Sealed(doc, key) == [doc |-> doc, key |-> key]

\* The build a device runs reads and writes its own documents.
Parses(d, doc) == IF d \in upgraded THEN newer_from_bytes(doc) ELSE fstate_from_bytes(doc)
Document(d) == IF d \in upgraded THEN newer_to_bytes(local[d]) ELSE fstate_to_bytes(local[d])

\* pull_fstate under the key it holds: nothing stored, a state, or an error.
pull_fstate(d) ==
  CASE slot.doc.kind = "none" -> Read(EmptyState)
    [] slot.doc.kind # "none" /\ slot.key # holds[d] -> Unreadable
    [] OTHER -> Parses(d, slot.doc)

\* The pull of a pull-merge-push, or of one that prepares a mint.  A pull that
\* fails ends it.
Pull(d, purpose) ==
  LET got == pull_fstate(d)
  IN  /\ call[d] = Idle
      /\ got.ok
      /\ local' = [local EXCEPT ![d] = merge_fstate(local[d], got.state)]
      /\ call' = [call EXCEPT ![d] = [at |-> purpose, key |-> holds[d]]]
      /\ UNCHANGED <<clock, slot, fleetKey, holds, upgraded, edits, best, late>>

\* A mint reads the stored revision and makes the next one, whatever key its
\* device pulled under.
ReadsRevision(d) ==
  /\ call[d].at = "mint"
  /\ call' = [call EXCEPT ![d] = [at |-> "post", key |-> fleetKey]]
  /\ UNCHANGED <<clock, slot, local, fleetKey, holds, upgraded, edits, best, late>>

Mint(d) ==
  /\ call[d].at = "post"
  /\ call[d].key = fleetKey /\ fleetKey < MaxKey
  /\ fleetKey' = fleetKey + 1
  /\ holds' = [holds EXCEPT ![d] = fleetKey + 1]
  /\ call' = [call EXCEPT ![d] = [at |-> "push", key |-> fleetKey + 1]]
  /\ UNCHANGED <<clock, slot, local, upgraded, edits, best, late>>

\* A call that ends without a push.
Ends(d) ==
  /\ call' = [call EXCEPT ![d] = Idle]
  /\ late' = late \ {d}
  /\ UNCHANGED <<clock, slot, local, fleetKey, holds, upgraded, edits, best>>

\* Another revision came between the read and the post.
MintRefused(d) == call[d].at = "post" /\ call[d].key # fleetKey /\ Ends(d)

\* A post that does not get there, and a device that stops in between.
GivesUp(d) == d \in Faulty /\ call[d] # Idle /\ Ends(d)

\* push_fstate: seals what the device holds by now.  It asks nothing of what is
\* stored.
Push(d) ==
  /\ call[d].at = "push"
  /\ slot' = Sealed(Document(d), call[d].key)
  /\ call' = [call EXCEPT ![d] = Idle]
  /\ late' = IF d \in upgraded THEN {x \in Device \ {d} : call[x] # Idle} ELSE late \ {d}
  /\ UNCHANGED <<clock, local, fleetKey, holds, upgraded, edits, best>>

\* A device starts again with a newer build.
Upgrade(d) ==
  /\ d \in MayUpgrade \ upgraded /\ edits + Cardinality(upgraded) < MaxEdits
  /\ call[d] = Idle
  /\ upgraded' = upgraded \cup {d}
  /\ UNCHANGED <<clock, slot, local, call, fleetKey, holds, edits, best, late>>

LearnKey(d) ==
  /\ holds[d] # fleetKey
  /\ holds' = [holds EXCEPT ![d] = fleetKey]
  /\ UNCHANGED <<clock, slot, local, call, fleetKey, upgraded, edits, best, late>>

-----------------------------------------------------------------------------
(* Edits, each stamped now, where now is the instant of the last edit or a *)
(* later one, and later than what was stored at the start.  A device does  *)
(* not edit one entry twice in an instant; two devices may.                *)

With(layer, k, e) == [j \in DOMAIN layer \cup {k} |-> IF j = k THEN e ELSE layer[j]]

\* The entry under k becomes e; part says which layer of the state.
Edits(d, part, k, e) ==
  /\ edits + Cardinality(upgraded) < MaxEdits /\ edits' = edits + 1
  /\ \E now \in {clock, clock + 1} :
       /\ 0 < now /\ now <= MaxTime /\ clock' = now
       /\ k \in DOMAIN local[d][part] => local[d][part][k].updated < now
       /\ local' = [local EXCEPT ![d][part] = With(@, k, [e EXCEPT !.updated = now])]
  /\ best' = merge_fstate(best, local'[d])
  /\ UNCHANGED <<slot, call, fleetKey, holds, upgraded, late>>

Known(d, f) == f \in DOMAIN local[d].roster /\ ~local[d].roster[f].tombstone

Befriend(d, f) ==
  /\ ~Known(d, f)
  /\ Edits(d, "roster", f, [updated |-> 0, tombstone |-> FALSE, trust |-> 0, consent |-> FALSE])

Unfriend(d, f) ==
  /\ Known(d, f)
  /\ Edits(d, "roster", f, [local[d].roster[f] EXCEPT !.tombstone = TRUE])

Promote(d, f, level) ==
  /\ Known(d, f) /\ local[d].roster[f].trust < level
  /\ Edits(d, "roster", f, [local[d].roster[f] EXCEPT !.trust = level])

\* The friend's knock reaches this device, which records it in the entry.
Knock(d, f) ==
  /\ Known(d, f) /\ ~local[d].roster[f].consent
  /\ Edits(d, "roster", f, [local[d].roster[f] EXCEPT !.consent = TRUE])

SetGlobal(d, k, v) ==
  Edits(d, "globals", k, [value |-> v, updated |-> 0, tombstone |-> FALSE])

ClearGlobal(d, k) ==
  /\ k \in DOMAIN local[d].globals
  /\ Edits(d, "globals", k, [local[d].globals[k] EXCEPT !.tombstone = TRUE])

\* A device writes its own map and no other; the map may become empty.
SetOwn(d, entries) ==
  Edits(d, "maps", d, [updated |-> 0, entries |-> entries])

-----------------------------------------------------------------------------
\* What the newest build reads in the slot.
InSlot == IF slot.doc.kind = "none" THEN EmptyState ELSE newer_from_bytes(slot.doc).state

StateInit ==
  /\ clock = 0
  /\ slot \in {Sealed(doc, 0) : doc \in Stored}
  /\ local = [d \in Device |-> EmptyState]
  /\ call = [d \in Device |-> Idle]
  /\ fleetKey = 0
  /\ holds = [d \in Device |-> 0]
  /\ upgraded = {}
  /\ edits = 0
  /\ best = InSlot
  /\ late = {}

\* Bound: no more mints are begun than there are keys to make.
Minting == {d \in Device : call[d].at \in {"mint", "post"}}

Syncs(d) ==
  \/ Pull(d, "push")
  \/ fleetKey + Cardinality(Minting) < MaxKey /\ Pull(d, "mint")
  \/ ReadsRevision(d)
  \/ Mint(d)
  \/ MintRefused(d)
  \/ Push(d)
  \/ GivesUp(d)
  \/ LearnKey(d)
  \/ Upgrade(d)

EditsOf(d) ==
  \/ \E f \in Friend : Befriend(d, f) \/ Unfriend(d, f) \/ Knock(d, f)
  \/ \E f \in Friend, level \in Trust : Promote(d, f, level)
  \/ \E k \in Setting, v \in Value : SetGlobal(d, k, v)
  \/ \E k \in Setting : ClearGlobal(d, k)
  \/ \E entries \in MapContents : SetOwn(d, entries)

StateNext == \E d \in Device : Syncs(d) \/ EditsOf(d)

StateSpec == StateInit /\ [][StateNext]_stateVars

\* A device keeps synchronising, learns a new key, and its posts get through
\* now and then.
FairStateSpec ==
  /\ StateSpec
  /\ \A d \in Device :
       /\ WF_stateVars(Pull(d, "push"))
       /\ SF_stateVars(Push(d))
       /\ WF_stateVars(LearnKey(d))

-----------------------------------------------------------------------------
(* Properties. *)

\* Every variable has its type; what is stored reads as a state.
StateTypeOK ==
  /\ clock \in Nat
  /\ best \in State
  /\ local \in [Device -> State]
  /\ DOMAIN slot = {"doc", "key"} /\ slot.key \in 0..fleetKey
  /\ InSlot \in State
  /\ call \in [Device -> [at : {"idle", "push", "mint", "post"}, key : 0..fleetKey]]
  /\ fleetKey \in 0..MaxKey
  /\ holds \in [Device -> 0..fleetKey]
  /\ upgraded \subseteq MayUpgrade
  /\ late \subseteq {d \in Device : call[d] # Idle}
  /\ edits \in Nat

\* "Deterministic and order-independent (commutative/idempotent)": the states
\* of any two devices merge to the same in either order, and three in either
\* grouping, also when two entries were written in the same instant.
MergeIsACRDT ==
  LET held == {local[d] : d \in Device} \cup {InSlot}
  IN  /\ \A a \in held : merge_fstate(a, a) = a
      /\ \A a, b \in held :
           LET ab == merge_fstate(a, b)
           IN  /\ ab = merge_fstate(b, a)
               /\ \A c \in held : merge_fstate(ab, c) = merge_fstate(a, merge_fstate(b, c))

\* What a device stores is what a device reads, a map emptied by its owner
\* included: without its clock an older copy would come back.
StateSurvivesTheWire ==
  \A d \in Device : fstate_from_bytes(fstate_to_bytes(local[d])) = Read(local[d])

\* However pushes overlap, keys change, devices stop and builds overwrite each
\* other's documents, the newest write of every entry is held by a device, or
\* stored under a key that one holds.
Held ==
  {local[d] : d \in Device} \cup (IF \E d \in Device : slot.key = holds[d] THEN {InSlot} ELSE {})
NoUpdateIsLost ==
  /\ \A f \in DOMAIN best.roster :
       \E st \in Held : f \in DOMAIN st.roster /\ st.roster[f] = best.roster[f]
  /\ \A k \in DOMAIN best.globals :
       \E st \in Held : k \in DOMAIN st.globals /\ st.globals[k] = best.globals[k]
  /\ \A d \in DOMAIN best.maps :
       \E st \in Held : d \in DOMAIN st.maps /\ st.maps[d] = best.maps[d]

\* "The push path treats [it] as untouchable": a device of this build stores over
\* settings it cannot read only in a call whose pull came before them.  What it
\* had the chance to see stays.
Foreign(doc) ==
  \/ doc.kind = "broken"
  \/ doc.kind = "document" /\ {doc.globals.form, doc.devices.form} \cap {"v8", "corrupt"} # {}
SeenForeignStays ==
  [][Foreign(slot.doc) /\ slot' # slot => \E d \in upgraded \cup late : Push(d)]_stateVars

\* Once pushes do not overlap and everybody can open what is stored, everybody
\* ends up with the newest write of every entry, removals included.
Serial ==
  /\ Cardinality({d \in Device : call[d] # Idle}) <= 1
  /\ Minting = {}
  /\ \A d \in Device : holds[d] = slot.key /\ pull_fstate(d).ok
Converged == \A d \in Device : local[d] = best
Settles == <>[]Serial => <>[]Converged
=============================================================================

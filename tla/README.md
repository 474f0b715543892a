# A TLA+ development of fgtw

`fgtw` is a Rust crate that gives a person's devices one identity: a *fleet*.
Each device has a key of its own; a signed, hash-linked *membership chain* says
which devices belong; a *fan-out* seals one symmetric key to each of them; a
*phonebook* lets others find them. The crate is a library: it folds and builds
chains, seals and opens keys, keeps slices of the phonebook, and talks through a
transport to a server ("the worker", FGTW) that stores one chain, one fan-out
and one state blob per handle. The worker and the applications (photon, ferros)
live elsewhere.

## Inventory

| Part | Source (`src/src/`) | State | Operations | Talks to |
|---|---|---|---|---|
| Membership chain | `fleet.rs`, `pq.rs` | members, locked, bundles, floor, checkpoint index, all folded from the ops | genesis, declare, add, remove (with consent or bare), lock, unlock, checkpoint | stored by the worker, read by everybody |
| Chain calls | `client.rs` 88–517 | none between calls; one call holds a fetched chain, attempts left and a consent | declare, bind, depart, approve a departure, lock, unlock, push a checkpoint, found a fleet | worker: `fleet_get`, `fleet_put` |
| Join and leave requests | `client.rs` 522–754, `fleet.rs` 258–340 | a request per device at the worker, good for an hour | post, withdraw, list | sponsor's bind |
| Founding, adoption, succession | `client.rs` 120–222, 424–437, `fleet.rs` 890–960, 1264–1342 | the chain and the pin each reader holds, a succession record | ensure membership, adopt by extension, vouch, move a pin | worker, contacts |
| Attestation | `attest.rs` | none | a verdict over seed, held and peer chains | folds chains |
| Fleet key | `client.rs` 759–981, `fanout.rs` | a fan-out slot (revision, fingerprint, wraps) at the worker, a key at each device | mint, grow, recover, establish | reads the chain, guards the fleet state |
| Fleet state | `fstate.rs`, `client.rs` 983–1045 | roster, global and device settings, tombstones | merge, push, pull | sealed under the fleet key |
| Phonebook slice | `phonebook.rs` 710–906 | a gapped sorted array of records, a fill count | lookup, insert, remove, adopt | hosts exchange slices |
| Phonebook registry | `phonebook.rs` 992–1115 | a count record and a run of device pointers | plan the writes that converge it | follows the chain, stored in slices |
| Phonebook records | `phonebook.rs` 60–712, 907–991 | records, egg blobs and address sets in slots and blobs | sign, point, store, fetch, verify | the chain's bundles and floor |
| NAT traversal | `traverse/` | observed addresses with votes, candidates, a session's path | record, merge, choose, keep alive | peers |
| Scoped blobs | `scoped_blob.rs` | none here: slots and contents at a store | publish to readers, add a reader, open | any blob store |
| Pairing words, frames, plates, keys | `pair.rs`, `protocol.rs`, `pipe.rs`, `keys.rs` | none | codecs, derivation | — |

What is hard here:

* **interleaving.** Every call fetches, decides, builds on what it fetched, and
  posts. The chain, the fan-out, the registry and the fleet state move in between,
  and two of these slots take blind writes.
* **delivery.** A post may be lost, or land and its reply be lost; the caller
  sees the same error. Calls retry on "stale". Echoes, blobs and chains arrive
  late, from before a move or from a replica that lags.
* **ordering over a long history.** Whether an op folds depends on all ops
  before it: locks, departures, rejoins and a floor that only rises. Merges come
  in any order, with ties.
* **partial failure.** A plan, a publish or a republish of several writes stops
  half way; a first fetch fails and a later one does not; one section of a
  document cannot be read.
* **boundaries.** A slice that is full, a run that must close up, the last live
  member, the last attempt, a map without entries, a list that evicts.

What makes each part correct, in a sentence: the chain can always go on and never
forgets a capability; a caller's answer is true of the chain at some moment of
the call; a founder that was told it is in is in, and a reader follows its fleet
and no other; a revision names one key and a rotated key is gone; no update of
the fleet state is lost and devices converge; a slice never loses a record and
its layout has no history; a registry is readable at every moment and converges;
a finder sees one publish as a whole; a reader opens what it was granted and
nothing else; a node adopts an address on corroborated word only, settles on the
true one, and peers that can reach each other connect.

## Modules

```
FleetChain ◄── FleetClient ◄── FleetProofs       FleetKey ◄── FleetKeyProofs
FleetFounding ◄── FleetFoundingProofs            FleetState ◄── FleetStateProofs

PhonebookSlice ◄── PhonebookSliceProofs          PhonebookRecords ◄──┐
    └─implements─► PhonebookDirectory            PhonebookRegistry ◄─┴─ PhonebookProofs

Traversal ◄── TraversalProofs                    ScopedBlobs ◄── ScopedBlobsProofs
```

An arrow points at the module that is extended. Each component's `MC*` module
gives its constants their values; the theorems are in the `*Proofs` modules.

**FleetChain** is `MembershipBlob::fold_inner`. A chain folds exactly when each
op folds on what the ops before it left, so a behaviour of the module *is* a
chain that folds: one action per `OpKind` (`Remove` is two, one per branch), whose
guard is the list of checks the walk makes and whose effect is what the walk
assigns. What the fold demands of an op is a predicate of its own (`AddFolds`,
`LockFolds`, ...), which is what a refusal denies. The gate that every op passes (`Admitted`) and the floor recomputed
after every op (`Ratchet`) are operators each action uses. `bundle` is the first
entry of each device, since every lookup in the code is a first match;
`PushBundle` is the consequence for a device that comes back. Eggs are the
schemes they were made under and range over what the device holds keys of.
`behind` and `bare` are history that two properties refer to.

**FleetClient** composes the chain with the calls of `client.rs`. A call is a
record (kind, target, consent carried, attempts left, step). `Fetch` takes the
early returns in the order of the code, `Lands` publishes the op with the chain's
own action, `Stale` is the worker's refusal of a chain that does not extend the
stored one, `Refetch` the extra fetch of `push_checkpoint`. Since an op is built
on the chain of the last fetch and lands only if that is still the stored chain,
the fetched copy is represented by the set `onHead`. `Dropped` and the result
"transport" of `Lands` are the two ways a post is lost. Ceremonies post, withdraw
and let lapse the requests whose consents the calls carry.

**FleetFounding** is what happens before there is a chain to extend and to those
who only read it. `ensure_member_plated` is five steps (`Looks`, `Founds`,
`Rejected`, `GivesUpWaiting`, `Refetches`); the worker's check and its write are
two (`Founds`/`Appends` and `Lands`), because the slot has no compare-and-set.
Readers take a prefix of the stored chain from a replica (`Reads`, with the
verdicts of `adoption`), and move their pin on a succession record that verifies
for it (`Migrates`). The fleet goes on meanwhile: devices join, leave with or without
consent, are locked and unlocked. Chains are sequences of stamped ops, so that `extends`,
`was_member_at`, `stamp_after` and `attest_verdict` are the code's.

**FleetKey** has the fan-out slot, what each application holds and the calls
`mint_fleet_key`, `grow_fleet_wraps`, `recover_fleet_key` and
`recover_or_establish_fleet_key`, with a step for every fetch and post. A wrap is
the device it opens for; a fresh key is named by its minter and the revision it
was made for. The members a mint or a grow seals to are read when the call
begins, those of an establish when it gets there. The chain under it is reduced
to who joins, leaves, is locked and unlocked.

**FleetState** is `fstate.rs` with its transport. The three layers are partial
functions, `merge_by_key` the newer of two entries under each key, and the orders
(`NewerFriend`, `NewerGlobal`, `NewerMap`) those of the code, the comparison of
canonical bytes that breaks the last tie included. The document is modelled by
what it does: sections of rows with a version each, a row without consent from an
older build, a bare row for a map without entries, layers that are absent or
foreign. A device pulls and merges (`Pull`), then pushes what it holds by then
(`Push`), or mints the next fleet key between the two: it reads the stored revision
(`ReadsRevision`), whatever key it pulled under, and posts the next, which is
refused when another came first (`MintRefused`). Posts may be lost and devices stop
(`GivesUp`). A device may be upgraded (`Upgrade`): from then on its documents carry
a version of the settings that this build cannot read, and they may land between
another device's pull and its push, which checks nothing. `best` is history, the
merge of all writes ever made, and so is `late`: who is in a call whose pull came
before such a document.

**PhonebookSlice** is the struct `Slice`, keys as ranks, **PhonebookDirectory**
the map it promises to be. The walk of `lookup` and `insert` is a predicate
(`StopsAt`), and so is the run a removal closes up (`ClosesUp`).

**PhonebookRegistry** is `registry_plan` as an operator and the siblings that read
the registry, plan with the fold they last saw and write the records one at a
time into storage that keeps the newest of each key.

**PhonebookRecords** has the kinds of record, the bytes each signature covers, and
the egg and address-set blobs behind content addresses. A publish puts its pieces
in an outbox whose writes are made one by one, in any order, or not at all
(`Stops`); storage keeps the newest record and every blob; a reader reads the
record, then fetches blobs, and storage may answer with any it has. Members also
sign placements, counts and consents to a departure, whose egg lists anybody may
pack into a blob of his own behind a record of his choice.

**Traversal** follows one node, the observers that tell it where they see it, and
one peer. `record` is `ReflexiveState::record` with its votes, quorum, bounded
list and ranks; `clear` what the application calls when the interface changes;
`gather_peer_candidates`, `add` and `best_pair` the candidates and their order, under
each `LanPolicy`: any usable LAN address, those of the peer's own subnet, or, for a
peer that knows none of its own, none;
`Punch`, `Keepalive` and `Tick` the life of a `ValidatedPath`. NATs give the node
another binding and forget silent mappings.

**ScopedBlobs** has the keys and addresses of slots and contents, publishes whose
writes are made one by one by several devices, and a store that answers with
anything it ever held. A stamp is what the clock of the device that seals says, and
clocks are unrelated and may be set back. A reader accepts by stamp, as `Signed`
says it does.

Operators named `Bug_X` are plausible mistakes in `X`; the specifications use none
of them, and replacing `X` by one makes TLC refute the property it is listed with
in `PROJECT.json`.

## Runs

| Run | Asks | Result |
|---|---|---|
| `fleet_chain` | types; the fleet is never bricked; a promotion strands nobody that stayed; a straggler can come back; a promotion that is due happens; a capability is never renounced | holds |
| `fleet_client` | an Ok is the truth; a refusal has a cause; of the callers that skip no epoch, one is told it is the minter and the others are given the chain's checkpoint; the fleet lives; every call ends | holds |
| `fleet_founding` | a founder that was told it is in stays in; the verdict of an attestation is true; the past stands; pins move only when vouched for; readers catch up | holds |
| `fleet_key` | a revision names one key; a rotated key never comes back | holds |
| `fleet_state` | the merge converges; a state survives the wire; no update is lost; settings a device had the chance to see and cannot read are not overwritten by it; devices settle | holds |
| `phonebook_store` | slice: every record is found; the count is true; the layout has no history; it implements the directory. Registry: the run is dense; nothing to do means in sync; an undisturbed plan converges | holds |
| `phonebook_records` | a finder sees one publish; the egg lists of a statement make no other verify; a device is found where it is | holds |
| `traversal` | a private address passes only as the policy allows; an adoption is corroborated; the address settles; peers connect | holds |
| `scoped_blobs` | only the granted open a version; a purpose shows its own; readers that are kept follow, where the stamps agree with the order of the publishes | holds |
| `fleet_rejoin` | are joiners at the floor? | no |
| `fleet_establish` | does an establish replace a fan-out? | yes |
| `fleet_skip` | is a caller that is told it is the minter of an epoch its minter? | no |

The last three check one statement of the documentation each and TLC refutes it;
`PROJECT.json` quotes the lines under "findings" and tells the trace.

### Bounds

* `fleet_chain` does not bound the length of a chain: the folded state is finite,
  and all of it is explored for three devices, two with three schemes and one that
  lacks one, so a promotion can leave a device behind, and with two checkpoints.
* `fleet_client` has two members that sponsor, retire, lock and unlock a third
  device, and mint two epochs: a caller may ask for the next epoch, for one that was
  minted, or skip one. Three attempts a call (the code makes four) are enough
  for a call that is overtaken, finds its work done by the other, and gives up.
  `fleet_skip` is the same instance.
* `fleet_founding` has two devices with clocks that differ, one of which also reads,
  and a contact; two claims of the name, the first chain up to three ops beside an
  unlock: a genesis, a join, and a departure, or a lock and its unlock. That is enough for two founders that race, a
  name that is freed and claimed again, and a fork between a reader and the slot.
* `fleet_key` has three revisions: an establish, a mint over it, and the late grow
  that would bring the first key back.
* `fleet_state` has two devices, a friend, a setting with two values, two instants,
  two edits or an edit and an upgrade, and two mints, over seven stored documents:
  none, the hand-rolled format, an older roster without consents, a foreign roster
  beside settings of a newer build, such settings alone, settings that do not parse,
  and a document that does not. Two instants with two devices give every tie; two
  edits, one by each device, every race of two pushes; one of the devices may lose
  posts, stop, and be upgraded, so that a fleet of mixed builds is reached from any
  stored document; two mints the one that is refused and the one that steps past it.
  The theorems carry the merge and the losslessness to all sizes.
* `phonebook_store` has a slice of four slots and six keys, of which three want the
  first slot and one belongs to another slice, so runs collide, shift, close up and
  overflow; and a registry in which three plans are made: two that race and a third
  that finds what they left. The two parts share nothing (a host stores a record
  whatever it says), so a behaviour moves one of them.
* `phonebook_records` follows one publisher, two instants (a publish and the one it
  races), two addresses and a second scheme that a sibling's declaration makes the
  floor; the reader with and without the chain.
* `traversal` has two networks, a contact on one of them and two strangers, a quorum
  of two as in the code, one change (a move, a rebinding or a group), and room for
  one pending address, so that a second one evicts the first; the code's eight
  need nine addresses for the same. The peer's LAN has the subnet of the node's home,
  and the peer gathers under each of three policies, from a record of one endpoint.
* `scoped_blobs` has two devices, two readers, two purposes and two versions: a
  republish that drops or adds a reader, by another device, half made, with stamps
  that are later, equal or earlier. The configuration has a state constraint
  (`MCFirst`): purposes are alike, and so are readers, so of the first publishes only
  those of one purpose and to one reader at least are followed.

### Fairness

* `PromotionCompletes` assumes that a device keeps declaring what it holds
  (`DeclareAll`): `declare_device` is idempotent and its callers run it on every
  start. It assumes nothing of locks, joins or departures.
* `CallsEnd` assumes that a call under way takes its next step: a call is
  straight-line code whose every post returns, with an answer or an error.
* `Settles` assumes that a device keeps synchronising (weak fairness of `Pull`),
  learns a new key that is published (`recover_fleet_key` on its next start), and that
  of repeated pushes one gets through (strong fairness of `Push`). It is conditional:
  once pushes no longer overlap and everybody opens what is stored. Without
  that condition two devices may overwrite each other for ever, which the code
  does not exclude; and a device of this build that pulls what a newer one stores
  fails at every pull, so a fleet of mixed builds settles only once it is upgraded.
* `ReadersCatchUp` assumes that what the worker admitted is written, and that a reader
  keeps asking. `Located` assumes that a device publishes again and again and its
  writes get through, and that storage answers now and then with what it is asked.
* `ReflexiveSettles` and `PeersConnect` assume that observers keep answering and are
  heard now and then, that the record is published and read again, that the peer
  punches when it has no path (strong: a punch that meets a reachable candidate
  again and again succeeds), and that time passes. The node may move, be given a new
  binding or join a group at any time, finitely often.
* `RetainedReadersFollow` assumes that a device makes the writes it has queued and a
  reader fetches what is stored now and then. It is conditional: the newest publish
  was neither interrupted nor written over by an earlier one, and its stamps are
  later than those of the earlier ones (`StampedLast`).

No other property assumes fairness.

### Deadlock

It is not checked where the system may stop: a chain whose live members all left
without consent takes no further op (`fleet_chain`, `fleet_rejoin`); the bounds
exhaust what there is to do (`phonebook_store`, `fleet_state`, `fleet_founding`,
`phonebook_records`, `scoped_blobs`). It is checked in the others.

## Proofs

**The chain.** `FleetProofs` proves, for all sets of devices and schemes, all
capabilities that include the base schemes and any bound on checkpoints, from
`ChainAssumption`:

* `ChainTypes`: the type invariant;
* `FleetIsNeverBricked`: in a founded fleet without bare departures some live
  member can sign the next op;
* `PromotionStrandsNobody`: a live member that was not unlocked or re-added since
  it last declared can sign at the floor;
* `StragglersReturn`: a live member whose keys reach the floor is not refused the
  Declare that brings it up;
* `NobodyRenounces` and `NoDowngrade`: bundles and floor only grow.

None of the safety properties is inductive alone. The invariant is

    IInv == TypeOK /\ ProvenBundles /\ LeaversAreBehind
              /\ SteadyMembersCanSign /\ SomeoneCanSign

`ProvenBundles` says that a bundle never names a scheme its device has no key of:
Declare and Add are the only writers, and both demand eggs under every scheme
of the bundle. It turns "has declared the floor" into "can sign at the floor".
`LeaversAreBehind` says that a device with an entry is a member or counts as
behind, so that the stale entry of a device that comes back is not mistaken
for one of a steady member. With it, `SteadyMembersCanSign` survives every op:
the floor rises only to what all live members have declared, and whoever
enters the live set is at the floor or behind. `SomeoneCanSign` survives because
the signer of an op can sign, remains live after every op but its own bare
departure, and after the ratchet still covers the floor.

**The clients.** `FleetProofs` proves `ClientsBuildChains`, that every step of
the clients and the worker is a step of `FleetChain` or leaves the chain alone, and
`ClientsNeverBrickTheFleet`: with bare departures refused at the worker, the
exception of `SomeoneCanSign` disappears. Its invariant adds to `IInv` that the
chain is founded, holds no bare departure, and that the calls are well formed.

What a call is answered is `AnOkIsTheTruth`, `OneMinterAnEpoch` and
`RefusalsHaveReasons`, with the types in `ClientTypes`. For the first two the
invariant (`CallsAreFit`) says that a call whose wish the chain grants is marked as
having held, and that the chain records a minter for each epoch it has.
`OneMinterAnEpoch` proves `SingleWinner`, which leaves out the callers that skip an
epoch: what they are told is the third of the refuted statements. The third,

    RefusalInv == AnswersInv /\ HeadsAreFresh /\ ConsentsStand /\ RefusalsAreReal

needs two facts about the head a call builds on. `HeadsAreFresh`: while the stored
chain is the one a call fetched, the checks it made when it fetched still hold, for
whoever changes the chain empties `onHead`. `ConsentsStand`: a consent it carries
covers what the fold asks for. The fold asks a leaver for what it has declared, and
a bundle only grows, so a consent does not go bad while the call retries. With both,
an op that does not fold lacks its author's authority, a consent or a sensible
target, and nothing else.

**Founding.** `FleetFoundingProofs` proves `FoundersAreIn`, `PinsMoveWhenVouched`,
`VerdictsAreTrue` and `ThePastStands`, from `FoundingAssumption`. The invariant

    FoundingInv == FoundingTypeOK /\ ChainsFold /\ SureStand /\ PinsStand

speaks of what may still be written. `SureStand`: from the moment a founder was told
that it is in, the stored chain and every post under way keep it, until the name is
freed; a post that is admitted later extends the stored chain, and a genesis is not
admitted over one that folds. `PinsStand`: a succession record whose chain folds was
vouched for by the devices whose eggs it carries. `HistoryStands` excepts devices
that were or are locked out: an unlock restores them for the past as well, since
`was_member_at` asks the whole chain who is locked. For the others a prefix of a
longer chain up to an instant is the prefix of the shorter one.

**The fleet key.** `FleetKeyProofs` proves, from `KeyAssumption`, `KeyTypes`,
`RotatedKeysStayDead` and `OneKeyARevision`. The two hazards are about a post that
was prepared against a slot that has moved, so the invariant speaks of what is in
flight:

    KeyInv == KeyTypeOK /\ SlotIsLatest /\ PostsAreFresh /\ ...

`SlotIsLatest`: nothing was published past the stored revision. `PostsAreFresh`: a
mint in flight carries a key of its own revision; a grow in flight carries a
revision at most one past the stored one, and if it is exactly that, the stored
key. A post lands only past the stored revision, so by `SlotIsLatest` it takes a
revision that names no key yet, and by `PostsAreFresh` a grow that lands is the one
that carries the key it finds: the others bounce.

**The fleet state.** `FleetStateProofs` proves that each of the three comparisons is a
strict total order on the entries of its layer, bytes of maps included (two maps
that differ, differ at a first key), that a merge of layers by such an order is
idempotent, commutative and associative, and that a document reads back as the
state it was made from, whatever its maps hold. It lifts this to the
system, from `StateAssumption` and `StoredAssumption`: `StateTypes`,
`MergesConverge`, `WireKeepsTheState` and `UpdatesAreKept`. The last needs

    LossInv == StateTypeOK /\ Bounded /\ Kept

`Bounded` says that merging any device's state, or the slot's, into the winner of
all writes leaves the winner as it is: nothing is ahead of it. `Kept` says that
for every entry of the winner some device holds that very entry, or nobody has
synchronised yet and the slot holds it. A pull merges and so keeps the entry, the
pushes of others overwrite the slot but never what a device holds, and a device
that stops keeps its state; an edit makes a later entry, which its device holds.

`SeenForeignIsKept` is an action property: a device overwrites settings its build
cannot read only in a call whose pull came before a newer build stored them. A pull
of such a document fails, so whoever is in a call while one is stored was in it
before (`ForeignMakesLate`); a push by a newer build marks as `late` all that are.
What the property leaves open the code does, see the divergences.

**The slice.** `PhonebookSliceProofs` proves `FillCounts`, `RecordsAreFound`,
`LayoutIsOfWhatIsStored` and `SliceIsADirectory`, for any keys, ideal slots and number
of slots, from

    SliceInv == SliceTypeOK /\ Laid(KeysOf(buf))

where `Laid` says that keys ascend (`Ordered`) and that a record sits in the run of
taken slots that begins at or before its ideal slot (`Packed`). `Packed` is the half
that `check_invariants` leaves out, and `lookup` is right only with it. A body from
another host is therefore assumed to be packed (`PeersAssumption`, which says of the
offered bodies what a host that ran this code has); without it a record behind a gap
is lost, see the divergences. The layout has no history because a run of taken slots
begins with a record at its ideal slot (`RunBegins`), and the records from there on are
as many as the slots (`KeysBetween`): both follow from what is stored. The
refinement has a step for each way an insert or a removal ends.

**The registry.** `PhonebookProofs` proves `ReadersFindARun`, `IdleSiblingsAreInSync`
and `PlansConverge`, for any devices, siblings and number of plans, from

    RegistryInv == RegistryTypeOK /\ RunIsDense /\ RunGrows
                     /\ PlansFill /\ AloneIsOnCourse

The run is dense because a count goes out last: `PlansFill` says that every index the
count of a plan will cover holds a pointer or awaits one of that plan. Storage may
refuse the pointer, but only because it holds a newer one there. `AloneIsOnCourse` says
what the registry will point at when the plan is through, and that a write moves one
device of that set from the plan to storage. Beside these there is the algorithm:
what pop-and-swap leaves is of the fold (`PrunedIs`), what a plan aims at is exactly
the fold (`ConvergedIs`), and it is no longer than the run by more than the devices
there are, which bounds the indices (`RunGrows`).

**The records.** `PhonebookProofs` also proves `FindersSeeOnePublish` and
`StatementsSayOneThing`. Storage may answer with anything it has, so the invariant is
about what there is: every record that waits, is stored or is being read states what
one publish signed (`RecordsArePublished`), and a set that hashes to the pointer in it
is that publish's set. `StatementsSayOneThing` is about whoever takes the egg lists of
what a member signed for the registry and packs them anew, alone or in pairs, into a
blob behind a record of any kind and fields, under either egg policy. A list that
verifies is signed by the device the record names over the bytes the record gives,
and those start with a domain and determine the fields (`SignedStatementsAreBound`,
from `StatementIsSigned`): no other placement, count, address or address set
verifies, and a consent to a departure stands for that handle, device and epoch only.

**Traversal.** `TraversalProofs` proves `AdoptedMeansCorroborated`,
`ForeignLansAreLeftAlone` and `TraversalTypes`, for any networks and observers and any
quorum. `VotesAreClaims` relates the bounded list of votes to all claims made since the
state was cleared: each voter of an entry did claim that address, an address has one
entry, and eviction only forgets. A claim counts when it is heard: an echo from
before a move that arrives after it is a claim like any other, and a quorum of such
adopts an address the node has left, until newer echoes outvote it.
`ForeignLansAreLeftAlone` is a fact about how candidates are gathered, whatever the
record says and under every policy: a private address is only ever a LAN candidate,
and under `SameSubnetAs` only one of the peer's own subnet.

**Scoped blobs.** `ScopedBlobsProofs` proves `RemovalShutsOut` and
`ReadersShowWhatWasGranted`. Every envelope that waits or is held is `Genuine`: the slot
of a reader that was granted the version whose key is in it, or a content under its
version's own key and address. Keys are fresh by version, so the key a reader gets out
of any slot names a version it was granted and opens no other. Stamps and clocks
play no part in either.

**Only model-checked.** Every safety invariant that a run checks is stated by a theorem,
and so are the action properties. What TLC alone shows is liveness
(`PromotionCompletes`, `CallsEnd`, `Settles`, `ReadersCatchUp`, `Located`,
`ReflexiveSettles`, `PeersConnect`, `RetainedReadersFollow`): fairness and ENABLED are
out of the prover's reach, and so is what a recursive definition computes for every
input. The modules that are proved about use none; where an order of elements is needed
they count ranks (`Nth`) instead.

## Divergences met

Three are kept as runs (`fleet_rejoin`, `fleet_establish`, `fleet_skip`). The others were met while
modelling; the modules follow the code, and the properties say what does hold.

* **A skipped epoch** (`client.rs:225`, the run `fleet_skip`). On a chain without
  checkpoints a caller that skips an epoch is told what a minter is told. On a chain
  with some it is handed the latest, of an epoch before its own, where the doc
  promises one "at-or-past our k".
* **A consent outlives its ceremony** (`client.rs:457`, `fleet.rs:733`: "The consent
  must be from THIS ceremony, not a departed device's replayed past"). Two sponsors
  hold one request; one adds the device, it leaves with its own consent, and the
  other's call, begun before, adds it again within the window.
* **A masked shrink** (`fanout.rs:243`). The triggers compare counts. A member
  leaves, another joins, and the sponsor's grow heals the wraps under the old key:
  the one that left knows the key the fleet goes on using. The tests name the
  residue (`fanout.rs:280`) and expect the next change to heal it, which a grow
  does not.
* **The adoption check of a slice** (`phonebook.rs:890`: "Do both invariants hold?").
  It does not look at the slots between a record and its ideal slot, so it takes a
  body with a gap there, in which a lookup stops before the record.
* **A member listed twice** (`phonebook.rs:1091`). A plan that stops between the
  tail's move and the smaller count leaves the tail device listed twice, and no
  later plan finds anything to do.
* **The founder's re-fetch** (`client.rs:199`: the loser "fails cleanly instead of
  announcing as a phantom founder"). The re-fetch decides only once no other admitted
  post is still to be written: with the worker's check and write apart, the loser may
  read its own chain just before the winner's replaces it. `FoundersStand` has that
  condition.
* **State under an old key** (`client.rs:900`). A device that stops after a mint and
  before the re-seal leaves a document nobody with the new key can open, and every
  pull-merge-push fails at its pull. Nothing is lost (`UpdatesAreKept`: the minter
  pulled before it minted and holds what it pulled), but nothing settles until a
  member stores again; `Settles` has that condition.
* **An untouchable document** (`fstate.rs:476`: "a real error, which the push path
  treats as untouchable"). `push_fstate` (`client.rs:987`) looks at nothing: a device
  whose pull came before a newer build's post overwrites that post. The newer build
  still holds what it wrote and stores it again at its next synchronisation, so no
  update is lost (`UpdatesAreKept`).
* **A foreign LAN** (`gather.rs:86`). Under `LanPolicy::AnyUsable` any private address
  is a candidate, as the code's tests expect, and under `SameSubnetAs` one of another
  network with the same /24. Such candidates cost time; `PeersConnect` shows that they
  do not keep the path that works from being tried.
* **Stamps of two devices** (`scoped_blob.rs:34`). A reader that "refuses a stamp older
  than the newest it has accepted" compares the clocks of different devices: after a
  publish by a device whose clock is ahead it refuses the later publish of another,
  and of two equal stamps it may show either. `RetainedReadersFollow` has that condition.
* **HostV6 candidates** (`candidate.rs:16`: "non-ULA, non-link-local"). `public_kind`
  (`gather.rs:32`) calls every public IPv6 address a HostV6.
* **Eggs of undeclared schemes** (`phonebook.rs:401`: "fails closed at every
  verifier"). `verify_eggs_declared` (`pq.rs:217`) skips them.

## What is not modelled, and why

* Stamps in `FleetChain`. The fold checks them against bounds and keeps none; an
  action stands for an op under any admissible stamp. The consent window appears as an
  event (`JoinWindowCloses`), not as a clock. `FleetFounding` has stamps.
* Cryptography and encodings. A signature is the scheme, the key and what it
  covers; a wrap is whom it opens for; a hash is what it is of.
* Plates and plate kinds: recorded by the fold, read by no rule of it.
* The worker beyond what the client relies on: it takes a chain that extends the
  stored one by an op that folds, refuses bare departures, takes a fan-out of a
  higher revision from a member, and any fleet state from one.
* Attestation over chains of another slot or chains that do not fold beyond the
  dead format; the listing and the signatures of requests; the document checks of
  `fetch_fanout_verified`: checks of one input without state.
* What a newer build is: it is taken to be this code with a later version of the
  settings, reading the earlier one.
* In traversal records of several endpoints (`gather_peer_candidates` scans them one
  after the other into one set), the wire codec, the tiers of paths, the gathering of
  a device's own candidates and `PunchState`'s counters; in scoped blobs values sealed to oneself.
* Pairing words, frames, pipe plates, key derivation, the crate root: conversions
  without state across calls.

## Plan

1. The components above: done. What is left to extend is small: a chain under
   `FleetKey` and `FleetState` that is `FleetChain` itself; the punch schedule.
2. Proofs: the safety of every component is proved. What is left is to relate
   components: that `FleetKey`'s and `FleetState`'s members are those of a chain, and that
   `PhonebookRegistry`'s fold moves as `FleetChain`'s does.

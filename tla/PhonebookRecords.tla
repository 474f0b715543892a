-------------------------- MODULE PhonebookRecords --------------------------
(***************************************************************************)
(* The phonebook's signed records (src/phonebook.rs).  A device publishes  *)
(* where it is: a record with one address and a record with the set of all *)
(* of them.  The eggs that sign a record, and the set, are blobs of their  *)
(* own behind content addresses, so a publish is several writes.  Readers  *)
(* fetch the pieces one by one and judge the eggs by what they know of the *)
(* chain.  The same eggs sign the registry's placements and counts, whose  *)
(* protocol is PhonebookRegistry.                                          *)
(*                                                                         *)
(* Abstractions.  A content address is the content with its domain.  An    *)
(* egg names its scheme, who made it and what it signs.  An address is a   *)
(* model value.  In which order a publish writes its pieces is the         *)
(* application's, so any is possible; storage may answer with a blob that  *)
(* was not asked for, or with none.  Records of different kinds share      *)
(* nothing, nor do readers: a behaviour follows one kind and one reader.   *)
(***************************************************************************)
EXTENDS Integers, Sequences, FiniteSets

CONSTANTS
  Device,           \* the devices of one identity
  Publisher,        \* those whose addresses are read here
  Handle, ours,     \* identities, and the one of the devices
  Address,          \* addresses a device can have
  ADDRESS_SET_MAX,
  Scheme, Base,     \* signature schemes, and the one every device has
  MaxTime           \* bound: the last instant

ASSUME RecordsAssumption ==
  /\ Publisher \subseteq Device
  /\ ours \in Handle
  /\ Base \in Scheme
  /\ ADDRESS_SET_MAX \in Nat \ {0}
  /\ MaxTime \in Nat

VARIABLES
  follows,   \* the kind of record, and whether the reader holds the chain
  here,      \* the addresses of each publisher
  clock,     \* the stamp of its last publish
  declared,  \* the schemes the chain knows each device can sign with
  slots,     \* the stored record of each publisher
  blobs,     \* the stored blobs
  outbox,    \* per publisher: writes still to be made
  reading,   \* the record whose blobs the reader is fetching
  found,     \* per publisher: the addresses the reader found
  statement, \* a placement or a count somebody signed
  (* history, read by properties only *)
  published  \* <<publisher, addresses, stamp>> signed

recordVars == <<follows, here, clock, declared, slots, blobs, outbox, reading, found, statement, published>>

Kind == {"DeviceAddress", "DeviceAddressSet"}
Nothing == [kind |-> "Empty"]
NoBlob == <<>>

-----------------------------------------------------------------------------
(* Eggs and blobs. *)

Floor == {s \in Scheme : \A d \in Device : s \in declared[d]}

eggs(signer, mask, msg) == {[scheme |-> s, by |-> signer, msg |-> msg] : s \in mask}
eggs_ptr(blob) == <<"PB_EGGS", blob>>
\* The document of a set says when it was made.
address_set_blob(entries, timestamp) == [entries |-> entries, time |-> timestamp]
address_set_ptr(blob) == <<"PB_ADDRSET_BLOB", blob>>
NoSet == address_set_blob({}, 0)

\* Eggs of schemes outside the bundle are skipped; the rest must verify and cover
\* what is required.
verify_eggs_declared(list, signer, bundle, msg, required) ==
  LET known == {e \in list : e.scheme \in bundle}
  IN  /\ known # {}
      /\ \A e \in known : e.by = signer /\ e.msg = msg
      /\ required \subseteq {e.scheme : e \in known}

\* EggPolicy::judge: a reader with the chain asks for the floor, of a device it
\* knows; others for the anchor alone.
anchor_only == [bundle |-> [d \in Device |-> {Base}], required |-> {Base}]
Policy == IF follows.chain THEN [bundle |-> declared, required |-> Floor] ELSE anchor_only

\* verify_list, on list number i of n.
verify_list(record, blob, i, n, signer, msg, policy) ==
  /\ eggs_ptr(blob) = record.eggs
  /\ Len(blob) = n
  /\ verify_eggs_declared(blob[i], signer, policy.bundle[signer], msg, policy.required)

-----------------------------------------------------------------------------
(* Records, the bytes that sign them, and the checks. *)

new_device_address(d, handle, at, local_port, time, ptr) ==
  [kind |-> "DeviceAddress", device |-> d, handle |-> handle, at |-> at,
   local_port |-> local_port, time |-> time, eggs |-> ptr]
new_device_address_set(d, handle, set, time, ptr) ==
  [kind |-> "DeviceAddressSet", device |-> d, handle |-> handle, set |-> set, time |-> time, eggs |-> ptr]
new_device_pointer(handle, index, d, epoch, placer, ptr) ==
  [kind |-> "DevicePointer", handle |-> handle, index |-> index, device |-> d, epoch |-> epoch,
   placer |-> placer, eggs |-> ptr]
new_identity_count(handle, count, epoch, witness, departing, ptr) ==
  [kind |-> "IdentityCount", handle |-> handle, count |-> count, epoch |-> epoch,
   witness |-> witness, departing |-> departing, eggs |-> ptr]

\* The port of the LAN address is covered only when it is stated.
address_signing_bytes(r) ==
  IF r.local_port = 0 THEN <<"SIGN_ADDRESS", r.handle, r.device, r.at, r.time>>
  ELSE <<"SIGN_ADDRESS", r.handle, r.device, r.at, r.time, "local_port", r.local_port>>
address_set_signing_bytes(r) == <<"SIGN_ADDRESS_SET", r.handle, r.device, r.set, r.time>>
Bug_placement_signing_bytes(r) == <<"SIGN_PLACEMENT", r.handle, r.epoch, r.device>>
placement_signing_bytes(r) == <<"SIGN_PLACEMENT", r.handle, r.index, r.epoch, r.device>>
count_signing_bytes(r) == <<"SIGN_COUNT", r.handle, r.count, r.epoch, r.departing>>
departure_signing_bytes(handle, d, epoch) == <<"SIGN_DEPART", handle, d, epoch>>

verify_address_with(r, blob, policy) ==
  verify_list(r, blob, 1, 1, r.device, address_signing_bytes(r), policy)

Bug_AnySet(r, blob, set, policy) ==
  /\ Cardinality(set.entries) <= ADDRESS_SET_MAX
  /\ verify_list(r, blob, 1, 1, r.device, address_set_signing_bytes(r), policy)
verify_address_set_with(r, blob, set, policy) ==
  /\ address_set_ptr(set) = r.set
  /\ Cardinality(set.entries) <= ADDRESS_SET_MAX
  /\ verify_list(r, blob, 1, 1, r.device, address_set_signing_bytes(r), policy)

verify_placement_with(r, blob, policy) ==
  verify_list(r, blob, 1, 1, r.placer, placement_signing_bytes(r), policy)
verify_count_with(r, blob, policy) ==
  verify_list(r, blob, 1, 2, r.witness, count_signing_bytes(r), policy)
verify_departure_with(r, blob, policy) ==
  r.departing = "none" \/
    verify_list(r, blob, 2, 2, r.departing,
                departure_signing_bytes(r.handle, r.departing, r.epoch), policy)

-----------------------------------------------------------------------------
(* Publishing. *)

\* sign_device_address and sign_device_address_set: the record without its
\* pointer is signed, then points at its eggs.
Sign(unsigned, msg) ==
  LET blob == <<eggs(unsigned.device, declared[unsigned.device], msg)>>
  IN  [record |-> [unsigned EXCEPT !.eggs = eggs_ptr(blob)], blob |-> blob]

Unsigned == eggs_ptr(NoBlob)
sign_device_address(d, at, local_port, now) ==
  LET r == new_device_address(d, ours, at, local_port, now, Unsigned)
  IN  Sign(r, address_signing_bytes(r))
sign_device_address_set(d, set, now) ==
  LET r == new_device_address_set(d, ours, address_set_ptr(address_set_blob(set, now)), now, Unsigned)
  IN  Sign(r, address_set_signing_bytes(r))

\* What one publish of a record has to write, in any order.
Pieces(signed, documents) ==
  {<<"record", signed.record>>, <<"blob", eggs_ptr(signed.blob)>>}
    \cup {<<"blob", address_set_ptr(x)>> : x \in documents}

Publishes(d, kind, addresses, pieces) ==
  /\ follows.kind = kind
  /\ clock[d] < MaxTime
  /\ clock' = [clock EXCEPT ![d] = @ + 1]
  /\ outbox' = [outbox EXCEPT ![d] = @ \cup pieces]
  /\ published' = published \cup {<<d, addresses, clock[d] + 1>>}
  /\ UNCHANGED <<follows, here, declared, slots, blobs, reading, found, statement>>

PublishAddress(d) ==
  \E at \in here[d], local_port \in {0, 1} :
    Publishes(d, "DeviceAddress", {at}, Pieces(sign_device_address(d, at, local_port, clock[d] + 1), {}))

\* More addresses than fit are the caller's bug, and panic.
PublishSet(d) ==
  /\ Cardinality(here[d]) <= ADDRESS_SET_MAX
  /\ Publishes(d, "DeviceAddressSet", here[d],
               Pieces(sign_device_address_set(d, here[d], clock[d] + 1),
                      {address_set_blob(here[d], clock[d] + 1)}))

Epoch(r) == IF r = Nothing THEN -1 ELSE r.time

Writes(d, w) == outbox' = [outbox EXCEPT ![d] = @ \ {w}]

StoreBlob(d, w) ==
  /\ w[1] = "blob"
  /\ blobs' = blobs \cup {w[2]}
  /\ Writes(d, w)
  /\ UNCHANGED <<follows, here, clock, declared, slots, reading, found, statement, published>>

\* A write must be strictly greater than what the slot holds, or it is refused.
Bug_Overwrites(d, w) ==
  /\ w[1] = "record"
  /\ slots' = [slots EXCEPT ![d] = w[2]]
  /\ Writes(d, w)
  /\ UNCHANGED <<follows, here, clock, declared, blobs, reading, found, statement, published>>
StoreRecord(d, w) ==
  /\ w[1] = "record"
  /\ slots' = [slots EXCEPT ![d] = IF w[2].time > Epoch(@) THEN w[2] ELSE @]
  /\ Writes(d, w)
  /\ UNCHANGED <<follows, here, clock, declared, blobs, reading, found, statement, published>>

\* The device stops with some of its writes made; it publishes again later.
Stops(d) ==
  /\ clock[d] < MaxTime /\ outbox[d] # {}
  /\ outbox' = [outbox EXCEPT ![d] = {}]
  /\ UNCHANGED <<follows, here, clock, declared, slots, blobs, reading, found, statement, published>>

Moves(d) ==
  /\ clock[d] < MaxTime
  /\ \E set \in SUBSET Address \ {{}, here[d]} : here' = [here EXCEPT ![d] = set]
  /\ UNCHANGED <<follows, clock, declared, slots, blobs, outbox, reading, found, statement, published>>

\* A device declares all it can sign with; the last one lifts the floor.
Declares(d) ==
  /\ \A p \in Publisher : clock[p] < MaxTime
  /\ declared[d] # Scheme
  /\ declared' = [declared EXCEPT ![d] = Scheme]
  /\ UNCHANGED <<follows, here, clock, slots, blobs, outbox, reading, found, statement, published>>

-----------------------------------------------------------------------------
(* Reading. *)

Idle == Nothing

Read(d) ==
  /\ reading = Idle /\ slots[d] # Nothing
  /\ reading' = slots[d]
  /\ UNCHANGED <<follows, here, clock, declared, slots, blobs, outbox, found, statement, published>>

\* What fails any check is absence.
Absent == [addresses |-> {}, time |-> -1]

\* Storage answers for the eggs and for the set.
Fetch(blob, set) ==
  /\ reading # Idle
  /\ found' = [found EXCEPT ![reading.device] =
       CASE reading.kind = "DeviceAddress" /\ verify_address_with(reading, blob, Policy) ->
              [addresses |-> {reading.at}, time |-> reading.time]
         [] reading.kind = "DeviceAddressSet" /\ verify_address_set_with(reading, blob, set, Policy) ->
              [addresses |-> set.entries, time |-> reading.time]
         [] OTHER -> Absent]
  /\ reading' = Idle
  /\ UNCHANGED <<follows, here, clock, declared, slots, blobs, outbox, statement, published>>

EggBlobs == {b[2] : b \in {x \in blobs : x[1] = "PB_EGGS"}} \cup {NoBlob}
SetBlobs == {b[2] : b \in {x \in blobs : x[1] = "PB_ADDRSET_BLOB"}} \cup {NoSet}

FetchAny == \E blob \in EggBlobs, set \in SetBlobs : Fetch(blob, set)

\* The blobs that were asked for.
FetchRight ==
  \E blob \in EggBlobs, set \in SetBlobs :
    /\ reading # Idle
    /\ reading.eggs = eggs_ptr(blob)
    /\ reading.kind = "DeviceAddressSet" => reading.set = address_set_ptr(set)
    /\ Fetch(blob, set)

-----------------------------------------------------------------------------
(* What members sign for the registry: one statement at a time. *)

Place(placer, index, d, epoch) ==
  LET r == new_device_pointer(ours, index, d, epoch, placer, Unsigned)
      blob == <<eggs(placer, declared[placer], placement_signing_bytes(r))>>
  IN  statement' = [r EXCEPT !.eggs = eggs_ptr(blob)]

\* A count carries the consent of the device that leaves, in a second list.
Attest(witness, count, departing, epoch) ==
  LET r == new_identity_count(ours, count, epoch, witness, departing, Unsigned)
      consent == IF departing = "none" THEN {}
                 ELSE eggs(departing, declared[departing], departure_signing_bytes(ours, departing, epoch))
      blob == <<eggs(witness, declared[witness], count_signing_bytes(r)), consent>>
  IN  statement' = [r EXCEPT !.eggs = eggs_ptr(blob)]

States(d) ==
  /\ follows.kind = "registry" /\ statement = Nothing
  /\ \/ \E e \in Device : Place(d, 0, e, 1)
     \/ \E departing \in (Device \ {d}) \cup {"none"} : Attest(d, 1, departing, 1)
  /\ UNCHANGED <<follows, here, clock, declared, slots, blobs, outbox, reading, found, published>>

-----------------------------------------------------------------------------
RecordsInit ==
  /\ follows \in [kind : Kind \cup {"registry"}, chain : BOOLEAN]
  /\ here \in [Publisher -> {{a} : a \in Address}]
  /\ clock = [d \in Publisher |-> 0]
  /\ declared = [d \in Device |-> {Base}]
  /\ slots = [d \in Publisher |-> Nothing]
  /\ blobs = {} /\ outbox = [d \in Publisher |-> {}]
  /\ reading = Idle
  /\ found = [d \in Publisher |-> Absent]
  /\ statement = Nothing
  /\ published = {}

Store(d) == \E w \in outbox[d] : StoreRecord(d, w) \/ StoreBlob(d, w)

RecordsNext ==
  \/ \E d \in Publisher : PublishAddress(d) \/ PublishSet(d) \/ Store(d) \/ Stops(d) \/ Moves(d)
  \/ \E d \in Device : Declares(d) \/ States(d)
  \/ \E d \in Publisher : Read(d)
  \/ FetchAny

RecordsSpec == RecordsInit /\ [][RecordsNext]_recordVars

\* A device publishes its record again and again and its writes get through,
\* the reader keeps reading, storage always answers, and now and then with what it
\* is asked for, if that was stored.
FairRecordsSpec ==
  /\ RecordsSpec
  /\ \A d \in Publisher :
       WF_recordVars(PublishAddress(d)) /\ WF_recordVars(PublishSet(d)) /\ WF_recordVars(Store(d))
  /\ WF_recordVars(FetchAny) /\ SF_recordVars(FetchRight)
  /\ \A d \in Publisher : SF_recordVars(Read(d))

-----------------------------------------------------------------------------
(* Properties. *)

\* Whatever storage answers with, and whichever writes of a publish were made when
\* a reader came by, it finds the addresses of one publish, with its stamp, or none.
FindsOnePublish ==
  \A d \in Publisher : found[d] # Absent => <<d, found[d].addresses, found[d].time>> \in published

\* A device is found where it is, again and again, by a reader with the chain and
\* by one without it, through interrupted publishes, late writes of older records,
\* new addresses and a floor that rose after it signed.
Located ==
  follows.kind # "registry" =>
    \A d \in Publisher :
      []<>(/\ found[d].addresses \subseteq here[d]
           /\ IF follows.kind = "DeviceAddress" THEN Cardinality(found[d].addresses) = 1
              ELSE found[d].addresses = here[d])

\* What a member signed for the registry says one thing ("that is what stops a
\* placement being replayed into a different slot"): whoever packs its egg lists
\* into a blob of his own, behind a record of any kind, makes no other placement,
\* count, removal or address verify, for a reader with the chain or without it.
Placements(ptr) ==
  {new_device_pointer(h, i, d, e, p, ptr) : h \in Handle, i \in 0..1, d \in Device, e \in 0..1, p \in Device}
Counts(ptr) ==
  {new_identity_count(h, n, e, w, d, ptr) :
     h \in Handle, n \in 0..1, e \in 0..1, w \in Device, d \in Device \cup {"none"}}
Addresses(ptr) ==
  {new_device_address(d, h, a, l, t, ptr) :
     d \in Device, h \in Handle, a \in Address, l \in {0, 1}, t \in 0..MaxTime}
AddressSets(set, ptr) ==
  {new_device_address_set(d, h, address_set_ptr(set), t, ptr) : d \in Device, h \in Handle, t \in 0..MaxTime}
SameBut(r, ptr) == [statement EXCEPT !.eggs = ptr] = r

BoundAlone(list, policy) ==
  LET blob == <<list>>
      ptr == eggs_ptr(blob)
  IN  /\ \A r \in Placements(ptr) : verify_placement_with(r, blob, policy) => SameBut(r, ptr)
      /\ \A r \in Addresses(ptr) : ~verify_address_with(r, blob, policy)
      /\ \A x \in SUBSET Address, t \in 0..MaxTime :
           LET set == address_set_blob(x, t)
           IN  \A r \in AddressSets(set, ptr) : ~verify_address_set_with(r, blob, set, policy)
BoundInPairs(list, other, policy) ==
  LET blob == <<list, other>>
      ptr == eggs_ptr(blob)
  IN  \A r \in Counts(ptr) :
        /\ verify_count_with(r, blob, policy) => SameBut(r, ptr)
        /\ verify_departure_with(r, blob, policy) /\ r.departing # "none" =>
             /\ statement.kind = "IdentityCount"
             /\ r.handle = statement.handle /\ r.departing = statement.departing /\ r.epoch = statement.epoch
StatementsAreBound ==
  statement # Nothing =>
    LET signed == statement.eggs[2]
        lists == {signed[i] : i \in DOMAIN signed} \cup {{}}
    IN  /\ \A policy \in {anchor_only, Policy}, list \in lists :
             BoundAlone(list, policy) /\ \A other \in lists : BoundInPairs(list, other, policy)
        /\ IF statement.kind = "DevicePointer"
           THEN verify_placement_with(statement, signed, anchor_only)
           ELSE /\ verify_count_with(statement, signed, anchor_only)
                /\ verify_departure_with(statement, signed, anchor_only)
=============================================================================

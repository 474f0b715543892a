-------------------------- MODULE PhonebookProofs ---------------------------
(***************************************************************************)
(* The theorems of PhonebookRecords, for any devices, addresses, schemes   *)
(* and instants: a finder sees one publish as a whole, and what a member   *)
(* signs for the registry says one thing; and those of PhonebookRegistry,  *)
(* for any devices, siblings and number of plans: readers find a run       *)
(* without holes, and plans converge it.                                   *)
(*                                                                         *)
(* The registry.  A count is written after the pointers it covers, hence   *)
(* the run is dense, provided that a pointer is stored whatever storage    *)
(* answers: if it refuses one, it holds a newer one at that index          *)
(* (PlansFill).  What the registry will point at when a plan is written is *)
(* fixed when the plan is made (Target), and only writes of others change  *)
(* it; registry_plan aims at a list of exactly the devices of its fold     *)
(* (ConvergedIs).                                                          *)
(***************************************************************************)
EXTENDS PhonebookRecords, PhonebookRegistry, FiniteSetTheorems, FunctionTheorems, TLAPS

-----------------------------------------------------------------------------
(* The records. *)

\* A record that some publish signed: its address, or the set it points at, and
\* its stamp are those of that publish.
IsPublished(r) ==
  \/ r.kind = "DeviceAddress" /\ <<r.device, {r.at}, r.time>> \in published
  \/ /\ r.kind = "DeviceAddressSet"
     /\ \E x \in published : x = <<r.device, x[2], r.time>> /\ r.set = address_set_ptr(address_set_blob(x[2], r.time))

\* What is per publisher, and what every device can sign with.
Shapes ==
  /\ DOMAIN slots = Publisher /\ DOMAIN outbox = Publisher /\ DOMAIN found = Publisher
  /\ DOMAIN declared = Device
  /\ \A d \in Device : declared[d] \subseteq Scheme /\ Base \in declared[d]

\* Nothing under way, stored or being read is anything but a published record.
RecordsArePublished ==
  /\ \A d \in Publisher : \A w \in outbox[d] : w[1] = "record" => IsPublished(w[2])
  /\ \A d \in Publisher : slots[d] # Nothing => IsPublished(slots[d])
  /\ reading # Nothing => IsPublished(reading)

\* A placement, or a count with the consent of the device that leaves, signed by
\* who it names with at least what every device has.
Placed(r) ==
  \E placer, d \in Device, mask \in SUBSET Scheme :
    /\ Base \in mask
    /\ r = new_device_pointer(ours, 0, d, 1, placer, r.eggs)
    /\ r.eggs = eggs_ptr(<<eggs(placer, mask, placement_signing_bytes(r))>>)
Consent(departing, bye) ==
  IF departing = "none" THEN {} ELSE eggs(departing, bye, departure_signing_bytes(ours, departing, 1))
Attested(r) ==
  \E witness \in Device, departing \in Device \cup {"none"}, mask, bye \in SUBSET Scheme :
    /\ Base \in mask /\ Base \in bye
    /\ r = new_identity_count(ours, 1, 1, witness, departing, r.eggs)
    /\ r.eggs = eggs_ptr(<<eggs(witness, mask, count_signing_bytes(r)), Consent(departing, bye)>>)
StatementIsSigned == statement # Nothing => Placed(statement) \/ Attested(statement)

RecordsInv == Shapes /\ RecordsArePublished /\ FindsOnePublish /\ StatementIsSigned

-----------------------------------------------------------------------------
(* What a publish signs. *)

\* A record with one address states it, its device and its stamp, eggs or not.
LEMMA AddressesAreStated ==
  ASSUME NEW d, NEW at, NEW port, NEW now
  PROVE  LET r == sign_device_address(d, at, port, now).record
         IN  r.kind = "DeviceAddress" /\ r.device = d /\ r.at = at /\ r.time = now
BY DEF sign_device_address, Sign, new_device_address

\* A record with a set points at it.
LEMMA SetsAreStated ==
  ASSUME NEW d, NEW set, NEW now
  PROVE  LET r == sign_device_address_set(d, set, now).record
         IN  /\ r.kind = "DeviceAddressSet" /\ r.device = d /\ r.time = now
             /\ r.set = address_set_ptr(address_set_blob(set, now))
BY DEF sign_device_address_set, Sign, new_device_address_set

\* Two sets behind one pointer are one set.
LEMMA PointersTellSets ==
  ASSUME NEW x, NEW y, address_set_ptr(x) = address_set_ptr(y)
  PROVE  x = y
BY DEF address_set_ptr

\* What is published stays so.
LEMMA PublishedForGood ==
  ASSUME NEW r, IsPublished(r), published \subseteq published'
  PROVE  IsPublished(r)'
BY DEF IsPublished

-----------------------------------------------------------------------------
(* What a member signs. *)

\* Eggs that verify for somebody and some bytes were made by that one, of those
\* bytes, and so say who and what; none verify for nobody.
LEMMA EggsNameTheirBytes ==
  ASSUME NEW signer, NEW mask, NEW msg, NEW who, NEW bundle, NEW bytes, NEW required,
         verify_eggs_declared(eggs(signer, mask, msg), who, bundle, bytes, required)
  PROVE  who = signer /\ bytes = msg
BY DEF verify_eggs_declared, eggs

LEMMA NoEggsVerify ==
  ASSUME NEW who, NEW bundle, NEW bytes, NEW required
  PROVE  ~verify_eggs_declared({}, who, bundle, bytes, required)
BY DEF verify_eggs_declared

\* Eggs under the anchor's scheme verify for their signer and bytes, for all who
\* know the anchor alone.
LEMMA AnchorsVerify ==
  ASSUME NEW signer \in Device, NEW mask, Base \in mask, NEW msg
  PROVE  verify_eggs_declared(eggs(signer, mask, msg), signer, anchor_only.bundle[signer],
                              msg, anchor_only.required)
<1> DEFINE known == {e \in eggs(signer, mask, msg) : e.scheme \in {Base}}
           anchor == [scheme |-> Base, by |-> signer, msg |-> msg]
<1>1. anchor \in known /\ anchor.scheme = Base
  BY DEF eggs
<1>2. \A e \in known : e.by = signer /\ e.msg = msg
  BY DEF eggs
<1>3. {Base} \subseteq {e.scheme : e \in known}
  BY <1>1
<1>4. anchor_only.bundle[signer] = {Base} /\ anchor_only.required = {Base}
  BY DEF anchor_only
<1> QED
  BY <1>1, <1>2, <1>3, <1>4 DEF verify_eggs_declared

\* The bytes of a placement name the slot, the device and the epoch.
LEMMA PlacementBytes ==
  ASSUME NEW r, NEW s, placement_signing_bytes(r) = placement_signing_bytes(s)
  PROVE  r.handle = s.handle /\ r.index = s.index /\ r.epoch = s.epoch /\ r.device = s.device
BY DEF placement_signing_bytes

LEMMA CountBytes ==
  ASSUME NEW r, NEW s, count_signing_bytes(r) = count_signing_bytes(s)
  PROVE  r.handle = s.handle /\ r.count = s.count /\ r.epoch = s.epoch /\ r.departing = s.departing
BY DEF count_signing_bytes

\* What a consent says.
LEMMA DepartureBytes ==
  ASSUME NEW h, NEW d, NEW n, NEW i, NEW e, NEW k,
         departure_signing_bytes(h, d, n) = departure_signing_bytes(i, e, k)
  PROVE  h = i /\ d = e /\ n = k
BY DEF departure_signing_bytes

\* A list verifies for its signer, over these bytes.
Verified(list, who, bytes, policy) ==
  verify_eggs_declared(list, who, policy.bundle[who], bytes, policy.required)

\* The eggs of a placement verify for nothing but that placement.
LEMMA PlacementsAreBound ==
  ASSUME Placed(statement)
  PROVE  StatementsAreBound
<1>1. PICK placer \in Device, d \in Device, mask \in SUBSET Scheme :
        /\ Base \in mask
        /\ statement = new_device_pointer(ours, 0, d, 1, placer, statement.eggs)
        /\ statement.eggs = eggs_ptr(<<eggs(placer, mask, placement_signing_bytes(statement))>>)
  BY DEF Placed
<1> DEFINE msg == placement_signing_bytes(statement)
           own == eggs(placer, mask, msg)
<1>2. /\ statement.eggs[2] = <<own>>
      /\ statement.kind = "DevicePointer" /\ statement.placer = placer /\ statement.device = d
      /\ statement.handle = ours /\ statement.index = 0 /\ statement.epoch = 1
  BY <1>1 DEF eggs_ptr, new_device_pointer
<1> HIDE DEF msg, own
<1>3. ASSUME NEW list \in {own, {}}, NEW who, NEW bytes, NEW policy, Verified(list, who, bytes, policy)
      PROVE  who = placer /\ bytes = msg
  BY <1>3, EggsNameTheirBytes, NoEggsVerify DEF Verified, own
<1>4. ASSUME NEW list \in {own, {}}, NEW policy PROVE BoundAlone(list, policy)
  <2> DEFINE blob == <<list>>
             ptr == eggs_ptr(blob)
  <2> HIDE DEF ptr
  <2>1. ASSUME NEW r \in Placements(ptr), verify_placement_with(r, blob, policy) PROVE SameBut(r, ptr)
    <3>1. PICK h \in Handle, i \in 0..1, f \in Device, n \in 0..1, p \in Device :
              r = new_device_pointer(h, i, f, n, p, ptr)
      BY DEF Placements
    <3>2. r.placer = placer /\ placement_signing_bytes(r) = msg
      <4>1. Verified(list, r.placer, placement_signing_bytes(r), policy)
        BY <2>1 DEF verify_placement_with, verify_list, Verified
      <4> QED
        BY <1>3, <4>1
    <3>3. r.handle = ours /\ r.index = 0 /\ r.epoch = 1 /\ r.device = d
      BY <1>2, <3>2, PlacementBytes DEF msg
    <3> QED
      BY <1>1, <3>1, <3>2, <3>3 DEF new_device_pointer, SameBut
  <2>2. ASSUME NEW r \in Addresses(ptr), verify_address_with(r, blob, policy) PROVE FALSE
    <3>1. Verified(list, r.device, address_signing_bytes(r), policy)
      BY <2>2 DEF verify_address_with, verify_list, Verified
    <3> QED
      BY <1>3, <3>1 DEF msg, address_signing_bytes, placement_signing_bytes
  <2>3. ASSUME NEW set, NEW r \in AddressSets(set, ptr), verify_address_set_with(r, blob, set, policy)
        PROVE  FALSE
    <3>1. Verified(list, r.device, address_set_signing_bytes(r), policy)
      BY <2>3 DEF verify_address_set_with, verify_list, Verified
    <3> QED
      BY <1>3, <3>1 DEF msg, address_set_signing_bytes, placement_signing_bytes
  <2> QED
    BY <2>1, <2>2, <2>3 DEF BoundAlone, ptr
<1>5. ASSUME NEW list \in {own, {}}, NEW other \in {own, {}}, NEW policy
      PROVE  BoundInPairs(list, other, policy)
  <2>1. ASSUME NEW r, verify_count_with(r, <<list, other>>, policy) PROVE FALSE
    <3>1. Verified(list, r.witness, count_signing_bytes(r), policy)
      BY <2>1 DEF verify_count_with, verify_list, Verified
    <3> QED
      BY <1>3, <3>1 DEF msg, count_signing_bytes, placement_signing_bytes
  <2>2. ASSUME NEW r, verify_departure_with(r, <<list, other>>, policy), r.departing # "none" PROVE FALSE
    <3>1. Verified(other, r.departing, departure_signing_bytes(r.handle, r.departing, r.epoch), policy)
      BY <2>2 DEF verify_departure_with, verify_list, Verified
    <3> QED
      BY <1>3, <3>1 DEF msg, departure_signing_bytes, placement_signing_bytes
  <2> QED
    BY <2>1, <2>2 DEF BoundInPairs
<1>6. verify_placement_with(statement, <<own>>, anchor_only)
  <2>1. verify_eggs_declared(own, placer, anchor_only.bundle[placer], msg, anchor_only.required)
    BY <1>1, AnchorsVerify DEF own
  <2> QED
    BY <1>1, <1>2, <2>1 DEF verify_placement_with, verify_list, own, msg
<1>7. {<<own>>[i] : i \in DOMAIN <<own>>} \cup {{}} = {own, {}}
  OBVIOUS
<1> DEFINE signed == statement.eggs[2]
           lists == {signed[i] : i \in DOMAIN signed} \cup {{}}
<1>10. signed = <<own>> /\ lists = {own, {}}
  BY <1>2, <1>7
<1>11. \A policy \in {anchor_only, Policy}, list \in lists :
         BoundAlone(list, policy) /\ \A other \in lists : BoundInPairs(list, other, policy)
  <2>1. ASSUME NEW policy, NEW list \in lists PROVE BoundAlone(list, policy)
    BY <1>4, <1>10
  <2>2. ASSUME NEW policy, NEW list \in lists, NEW other \in lists PROVE BoundInPairs(list, other, policy)
    <3>1. list \in {own, {}} /\ other \in {own, {}}
      BY <1>10
    <3> QED
      BY <1>5, <3>1
  <2> QED
    BY <2>1, <2>2
<1>12. IF statement.kind = "DevicePointer"
       THEN verify_placement_with(statement, signed, anchor_only)
       ELSE /\ verify_count_with(statement, signed, anchor_only)
            /\ verify_departure_with(statement, signed, anchor_only)
  <2> HIDE DEF signed
  <2> QED
    BY <1>2, <1>6, <1>10
<1> QED
  BY <1>11, <1>12 DEF StatementsAreBound

\* Nor do those of a count, and the consent in it for another device or epoch.
LEMMA CountsAreBound ==
  ASSUME Attested(statement)
  PROVE  StatementsAreBound
<1>1. PICK witness \in Device, departing \in Device \cup {"none"}, mask \in SUBSET Scheme, bye \in SUBSET Scheme :
        /\ Base \in mask /\ Base \in bye
        /\ statement = new_identity_count(ours, 1, 1, witness, departing, statement.eggs)
        /\ statement.eggs =
             eggs_ptr(<<eggs(witness, mask, count_signing_bytes(statement)), Consent(departing, bye)>>)
  BY DEF Attested
<1> DEFINE msg == count_signing_bytes(statement)
           own == eggs(witness, mask, msg)
           leave == departure_signing_bytes(ours, departing, 1)
           consent == Consent(departing, bye)
<1>2. /\ statement.eggs[2] = <<own, consent>> /\ statement.eggs = eggs_ptr(<<own, consent>>)
      /\ statement.kind = "IdentityCount" /\ statement.witness = witness /\ statement.departing = departing
      /\ statement.handle = ours /\ statement.count = 1 /\ statement.epoch = 1
  BY <1>1 DEF eggs_ptr, new_identity_count
<1> HIDE DEF msg, own, leave, consent
<1>3. ASSUME NEW list \in {own, consent, {}}, NEW who, NEW bytes, NEW policy, Verified(list, who, bytes, policy)
      PROVE  (who = witness /\ bytes = msg) \/ (who = departing /\ bytes = leave)
  <2>1. consent = {} \/ consent = eggs(departing, bye, leave)
    BY DEF consent, Consent, leave
  <2> QED
    BY <1>3, <2>1, EggsNameTheirBytes, NoEggsVerify DEF Verified, own
<1>4. ASSUME NEW list \in {own, consent, {}}, NEW policy PROVE BoundAlone(list, policy)
  <2> DEFINE blob == <<list>>
             ptr == eggs_ptr(blob)
  <2> HIDE DEF ptr
  <2>1. ASSUME NEW r, verify_placement_with(r, blob, policy) PROVE FALSE
    <3>1. Verified(list, r.placer, placement_signing_bytes(r), policy)
      BY <2>1 DEF verify_placement_with, verify_list, Verified
    <3> QED
      BY <1>3, <3>1 DEF msg, leave, placement_signing_bytes, count_signing_bytes, departure_signing_bytes
  <2>2. ASSUME NEW r, verify_address_with(r, blob, policy) PROVE FALSE
    <3>1. Verified(list, r.device, address_signing_bytes(r), policy)
      BY <2>2 DEF verify_address_with, verify_list, Verified
    <3> QED
      BY <1>3, <3>1 DEF msg, leave, address_signing_bytes, count_signing_bytes, departure_signing_bytes
  <2>3. ASSUME NEW set, NEW r, verify_address_set_with(r, blob, set, policy) PROVE FALSE
    <3>1. Verified(list, r.device, address_set_signing_bytes(r), policy)
      BY <2>3 DEF verify_address_set_with, verify_list, Verified
    <3> QED
      BY <1>3, <3>1 DEF msg, leave, address_set_signing_bytes, count_signing_bytes, departure_signing_bytes
  <2> QED
    BY <2>1, <2>2, <2>3 DEF BoundAlone
<1>5. ASSUME NEW list \in {own, consent, {}}, NEW other \in {own, consent, {}}, NEW policy
      PROVE  BoundInPairs(list, other, policy)
  <2> DEFINE blob == <<list, other>>
             ptr == eggs_ptr(blob)
  <2> HIDE DEF ptr
  <2>1. ASSUME NEW r \in Counts(ptr), verify_count_with(r, blob, policy) PROVE SameBut(r, ptr)
    <3>1. PICK h \in Handle, n \in 0..1, e \in 0..1, w \in Device, f \in Device \cup {"none"} :
              r = new_identity_count(h, n, e, w, f, ptr)
      BY DEF Counts
    <3>2. r.witness = witness /\ count_signing_bytes(r) = msg
      <4>1. Verified(list, r.witness, count_signing_bytes(r), policy)
        BY <2>1 DEF verify_count_with, verify_list, Verified
      <4> QED
        BY <1>3, <4>1 DEF leave, count_signing_bytes, departure_signing_bytes
    <3>3. r.handle = ours /\ r.count = 1 /\ r.epoch = 1 /\ r.departing = departing
      BY <1>2, <3>2, CountBytes DEF msg
    <3> QED
      BY <1>1, <3>1, <3>2, <3>3 DEF new_identity_count, SameBut
  <2>2. ASSUME NEW r, verify_departure_with(r, blob, policy), r.departing # "none"
        PROVE  r.handle = ours /\ r.departing = departing /\ r.epoch = 1
    <3>1. departure_signing_bytes(r.handle, r.departing, r.epoch) = leave
      <4>1. Verified(other, r.departing, departure_signing_bytes(r.handle, r.departing, r.epoch), policy)
        BY <2>2 DEF verify_departure_with, verify_list, Verified
      <4> QED
        BY <1>3, <4>1 DEF msg, departure_signing_bytes, count_signing_bytes
    <3> QED
      BY <3>1, DepartureBytes DEF leave
  <2> QED
    BY <1>2, <2>1, <2>2 DEF BoundInPairs, ptr
<1>6. verify_count_with(statement, <<own, consent>>, anchor_only)
  <2>1. verify_eggs_declared(own, witness, anchor_only.bundle[witness], msg, anchor_only.required)
    BY <1>1, AnchorsVerify DEF own
  <2> QED
    BY <1>2, <2>1 DEF verify_count_with, verify_list, msg
<1>7. verify_departure_with(statement, <<own, consent>>, anchor_only)
  <2>1. SUFFICES ASSUME departing # "none" PROVE verify_departure_with(statement, <<own, consent>>, anchor_only)
    BY <1>2 DEF verify_departure_with
  <2>2. departing \in Device /\ consent = eggs(departing, bye, leave)
    BY <2>1 DEF consent, Consent, leave
  <2>3. verify_eggs_declared(consent, departing, anchor_only.bundle[departing], leave, anchor_only.required)
    BY <1>1, <2>2, AnchorsVerify
  <2> QED
    BY <1>2, <2>3 DEF verify_departure_with, verify_list, leave
<1>8. {<<own, consent>>[i] : i \in DOMAIN <<own, consent>>} \cup {{}} = {own, consent, {}}
  OBVIOUS
<1> DEFINE signed == statement.eggs[2]
           lists == {signed[i] : i \in DOMAIN signed} \cup {{}}
<1>10. signed = <<own, consent>> /\ lists = {own, consent, {}}
  BY <1>2, <1>8
<1>11. \A policy \in {anchor_only, Policy}, list \in lists :
         BoundAlone(list, policy) /\ \A other \in lists : BoundInPairs(list, other, policy)
  <2>1. ASSUME NEW policy, NEW list \in lists PROVE BoundAlone(list, policy)
    BY <1>4, <1>10
  <2>2. ASSUME NEW policy, NEW list \in lists, NEW other \in lists PROVE BoundInPairs(list, other, policy)
    <3>1. list \in {own, consent, {}} /\ other \in {own, consent, {}}
      BY <1>10
    <3> QED
      BY <1>5, <3>1
  <2> QED
    BY <2>1, <2>2
<1>12. IF statement.kind = "DevicePointer"
       THEN verify_placement_with(statement, signed, anchor_only)
       ELSE /\ verify_count_with(statement, signed, anchor_only)
            /\ verify_departure_with(statement, signed, anchor_only)
  <2> HIDE DEF signed
  <2> QED
    BY <1>2, <1>6, <1>7, <1>10
<1> QED
  BY <1>11, <1>12 DEF StatementsAreBound

LEMMA SignedStatementsAreBound == RecordsInv => StatementsAreBound
<1>1. CASE statement = Nothing
  BY <1>1 DEF StatementsAreBound
<1> QED
  BY <1>1, PlacementsAreBound, CountsAreBound DEF RecordsInv, StatementIsSigned
-----------------------------------------------------------------------------
(* The inductive invariant. *)

\* What a publish adds to an outbox is a record of that publish, and blobs.
LEMMA PublishesKeep ==
  ASSUME RecordsInv, NEW d \in Publisher, NEW kind, NEW addresses, NEW signed, NEW documents,
         Publishes(d, kind, addresses, Pieces(signed, documents)),
         IsPublished(signed.record)'
  PROVE  RecordsInv'
<1> USE DEF RecordsInv
<1>1. published \subseteq published'
  BY DEF Publishes
<1>2. \A r : IsPublished(r) => IsPublished(r)'
  BY <1>1, PublishedForGood
<1>3. /\ UNCHANGED <<declared, slots, reading, found, statement>>
      /\ outbox' = [outbox EXCEPT ![d] = @ \cup Pieces(signed, documents)]
  BY DEF Publishes
<1>4. Shapes'
  BY <1>3 DEF Shapes
<1>5. \A w \in Pieces(signed, documents) : w[1] = "record" => IsPublished(w[2])'
  <2>1. \A w \in Pieces(signed, documents) : w[1] = "record" => w[2] = signed.record
    BY DEF Pieces
  <2> QED
    BY <2>1
<1>6. \A e \in Publisher : \A w \in outbox'[e] : w[1] = "record" => IsPublished(w[2])'
  BY <1>2, <1>3, <1>5 DEF Shapes, RecordsArePublished
<1>7. RecordsArePublished'
  BY <1>2, <1>3, <1>6 DEF RecordsArePublished
<1>8. FindsOnePublish'
  BY <1>1, <1>3 DEF FindsOnePublish
<1>9. StatementIsSigned'
  BY <1>3 DEF StatementIsSigned
<1> QED
  BY <1>4, <1>7, <1>8, <1>9

\* Signing an address publishes it.
LEMMA PublishAddressKeeps ==
  ASSUME RecordsInv, NEW d \in Publisher, PublishAddress(d)
  PROVE  RecordsInv'
<1>1. PICK at \in here[d], port \in {0, 1} :
        Publishes(d, "DeviceAddress", {at}, Pieces(sign_device_address(d, at, port, clock[d] + 1), {}))
  BY DEF PublishAddress
<1>2. PICK now, signed : now = clock[d] + 1 /\ signed = sign_device_address(d, at, port, now)
  OBVIOUS
<1>3. Publishes(d, "DeviceAddress", {at}, Pieces(signed, {})) /\ <<d, {at}, now>> \in published'
  BY <1>1, <1>2 DEF Publishes
<1>4. LET r == signed.record
      IN  r.kind = "DeviceAddress" /\ r.device = d /\ r.at = at /\ r.time = now
  BY <1>2, AddressesAreStated
<1>5. IsPublished(signed.record)'
  BY <1>3, <1>4 DEF IsPublished
<1> QED
  BY <1>3, <1>5, PublishesKeep

\* Signing a set publishes it.
LEMMA PublishSetKeeps ==
  ASSUME RecordsInv, NEW d \in Publisher, PublishSet(d)
  PROVE  RecordsInv'
<1>1. PICK now, set, signed :
        now = clock[d] + 1 /\ set = here[d] /\ signed = sign_device_address_set(d, set, now)
  OBVIOUS
<1>2. Publishes(d, "DeviceAddressSet", set, Pieces(signed, {address_set_blob(set, now)})) /\ <<d, set, now>> \in published'
  BY <1>1 DEF PublishSet, Publishes
<1>3. LET r == signed.record
      IN  /\ r.kind = "DeviceAddressSet" /\ r.device = d /\ r.time = now
          /\ r.set = address_set_ptr(address_set_blob(set, now))
  BY <1>1, SetsAreStated
<1>4. IsPublished(signed.record)'
  <2>1. <<d, set, now>>[2] = set
    OBVIOUS
  <2> QED
    BY <1>2, <1>3, <2>1 DEF IsPublished
<1> QED
  BY <1>2, <1>4, PublishesKeep

\* A write makes what was in an outbox stored.
LEMMA StoreKeeps ==
  ASSUME RecordsInv, NEW d \in Publisher, Store(d)
  PROVE  RecordsInv'
<1> USE DEF RecordsInv
<1>1. PICK w \in outbox[d] : StoreRecord(d, w) \/ StoreBlob(d, w)
  BY DEF Store
<1>2. /\ UNCHANGED <<declared, reading, found, statement, published>>
      /\ outbox' = [outbox EXCEPT ![d] = @ \ {w}]
      /\ DOMAIN slots' = Publisher
      /\ \A e \in Publisher : slots'[e] = slots[e] \/ (w[1] = "record" /\ slots'[e] = w[2])
  <2>1. CASE StoreBlob(d, w)
    BY <2>1 DEF StoreBlob, Writes, Shapes
  <2>2. CASE StoreRecord(d, w)
    BY <2>2 DEF StoreRecord, Writes, Shapes
  <2> QED
    BY <1>1, <2>1, <2>2
<1>3. Shapes'
  BY <1>2 DEF Shapes
<1>4. \A r : IsPublished(r)' <=> IsPublished(r)
  BY <1>2 DEF IsPublished
<1>5. \A e \in Publisher : slots'[e] # Nothing => IsPublished(slots'[e])
  BY <1>2 DEF Shapes, RecordsArePublished
<1>6. \A e \in Publisher : \A v \in outbox'[e] : v \in outbox[e]
  BY <1>2 DEF Shapes
<1>7. RecordsArePublished'
  BY <1>2, <1>4, <1>5, <1>6 DEF RecordsArePublished
<1> QED
  BY <1>2, <1>3, <1>7 DEF FindsOnePublish, StatementIsSigned

\* What a member states is signed with what the chain knows it can sign with.
LEMMA StatesSigns ==
  ASSUME RecordsInv, NEW d \in Device, States(d)
  PROVE  StatementIsSigned'
<1>1. \A e \in Device : declared[e] \in SUBSET Scheme /\ Base \in declared[e]
  BY DEF RecordsInv, Shapes
<1>2. ASSUME NEW e \in Device, Place(d, 0, e, 1) PROVE Placed(statement)'
  <2>1. statement' = new_device_pointer(ours, 0, e, 1, d, statement'.eggs)
    BY <1>2 DEF Place, new_device_pointer
  <2>2. statement'.eggs = eggs_ptr(<<eggs(d, declared[d], placement_signing_bytes(statement'))>>)
    BY <1>2 DEF Place, new_device_pointer, placement_signing_bytes
  <2> QED
    BY <1>1, <2>1, <2>2 DEF Placed
<1>3. ASSUME NEW departing \in (Device \ {d}) \cup {"none"}, Attest(d, 1, departing, 1)
      PROVE  Attested(statement)'
  <2>1. PICK bye \in SUBSET Scheme :
          Base \in bye /\ (departing # "none" => bye = declared[departing])
    BY <1>1, RecordsAssumption
  <2>2. statement' = new_identity_count(ours, 1, 1, d, departing, statement'.eggs)
    BY <1>3 DEF Attest, new_identity_count
  <2>3. statement'.eggs =
          eggs_ptr(<<eggs(d, declared[d], count_signing_bytes(statement')), Consent(departing, bye)>>)
    BY <1>3, <2>1 DEF Attest, Consent, new_identity_count, count_signing_bytes
  <2> QED
    BY <1>1, <2>1, <2>2, <2>3 DEF Attested
<1> QED
  BY <1>2, <1>3 DEF States, StatementIsSigned

\* What was fetched was checked against a record that is published, so what is
\* found is of that publish.
LEMMA FetchKeeps ==
  ASSUME RecordsInv, NEW blob, NEW set, Fetch(blob, set)
  PROVE  RecordsInv'
<1> USE DEF RecordsInv
<1> DEFINE what == CASE reading.kind = "DeviceAddress" /\ verify_address_with(reading, blob, Policy) ->
                          [addresses |-> {reading.at}, time |-> reading.time]
                     [] reading.kind = "DeviceAddressSet"
                          /\ verify_address_set_with(reading, blob, set, Policy) ->
                          [addresses |-> set.entries, time |-> reading.time]
                     [] OTHER -> Absent
<1>1. /\ reading # Nothing /\ reading' = Nothing
      /\ found' = [found EXCEPT ![reading.device] = what]
      /\ UNCHANGED <<declared, slots, outbox, statement, published>>
  BY DEF Fetch, Idle
<1>2. IsPublished(reading)
  BY <1>1 DEF RecordsArePublished
<1>3. what # Absent => <<reading.device, what.addresses, what.time>> \in published
  <2>1. CASE reading.kind = "DeviceAddress"
    <3>1. <<reading.device, {reading.at}, reading.time>> \in published
      BY <1>2, <2>1 DEF IsPublished
    <3>2. what = Absent \/ what = [addresses |-> {reading.at}, time |-> reading.time]
      BY <2>1
    <3> QED
      BY <3>1, <3>2
  <2>2. CASE reading.kind = "DeviceAddressSet"
    <3>1. PICK x \in published : x = <<reading.device, x[2], reading.time>> /\ reading.set = address_set_ptr(address_set_blob(x[2], reading.time))
      BY <1>2, <2>2 DEF IsPublished
    <3>2. CASE verify_address_set_with(reading, blob, set, Policy)
      <4>1. address_set_ptr(set) = address_set_ptr(address_set_blob(x[2], reading.time))
        BY <3>1, <3>2 DEF verify_address_set_with
      <4>2. set.entries = x[2]
        BY <4>1, PointersTellSets DEF address_set_blob
      <4>3. what = [addresses |-> set.entries, time |-> reading.time]
        BY <2>2, <3>2
      <4> QED
        BY <3>1, <4>2, <4>3
    <3>3. CASE ~verify_address_set_with(reading, blob, set, Policy)
      BY <2>2, <3>3
    <3> QED
      BY <3>2, <3>3
  <2> QED
    BY <1>2, <2>1, <2>2 DEF IsPublished
<1> HIDE DEF what
<1>4. Shapes'
  BY <1>1 DEF Shapes
<1>5. FindsOnePublish'
  <2>1. SUFFICES ASSUME NEW d \in Publisher, found'[d] # Absent
                 PROVE  <<d, found'[d].addresses, found'[d].time>> \in published
    BY <1>1 DEF FindsOnePublish
  <2>2. d \in DOMAIN found
    BY DEF Shapes
  <2>3. CASE d = reading.device
    BY <1>1, <1>3, <2>1, <2>2, <2>3
  <2>4. CASE d # reading.device
    BY <1>1, <2>1, <2>2, <2>4 DEF FindsOnePublish
  <2> QED
    BY <2>3, <2>4
<1>6. \A r : IsPublished(r)' <=> IsPublished(r)
  BY <1>1 DEF IsPublished
<1>7. RecordsArePublished'
  BY <1>1, <1>6 DEF RecordsArePublished
<1> QED
  BY <1>1, <1>4, <1>5, <1>7 DEF StatementIsSigned

\* The invariant is kept by every step.
LEMMA RecordsStep ==
  ASSUME RecordsInv, [RecordsNext]_recordVars
  PROVE  RecordsInv'
<1> USE DEF RecordsInv
<1>1. CASE UNCHANGED recordVars
  BY <1>1 DEF recordVars, Shapes, RecordsArePublished, IsPublished, FindsOnePublish, StatementIsSigned
<1>2. ASSUME NEW d \in Publisher, PublishAddress(d) PROVE RecordsInv'
  BY <1>2, PublishAddressKeeps
<1>3. ASSUME NEW d \in Publisher, PublishSet(d) PROVE RecordsInv'
  BY <1>3, PublishSetKeeps
<1>4. ASSUME NEW d \in Publisher, Store(d) PROVE RecordsInv'
  BY <1>4, StoreKeeps
<1>5. ASSUME NEW d \in Publisher, Stops(d) PROVE RecordsInv'
  <2>1. /\ UNCHANGED <<declared, slots, reading, found, statement, published>>
        /\ outbox' = [outbox EXCEPT ![d] = {}]
    BY <1>5 DEF Stops
  <2>2. \A e \in Publisher : \A v \in outbox'[e] : v \in outbox[e]
    BY <2>1 DEF Shapes
  <2> QED
    BY <2>1, <2>2 DEF Shapes, RecordsArePublished, IsPublished, FindsOnePublish, StatementIsSigned
<1>6. ASSUME NEW d \in Publisher, Moves(d) PROVE RecordsInv'
  BY <1>6 DEF Moves, Shapes, RecordsArePublished, IsPublished, FindsOnePublish, StatementIsSigned
<1>7. ASSUME NEW d \in Device, Declares(d) PROVE RecordsInv'
  <2>1. /\ UNCHANGED <<outbox, slots, reading, found, statement, published>>
        /\ declared' = [declared EXCEPT ![d] = Scheme]
    BY <1>7 DEF Declares
  <2>2. Shapes'
    BY <2>1, RecordsAssumption DEF Shapes
  <2> QED
    BY <2>1, <2>2 DEF RecordsArePublished, IsPublished, FindsOnePublish, StatementIsSigned
<1>8. ASSUME NEW d \in Device, States(d) PROVE RecordsInv'
  <2>1. UNCHANGED <<declared, outbox, slots, reading, found, published>>
    BY <1>8 DEF States
  <2>2. StatementIsSigned'
    BY <1>8, StatesSigns
  <2> QED
    BY <2>1, <2>2 DEF Shapes, RecordsArePublished, IsPublished, FindsOnePublish
<1>9. ASSUME NEW d \in Publisher, Read(d) PROVE RecordsInv'
  BY <1>9 DEF Read, Idle, Shapes, RecordsArePublished, IsPublished, FindsOnePublish, StatementIsSigned
<1>10. CASE FetchAny
  BY <1>10, FetchKeeps DEF FetchAny
<1> QED
  BY <1>1, <1>2, <1>3, <1>4, <1>5, <1>6, <1>7, <1>8, <1>9, <1>10 DEF RecordsNext

\* It holds at the start, and always.
THEOREM RecordsAreWhole == RecordsSpec => []RecordsInv
<1>1. RecordsInit => RecordsInv
  BY RecordsAssumption DEF RecordsInit, RecordsInv, Shapes, RecordsArePublished, FindsOnePublish,
     StatementIsSigned, Idle
<1>2. RecordsInv /\ [RecordsNext]_recordVars => RecordsInv'
  BY RecordsStep
<1> QED
  BY <1>1, <1>2, PTL DEF RecordsSpec

\* A finder sees the addresses of one publish, with its stamp, or none, whatever
\* storage answers and whichever writes were made (verify_device_address_set).
THEOREM FindersSeeOnePublish == RecordsSpec => []FindsOnePublish
<1>1. RecordsInv => FindsOnePublish
  BY DEF RecordsInv
<1> QED
  BY <1>1, RecordsAreWhole, PTL

\* What a member signs for the registry makes no other placement, count, removal or
\* address verify, however its egg lists are packed and pointed at, and verifies for
\* every reader that knows the anchor (placement_signing_bytes, count_signing_bytes,
\* departure_signing_bytes and the domains they begin with).
THEOREM StatementsSayOneThing == RecordsSpec => []StatementsAreBound
BY SignedStatementsAreBound, RecordsAreWhole, PTL

-----------------------------------------------------------------------------
(* The registry. *)

\* A fold: devices in some order, each once.
Fold(f) == f \in Seq(Pubkey) /\ f # <<>> /\ IsInjective(f)

Records == {Pointer(i, d) : i \in Nat, d \in Pubkey} \cup {Count(n) : n \in Nat}
RegistryTypeOK ==
  /\ Fold(fold)
  /\ DOMAIN seen = Sibling /\ \A m \in Sibling : Fold(seen[m])
  /\ epoch \in 0..MaxPlans
  /\ count \in {None} \cup [n : Nat, epoch : Nat \ {0}]
  /\ pointers \in [Index -> {None} \cup [device : Pubkey, epoch : Nat \ {0}]]
  /\ plan \in [Sibling -> [writes : Seq(Records), epoch : Nat, goal : Seq(Pubkey)]]
  /\ alone \subseteq Sibling

\* What is left of a plan: pointers, each index once, and the count that covers
\* them.
Covers(w) == w[Len(w)].count
Pending(w, i) == \E j \in 1..Len(w) - 1 : w[j].index = i
WellPlanned(w) ==
  /\ w[Len(w)] = Count(Covers(w))
  /\ \A j \in 1..Len(w) - 1 :
       /\ w[j] = Pointer(w[j].index, w[j].device)
       /\ w[j].index \in 1..Covers(w) /\ w[j].device \in Pubkey
  /\ \A j, k \in 1..Len(w) - 1 : w[j].index = w[k].index => j = k

\* A plan adds at most every device to the run it finds.
RunGrows ==
  /\ count # None => count.n \in 1..epoch * Cardinality(Pubkey)
  /\ \A m \in Sibling : ~Done(m) =>
       /\ plan[m].epoch # 0
       /\ WellPlanned(plan[m].writes)
       /\ Covers(plan[m].writes) \in 1..epoch * Cardinality(Pubkey)

\* What a plan covers is there, or still to be written.
PlansFill ==
  \A m \in Sibling : ~Done(m) =>
    \A i \in 1..Covers(plan[m].writes) : pointers[i] # None \/ Pending(plan[m].writes, i)

\* The devices that will be in the registry when the plan is written.
Target(w) ==
  {w[j].device : j \in 1..Len(w) - 1}
    \cup {pointers[i].device : i \in {k \in 1..Covers(w) : ~Pending(w, k)}}
AloneIsOnCourse ==
  \A m \in alone :
    IF Done(m) THEN ToSet(devices) = ToSet(plan[m].goal)
    ELSE Target(plan[m].writes) = ToSet(plan[m].goal)

RegistryInv == RegistryTypeOK /\ RunIsDense /\ RunGrows /\ PlansFill /\ AloneIsOnCourse
-----------------------------------------------------------------------------
(* Positions and lists. *)

\* Ranks tell the members of a finite set of numbers apart, and use every number
\* up to its size.
LEMMA Ranks ==
  ASSUME NEW S \in SUBSET Int, IsFiniteSet(S)
  PROVE  LET rank(x) == Cardinality({y \in S : y <= x})
         IN  /\ Cardinality(S) \in Nat
             /\ \A x \in S : rank(x) \in 1..Cardinality(S)
             /\ \A x, z \in S : rank(x) = rank(z) => x = z
             /\ \A k \in 1..Cardinality(S) : \E x \in S : rank(x) = k
<1> DEFINE upto(x) == {y \in S : y <= x}
           n == Cardinality(S)
           f == [x \in S |-> Cardinality(upto(x))]
<1>1. n \in Nat
  BY FS_CardinalityType
<1>2. \A x \in S : /\ IsFiniteSet(upto(x)) /\ Cardinality(upto(x)) \in Nat
                   /\ Cardinality(upto(x)) <= n
  <2> SUFFICES ASSUME NEW x \in S
               PROVE  /\ IsFiniteSet(upto(x)) /\ Cardinality(upto(x)) \in Nat
                      /\ Cardinality(upto(x)) <= n
    OBVIOUS
  <2>1. upto(x) \in SUBSET S
    OBVIOUS
  <2>2. IsFiniteSet(upto(x)) /\ Cardinality(upto(x)) <= n
    BY <2>1, FS_Subset
  <2> QED
    BY <2>2, FS_CardinalityType
<1>3. \A x \in S : Cardinality(upto(x)) \in 1..n
  <2> SUFFICES ASSUME NEW x \in S PROVE Cardinality(upto(x)) \in 1..n
    OBVIOUS
  <2>1. x \in upto(x)
    OBVIOUS
  <2>2. Cardinality(upto(x)) # 0
    BY <2>1, <1>2, FS_EmptySet
  <2> HIDE DEF upto, n
  <2> QED
    BY <1>1, <1>2, <2>2
<1>4. \A x, z \in S : x < z => Cardinality(upto(x)) < Cardinality(upto(z))
  <2> SUFFICES ASSUME NEW x \in S, NEW z \in S, x < z
               PROVE  Cardinality(upto(x)) < Cardinality(upto(z))
    OBVIOUS
  <2>1. x \in Int /\ z \in Int
    OBVIOUS
  <2>2. z \notin upto(x)
    BY <2>1
  <2>3. Cardinality(upto(x) \cup {z}) = Cardinality(upto(x)) + 1
    BY <2>2, <1>2, FS_AddElement
  <2>4. upto(x) \cup {z} \in SUBSET upto(z)
    <3>1. \A y \in upto(x) : y \in Int /\ y \in S /\ y <= x
      OBVIOUS
    <3>2. \A y \in upto(x) : y <= z
      BY <3>1, <2>1
    <3>3. z \in upto(z)
      BY <2>1
    <3>4. \A y \in upto(x) : y \in upto(z)
      BY <3>1, <3>2
    <3> QED
      BY <3>3, <3>4
  <2>5. Cardinality(upto(x) \cup {z}) <= Cardinality(upto(z))
    BY <2>4, <1>2, FS_Subset
  <2> HIDE DEF upto
  <2> QED
    BY <2>3, <2>5, <1>2
<1>5. \A x, z \in S : Cardinality(upto(x)) = Cardinality(upto(z)) => x = z
  <2> SUFFICES ASSUME NEW x \in S, NEW z \in S, Cardinality(upto(x)) = Cardinality(upto(z)), x # z
               PROVE  FALSE
    OBVIOUS
  <2>1. x < z \/ z < x
    OBVIOUS
  <2> HIDE DEF upto
  <2> QED
    BY <2>1, <1>2, <1>4
<1>6. f \in Injection(S, 1..n)
  <2>1. f \in [S -> 1..n]
    BY <1>3
  <2>2. \A x, z \in S : f[x] = f[z] => x = z
    BY <1>5
  <2> QED
    BY <2>1, <2>2, Zenon DEF Injection, IsInjective
<1>7. IsFiniteSet(1..n) /\ Cardinality(1..n) = n
  <2>1. IsFiniteSet(1..n) /\ Cardinality(1..n) = IF 1 > n THEN 0 ELSE n - 1 + 1
    BY <1>1, FS_Interval
  <2> QED
    BY <2>1, <1>1
<1>8. f \in Surjection(S, 1..n)
  BY <1>6, <1>7, FS_Injection
<1>9. \A k \in 1..n : \E x \in S : f[x] = k
  BY <1>8 DEF Surjection
<1> QED
  BY <1>1, <1>3, <1>5, <1>9

\* Nth lists a finite set of numbers.
LEMMA Nths ==
  ASSUME NEW S \in SUBSET Int, IsFiniteSet(S)
  PROVE  /\ Cardinality(S) \in Nat
         /\ \A k \in 1..Cardinality(S) : Nth(S, k) \in S
         /\ \A j, k \in 1..Cardinality(S) : Nth(S, j) = Nth(S, k) => j = k
         /\ \A x \in S : \E k \in 1..Cardinality(S) : Nth(S, k) = x
<1> DEFINE rank(x) == Cardinality({y \in S : y <= x})
           n == Cardinality(S)
<1>1. /\ n \in Nat
      /\ \A x \in S : rank(x) \in 1..n
      /\ \A x, z \in S : rank(x) = rank(z) => x = z
      /\ \A k \in 1..n : \E x \in S : rank(x) = k
  BY Ranks
<1>2. \A k : Nth(S, k) = CHOOSE x \in S : rank(x) = k
  BY DEF Nth
<1> HIDE DEF rank, n
<1>3. \A k \in 1..n : Nth(S, k) \in S /\ rank(Nth(S, k)) = k
  BY <1>1, <1>2
<1>4. \A x \in S : Nth(S, rank(x)) = x
  BY <1>1, <1>3
<1> QED
  BY <1>1, <1>3, <1>4 DEF n

\* One list after another.
LEMMA Concats ==
  ASSUME NEW E, NEW a \in Seq(E), NEW b \in Seq(E)
  PROVE  /\ a \o b \in Seq(E) /\ Len(a \o b) = Len(a) + Len(b) /\ DOMAIN (a \o b) = 1..Len(a \o b)
         /\ \A i \in 1..Len(a) : (a \o b)[i] = a[i]
         /\ \A i \in 1..Len(b) : (a \o b)[Len(a) + i] = b[i]
         /\ Len(a) \in Nat /\ Len(b) \in Nat
         /\ ToSet(a \o b) = ToSet(a) \cup ToSet(b)
<1> DEFINE both == a \o b
<1>1. /\ Len(a) \in Nat /\ Len(b) \in Nat /\ DOMAIN a = 1..Len(a) /\ DOMAIN b = 1..Len(b)
      /\ both \in Seq(E) /\ Len(both) = Len(a) + Len(b)
  OBVIOUS
<1>2. \A i \in 1..Len(a) : both[i] = a[i]
  OBVIOUS
<1>3. ASSUME NEW i \in 1..Len(b) PROVE both[Len(a) + i] = b[i] /\ Len(a) + i \in 1..Len(both)
  OBVIOUS
<1>4. DOMAIN both = 1..Len(both)
  BY <1>1
<1> HIDE DEF both
<1>5. \A i \in 1..Len(both) : both[i] \in ToSet(a) \cup ToSet(b)
  <2> SUFFICES ASSUME NEW i \in 1..Len(both) PROVE both[i] \in ToSet(a) \cup ToSet(b)
    OBVIOUS
  <2>1. i \in 1..Len(a) => both[i] \in ToSet(a)
    BY <1>1, <1>2 DEF ToSet
  <2>2. i \notin 1..Len(a) => i - Len(a) \in 1..Len(b) /\ Len(a) + (i - Len(a)) = i
    BY <1>1
  <2>3. i \notin 1..Len(a) => both[i] = b[i - Len(a)]
    BY <2>2, <1>3
  <2>4. i \notin 1..Len(a) => both[i] \in ToSet(b)
    BY <2>2, <2>3, <1>1 DEF ToSet
  <2> QED
    BY <2>1, <2>4
<1>6. \A i \in 1..Len(a) : a[i] \in ToSet(both)
  <2>1. \A i \in 1..Len(a) : i \in DOMAIN both
    BY <1>1, <1>4
  <2> QED
    BY <2>1, <1>2 DEF ToSet
<1>7. \A i \in 1..Len(b) : b[i] \in ToSet(both)
  BY <1>3, <1>4 DEF ToSet
<1>8. ToSet(both) \subseteq ToSet(a) \cup ToSet(b)
  BY <1>4, <1>5 DEF ToSet
<1>9. ToSet(a) \subseteq ToSet(both) /\ ToSet(b) \subseteq ToSet(both)
  BY <1>1, <1>6, <1>7 DEF ToSet
<1> QED
  BY <1>1, <1>2, <1>3, <1>4, <1>8, <1>9 DEF both

\* Entries takes from a list what is at some positions, each once.
LEMMA EntriesOf ==
  ASSUME NEW E, NEW list \in Seq(E), NEW S \in SUBSET (DOMAIN list)
  PROVE  /\ Cardinality(S) \in Nat /\ Cardinality(S) <= Len(list)
         /\ Entries(list, S) \in Seq(E)
         /\ Len(Entries(list, S)) = Cardinality(S)
         /\ ToSet(Entries(list, S)) = {list[i] : i \in S}
         /\ IsInjective(list) => IsInjective(Entries(list, S))
         /\ S # {} => Cardinality(S) # 0
<1> DEFINE n == Cardinality(S)
           e == Entries(list, S)
<1>1. DOMAIN list = 1..Len(list) /\ Len(list) \in Nat
  OBVIOUS
<1>2. IsFiniteSet(1..Len(list)) /\ Cardinality(1..Len(list)) = Len(list)
  <2>1. IsFiniteSet(1..Len(list)) /\ Cardinality(1..Len(list)) = IF 1 > Len(list) THEN 0 ELSE Len(list) - 1 + 1
    BY <1>1, FS_Interval
  <2> QED
    BY <2>1, <1>1
<1>3. S \in SUBSET (1..Len(list))
  BY <1>1
<1>4. IsFiniteSet(S) /\ n <= Len(list)
  BY <1>2, <1>3, FS_Subset
<1>5. S \in SUBSET Int
  BY <1>3
<1>6. /\ n \in Nat
      /\ \A k \in 1..n : Nth(S, k) \in S
      /\ \A j, k \in 1..n : Nth(S, j) = Nth(S, k) => j = k
      /\ \A x \in S : \E k \in 1..n : Nth(S, k) = x
  BY <1>4, <1>5, Nths
<1>7. e = [k \in 1..n |-> list[Nth(S, k)]]
  BY DEF Entries
<1>8. S # {} => n # 0
  BY <1>4, FS_EmptySet
<1> HIDE DEF n, e
<1>9. \A k \in 1..n : list[Nth(S, k)] \in E
  BY <1>6
<1>10. e \in Seq(E) /\ Len(e) = n /\ DOMAIN e = 1..n
  BY <1>6, <1>7, <1>9
<1>11. ToSet(e) = {list[i] : i \in S}
  BY <1>6, <1>7, <1>10 DEF ToSet
<1>12. ASSUME IsInjective(list) PROVE IsInjective(e)
  BY <1>12, <1>6, <1>7, <1>10 DEF IsInjective
<1> QED
  BY <1>4, <1>6, <1>8, <1>10, <1>11, <1>12 DEF n, e

-----------------------------------------------------------------------------
(* What a plan brings about. *)

\* What pop-and-swap leaves are devices of the fold, and no more than there were.
LEMMA PrunedIs ==
  ASSUME NEW list \in Seq(Pubkey), NEW ms
  PROVE  /\ Pruned(list, ms) \in Seq(Pubkey)
         /\ Len(Pruned(list, ms)) <= Len(list)
         /\ ToSet(Pruned(list, ms)) \subseteq ms
<1> DEFINE kept == {p \in DOMAIN list : list[p] \in ms}
           n == Cardinality(kept)
           holes(p) == Cardinality((1..p) \ kept)
           left == Pruned(list, ms)
<1>1. DOMAIN list = 1..Len(list) /\ Len(list) \in Nat
  OBVIOUS
<1>2. kept \in SUBSET (DOMAIN list) /\ kept \in SUBSET Int
  BY <1>1
<1>3. n \in Nat /\ n <= Len(list)
  BY <1>2, EntriesOf
<1>4. IsFiniteSet(kept)
  <2>1. IsFiniteSet(1..Len(list))
    BY <1>1, FS_Interval
  <2> QED
    BY <2>1, <1>1, <1>2, FS_Subset
<1>5. \A k \in 1..n : Nth(kept, k) \in kept
  BY <1>2, <1>4, Nths
<1>6. \A p \in 1..n : p \notin kept => n + 1 - holes(p) \in 1..n
  <2> SUFFICES ASSUME NEW p \in 1..n, p \notin kept
               PROVE  n + 1 - holes(p) \in 1..n
    OBVIOUS
  <2>1. p \in Nat /\ 1 <= p /\ p <= n
    BY <1>3
  <2>2. IsFiniteSet(1..p) /\ Cardinality(1..p) = p
    <3>1. IsFiniteSet(1..p) /\ Cardinality(1..p) = IF 1 > p THEN 0 ELSE p - 1 + 1
      BY <2>1, FS_Interval
    <3> QED
      BY <3>1, <2>1
  <2>3. (1..p) \ kept \in SUBSET (1..p)
    OBVIOUS
  <2>4. IsFiniteSet((1..p) \ kept) /\ holes(p) <= p
    BY <2>2, <2>3, FS_Subset
  <2>5. p \in (1..p) \ kept
    BY <2>1
  <2>6. holes(p) # 0 /\ holes(p) \in Nat
    BY <2>4, <2>5, FS_EmptySet, FS_CardinalityType
  <2> HIDE DEF holes, n, kept
  <2> QED
    BY <2>1, <2>4, <2>6, <1>3
<1>7. left = [p \in 1..n |-> IF p \in kept THEN list[p] ELSE list[Nth(kept, n + 1 - holes(p))]]
  BY DEF Pruned
<1>8. \A q \in kept : list[q] \in ms /\ list[q] \in Pubkey
  BY <1>1
<1> HIDE DEF holes, n, kept, left
<1>9. \A p \in 1..n : left[p] \in ms /\ left[p] \in Pubkey
  BY <1>5, <1>6, <1>7, <1>8
<1>10. left \in Seq(Pubkey) /\ Len(left) = n /\ DOMAIN left = 1..n
  BY <1>3, <1>7, <1>9
<1>11. ToSet(left) \subseteq ms
  BY <1>9, <1>10 DEF ToSet
<1> QED
  BY <1>3, <1>10, <1>11 DEF left

\* A plan aims at a list of exactly the devices of the fold, longer than the run
\* it finds by at most the number of devices.
LEMMA ConvergedIs ==
  ASSUME NEW list \in Seq(Pubkey), NEW ms, Fold(ms)
  PROVE  /\ Converged(list, ms) \in Seq(Pubkey)
         /\ ToSet(Converged(list, ms)) = ToSet(ms)
         /\ Len(Converged(list, ms)) # 0
         /\ Len(Converged(list, ms)) <= Len(list) + Cardinality(Pubkey)
<1> DEFINE left == Pruned(list, ToSet(ms))
           more == {i \in DOMAIN ms : ms[i] \notin ToSet(left)}
           added == Entries(ms, more)
<1>1. left \in Seq(Pubkey) /\ Len(left) <= Len(list) /\ ToSet(left) \subseteq ToSet(ms)
  BY PrunedIs
<1>2. ms \in Seq(Pubkey) /\ ms # <<>> /\ IsInjective(ms)
  BY DEF Fold
<1>3. more \in SUBSET (DOMAIN ms)
  OBVIOUS
<1>4. /\ added \in Seq(Pubkey) /\ Len(added) = Cardinality(more)
      /\ ToSet(added) = {ms[i] : i \in more} /\ IsInjective(added)
  BY <1>2, <1>3, EntriesOf
<1>5. Len(added) <= Cardinality(Pubkey) /\ Cardinality(Pubkey) \in Nat
  <2> HIDE DEF added, more, left
  <2> DEFINE k == Len(added)
  <2>1. added \in [1..k -> Pubkey] /\ DOMAIN added = 1..k /\ k \in Nat
    <3>1. added \in Seq(Pubkey)
      BY <1>4
    <3> QED
      BY <3>1
  <2> HIDE DEF k
  <2>2. added \in Injection(1..k, Pubkey)
    BY <2>1, <1>4, Zenon DEF Injection, IsInjective
  <2>3. IsFiniteSet(Pubkey)
    BY RegistryAssumption
  <2>4. Cardinality(1..k) <= Cardinality(Pubkey)
    BY <2>2, <2>3, FS_Injection
  <2>5. Cardinality(1..k) = IF 1 > k THEN 0 ELSE k - 1 + 1
    BY <2>1, FS_Interval
  <2>6. Cardinality(1..k) = k
    BY <2>1, <2>5
  <2> QED
    BY <2>3, <2>4, <2>6, FS_CardinalityType DEF k
<1>6. Converged(list, ms) = left \o added
  BY DEF Converged
<1> DEFINE both == left \o added
<1>7. ToSet(added) = ToSet(ms) \ ToSet(left)
  BY <1>4 DEF ToSet
<1> HIDE DEF left, added
<1>8. /\ both \in Seq(Pubkey) /\ Len(both) = Len(left) + Len(added) /\ DOMAIN both = 1..Len(both)
      /\ Len(left) \in Nat /\ Len(added) \in Nat
  BY <1>1, <1>4, Concats DEF both
<1>9. ToSet(both) = ToSet(left) \cup ToSet(added)
  BY <1>1, <1>4, Concats DEF both
<1> HIDE DEF both
<1>10. ToSet(both) = ToSet(ms)
  BY <1>1, <1>7, <1>9
<1>11. Len(both) # 0
  <2>1. ms[1] \in ToSet(ms)
    BY <1>2 DEF ToSet
  <2>2. PICK i \in 1..Len(both) : both[i] = ms[1]
    BY <2>1, <1>10, <1>8 DEF ToSet
  <2> QED
    BY <2>2, <1>8
<1>12. Len(list) \in Nat
  OBVIOUS
<1>13. Len(both) <= Len(list) + Cardinality(Pubkey)
  BY <1>1, <1>5, <1>8, <1>12
<1> QED
  BY <1>6, <1>8, <1>10, <1>11, <1>13 DEF both

\* Bounds on the run: each plan may add as many entries as there are devices.
LEMMA Bounds ==
  ASSUME NEW a \in Nat, NEW b \in Nat, a <= b
  PROVE  LET n == Cardinality(Pubkey)
         IN  /\ n \in Nat /\ a * n \in Nat /\ b * n \in Nat
             /\ a * n <= b * n /\ (a + 1) * n = a * n + n
<1> DEFINE n == Cardinality(Pubkey)
<1>1. n \in Nat
  BY RegistryAssumption, FS_CardinalityType
<1> HIDE DEF n
<1>2. a * n \in Nat /\ b * n \in Nat /\ (a + 1) * n = a * n + n
  BY <1>1
<1>3. b * n = a * n + (b - a) * n /\ (b - a) * n >= 0
  BY <1>1
<1> QED
  BY <1>1, <1>2, <1>3 DEF n

\* What the count covers is there, and names devices.
LEMMA RunIs ==
  ASSUME RegistryTypeOK, RunIsDense, RunGrows
  PROVE  /\ devices \in Seq(Pubkey)
         /\ Len(devices) <= epoch * Cardinality(Pubkey)
         /\ DOMAIN devices = 1..Len(devices)
         /\ count = None => Len(devices) = 0
         /\ count # None => Len(devices) = count.n
         /\ \A i \in 1..Len(devices) :
              /\ i \in Index /\ pointers[i] # None
              /\ devices[i] = pointers[i].device
<1> DEFINE n == IF count = None THEN 0 ELSE count.n
           top == epoch * Cardinality(Pubkey)
<1>1. epoch \in Nat /\ epoch <= MaxPlans /\ MaxPlans \in Nat
  BY RegistryAssumption DEF RegistryTypeOK
<1>2. top \in Nat /\ Index = 1..MaxPlans * Cardinality(Pubkey) /\ MaxPlans * Cardinality(Pubkey) \in Nat
      /\ top <= MaxPlans * Cardinality(Pubkey)
  BY <1>1, Bounds DEF Index
<1>3. count # None => count.n \in 1..top
  BY DEF RunGrows
<1> HIDE DEF top
<1>4. n \in Nat /\ n <= top
  BY <1>2, <1>3
<1>5. View = [i \in 1..n |-> pointers[i]]
  BY DEF View
<1> HIDE DEF n
<1>6. \A i \in 1..n : i \in Index
  BY <1>2, <1>4
<1>7. \A i \in 1..n : pointers[i] # None
  BY <1>5 DEF RunIsDense
<1>8. \A i \in 1..n : pointers[i].device \in Pubkey
  <2> SUFFICES ASSUME NEW i \in 1..n PROVE pointers[i].device \in Pubkey
    OBVIOUS
  <2>1. pointers[i] \in {None} \cup [device : Pubkey, epoch : Nat \ {0}]
    BY <1>6 DEF RegistryTypeOK
  <2> QED
    BY <2>1, <1>7
<1>9. devices = [i \in 1..n |-> pointers[i].device]
  BY <1>5 DEF devices
<1>10. devices \in Seq(Pubkey) /\ Len(devices) = n /\ DOMAIN devices = 1..n
  BY <1>4, <1>8, <1>9
<1> QED
  BY <1>4, <1>6, <1>7, <1>9, <1>10 DEF n, top

\* A plan is to write the pointers that change, each once, and the count; with
\* what is stored already these are the devices of the fold.
LEMMA PlanIs ==
  ASSUME RegistryTypeOK, RunIsDense, RunGrows, NEW ms, Fold(ms), registry_plan(ms) # <<>>
  PROVE  LET w == registry_plan(ms)
         IN  /\ w \in Seq(Records) /\ WellPlanned(w)
             /\ Covers(w) \in 1..(epoch + 1) * Cardinality(Pubkey)
             /\ \A i \in 1..Covers(w) : pointers[i] # None \/ Pending(w, i)
             /\ Target(w) = ToSet(ms)
<1> DEFINE list == Converged(devices, ms)
           stale == Stale(list)
           n == Cardinality(stale)
           L == Len(list)
           at(j) == Nth(stale, j)
           w == registry_plan(ms)
<1>1. /\ devices \in Seq(Pubkey) /\ DOMAIN devices = 1..Len(devices)
      /\ Len(devices) <= epoch * Cardinality(Pubkey)
      /\ \A i \in 1..Len(devices) : pointers[i] # None /\ devices[i] = pointers[i].device
  BY RunIs
<1>2. /\ list \in Seq(Pubkey) /\ ToSet(list) = ToSet(ms)
      /\ L # 0 /\ L <= Len(devices) + Cardinality(Pubkey)
  BY <1>1, ConvergedIs
<1>3. L \in 1..(epoch + 1) * Cardinality(Pubkey)
  <2>1. epoch \in Nat
    BY DEF RegistryTypeOK
  <2>2. /\ Cardinality(Pubkey) \in Nat /\ epoch * Cardinality(Pubkey) \in Nat
        /\ (epoch + 1) * Cardinality(Pubkey) = epoch * Cardinality(Pubkey) + Cardinality(Pubkey)
    BY <2>1, Bounds
  <2>3. L \in Nat /\ Len(devices) \in Nat
    BY <1>1, <1>2
  <2> HIDE DEF L
  <2> QED
    BY <1>1, <1>2, <2>2, <2>3
<1>4. stale = {i \in DOMAIN list : i \notin DOMAIN devices \/ devices[i] # list[i]}
  BY DEF Stale
<1>5. DOMAIN list = 1..L /\ L \in Nat /\ \A i \in 1..L : list[i] \in Pubkey
  BY <1>2
<1>6. stale \in SUBSET (1..L) /\ stale \in SUBSET Int
  BY <1>4, <1>5
<1>7. IsFiniteSet(stale)
  <2>1. IsFiniteSet(1..L)
    BY <1>5, FS_Interval
  <2> QED
    BY <2>1, <1>6, FS_Subset
<1>8. /\ n \in Nat
      /\ \A k \in 1..n : at(k) \in stale
      /\ \A j, k \in 1..n : at(j) = at(k) => j = k
      /\ \A x \in stale : \E k \in 1..n : at(k) = x
  BY <1>6, <1>7, Nths
<1>9. PointersTo(list) = [j \in 1..n |-> Pointer(at(j), list[at(j)])]
  BY DEF PointersTo
<1>10. w = PointersTo(list) \o <<Count(L)>>
  BY DEF registry_plan
<1> HIDE DEF at, n, L, w, stale, list
<1>11. \A j \in 1..n : at(j) \in 1..L /\ at(j) \in Nat /\ list[at(j)] \in Pubkey
  <2> SUFFICES ASSUME NEW j \in 1..n PROVE at(j) \in 1..L /\ at(j) \in Nat /\ list[at(j)] \in Pubkey
    OBVIOUS
  <2>1. at(j) \in stale
    BY <1>8
  <2>2. at(j) \in 1..L
    BY <2>1, <1>6
  <2> QED
    BY <2>2, <1>5
<1>12. \A j \in 1..n : Pointer(at(j), list[at(j)]) \in Records
  BY <1>11 DEF Records
<1>13. /\ PointersTo(list) \in Seq(Records) /\ Len(PointersTo(list)) = n
       /\ <<Count(L)>> \in Seq(Records) /\ Len(<<Count(L)>>) = 1
  <2>1. PointersTo(list) \in Seq(Records) /\ Len(PointersTo(list)) = n
    BY <1>8, <1>9, <1>12
  <2>2. Count(L) \in Records
    BY <1>5 DEF Records
  <2> QED
    BY <2>1, <2>2
<1>14. /\ w \in Seq(Records) /\ Len(w) = n + 1
       /\ \A j \in 1..n : w[j] = PointersTo(list)[j]
       /\ \A j \in 1..1 : w[n + j] = <<Count(L)>>[j]
  BY <1>10, <1>13, Concats
<1>15. w[n + 1] = Count(L)
  BY <1>14
<1>16. \A j \in 1..n : w[j] = Pointer(at(j), list[at(j)])
  BY <1>9, <1>14
<1>17. \A j \in 1..n : w[j].index = at(j) /\ w[j].device = list[at(j)]
  <2> SUFFICES ASSUME NEW j \in 1..n PROVE w[j].index = at(j) /\ w[j].device = list[at(j)]
    OBVIOUS
  <2>1. w[j] = [index |-> at(j), device |-> list[at(j)]]
    BY <1>16 DEF Pointer
  <2> QED
    BY <2>1
<1>18. Covers(w) = L
  BY <1>14, <1>15 DEF Covers, Count
<1>19. Len(w) - 1 = n
  BY <1>8, <1>14
<1>20. WellPlanned(w)
  <2>1. w[Len(w)] = Count(Covers(w))
    BY <1>14, <1>15, <1>18
  <2>2. \A j \in 1..n : w[j] = Pointer(w[j].index, w[j].device)
    BY <1>16, <1>17
  <2>3. \A j \in 1..n : w[j].index \in 1..L /\ w[j].device \in Pubkey
    BY <1>11, <1>17
  <2>4. \A j, k \in 1..n : w[j].index = w[k].index => j = k
    BY <1>8, <1>17
  <2> QED
    BY <2>1, <2>2, <2>3, <2>4, <1>18, <1>19 DEF WellPlanned
<1>21. \A i : Pending(w, i) <=> i \in stale
  BY <1>8, <1>17, <1>19 DEF Pending
<1>22. \A i \in 1..L : i \notin stale => pointers[i] # None /\ pointers[i].device = list[i]
  BY <1>1, <1>4, <1>5
<1>23. Target(w) = ToSet(ms)
  <2>1. {w[j].device : j \in 1..n} = {list[i] : i \in stale}
    <3>1. \A j \in 1..n : w[j].device = list[at(j)] /\ at(j) \in stale
      BY <1>8, <1>17
    <3>2. \A i \in stale : \E j \in 1..n : w[j].device = list[i]
      BY <1>8, <1>17
    <3> QED
      BY <3>1, <3>2
  <2>2. {k \in 1..L : ~Pending(w, k)} = (1..L) \ stale
    BY <1>21
  <2>3. {pointers[i].device : i \in (1..L) \ stale} = {list[i] : i \in (1..L) \ stale}
    BY <1>22
  <2>4. Target(w) = {list[i] : i \in stale} \cup {list[i] : i \in (1..L) \ stale}
    BY <2>1, <2>2, <2>3, <1>18, <1>19 DEF Target
  <2>5. ToSet(list) = {list[i] : i \in 1..L}
    BY <1>5 DEF ToSet
  <2> QED
    BY <2>4, <2>5, <1>2, <1>6
<1> QED
  BY <1>3, <1>14, <1>18, <1>20, <1>21, <1>22, <1>23 DEF w

\* With nothing to write the registry is the fold.
LEMMA NothingToWrite ==
  ASSUME RegistryTypeOK, RunIsDense, RunGrows, NEW ms, Fold(ms), registry_plan(ms) = <<>>
  PROVE  ToSet(devices) = ToSet(ms)
<1> DEFINE list == Converged(devices, ms)
<1>1. /\ devices \in Seq(Pubkey) /\ DOMAIN devices = 1..Len(devices)
      /\ count # None => Len(devices) = count.n
  BY RunIs
<1>2. list \in Seq(Pubkey) /\ ToSet(list) = ToSet(ms)
  BY <1>1, ConvergedIs
<1>3. Stale(list) = {} /\ CountIs(Len(list))
  <2> SUFFICES ASSUME ~(Stale(list) = {} /\ CountIs(Len(list))) PROVE FALSE
    OBVIOUS
  <2>1. PointersTo(list) \o <<Count(Len(list))>> = <<>>
    BY DEF registry_plan
  <2> HIDE DEF list
  <2>2. Stale(list) \in SUBSET (1..Len(list)) /\ Len(list) \in Nat
    BY <1>2 DEF Stale
  <2>3. IsFiniteSet(1..Len(list))
    BY <2>2, FS_Interval
  <2>4. Cardinality(Stale(list)) \in Nat
    BY <2>2, <2>3, FS_Subset, FS_CardinalityType
  <2> DEFINE E == {PointersTo(list)[j] : j \in 1..Cardinality(Stale(list))} \cup {Count(Len(list))}
  <2>5. PointersTo(list) \in Seq(E)
    BY <2>4 DEF PointersTo
  <2>6. <<Count(Len(list))>> \in Seq(E) /\ Len(<<Count(Len(list))>>) = 1
    OBVIOUS
  <2> HIDE DEF E
  <2>7. Len(PointersTo(list) \o <<Count(Len(list))>>) = Len(PointersTo(list)) + 1 /\ Len(PointersTo(list)) \in Nat
    BY <2>5, <2>6, Concats
  <2> QED
    BY <2>1, <2>7
<1> HIDE DEF list
<1>4. Len(devices) = Len(list)
  BY <1>1, <1>3 DEF CountIs
<1>5. \A i \in DOMAIN list : i \in DOMAIN devices /\ devices[i] = list[i]
  BY <1>3 DEF Stale
<1>6. DOMAIN list = 1..Len(list)
  BY <1>2
<1>7. ToSet(devices) = ToSet(list)
  BY <1>1, <1>4, <1>5, <1>6 DEF ToSet
<1> QED
  BY <1>2, <1>7

-----------------------------------------------------------------------------
(* The invariant at the start, and as the chain moves on. *)

LEMMA RegistryStarts == RegistryInit => RegistryInv
<1> SUFFICES ASSUME RegistryInit PROVE RegistryInv
  OBVIOUS
<1>1. Fold(Founders)
  BY RegistryAssumption DEF Fold
<1>2. MaxPlans \in Nat
  BY RegistryAssumption
<1>3. \A m \in Sibling : Done(m) /\ plan[m] = NoPlan
  BY DEF RegistryInit, Done, NoPlan
<1>4. <<>> \in Seq(Records) /\ <<>> \in Seq(Pubkey)
  OBVIOUS
<1>5. NoPlan \in [writes : Seq(Records), epoch : Nat, goal : Seq(Pubkey)]
  BY <1>4 DEF NoPlan
<1>6. RegistryTypeOK
  <2>1. plan \in [Sibling -> [writes : Seq(Records), epoch : Nat, goal : Seq(Pubkey)]]
    BY <1>5 DEF RegistryInit
  <2>2. pointers \in [Index -> {None} \cup [device : Pubkey, epoch : Nat \ {0}]]
    BY DEF RegistryInit
  <2>3. DOMAIN seen = Sibling /\ \A m \in Sibling : seen[m] = Founders
    BY DEF RegistryInit
  <2>4. \A m \in Sibling : Fold(seen[m])
    BY <1>1, <2>3
  <2> QED
    BY <1>1, <1>2, <2>1, <2>2, <2>3, <2>4 DEF RegistryTypeOK, RegistryInit
<1>7. RunIsDense
  BY DEF RunIsDense, View, RegistryInit
<1> QED
  BY <1>3, <1>6, <1>7 DEF RegistryInv, RunGrows, PlansFill, AloneIsOnCourse, RegistryInit

\* A step that leaves the stored records, the plans and the time alone keeps all
\* but the types of the folds.
LEMMA FoldsMoveAlone ==
  ASSUME RegistryInv, UNCHANGED <<count, pointers, epoch, plan, alone>>,
         Fold(fold'), DOMAIN seen' = Sibling, \A m \in Sibling : Fold(seen'[m])
  PROVE  RegistryInv'
<1>1. RegistryTypeOK'
  BY DEF RegistryInv, RegistryTypeOK, Fold
<1>2. RunIsDense' /\ RunGrows' /\ PlansFill'
  BY DEF RegistryInv, RunIsDense, RunGrows, PlansFill, View, Done, WellPlanned, Covers, Pending
<1>3. AloneIsOnCourse'
  BY DEF RegistryInv, AloneIsOnCourse, devices, View, Done, Target, Covers, Pending
<1> QED
  BY <1>1, <1>2, <1>3 DEF RegistryInv

LEMMA JoinKeeps ==
  ASSUME RegistryInv, NEW d \in Joiner, Join(d)
  PROVE  RegistryInv'
<1>1. fold \in Seq(Pubkey) /\ fold # <<>> /\ IsInjective(fold)
  BY DEF RegistryInv, RegistryTypeOK, Fold
<1>2. d \in Pubkey /\ d \notin ToSet(fold)
  BY RegistryAssumption DEF Join
<1>3. fold' = Append(fold, d)
  BY DEF Join
<1>4. /\ fold' \in Seq(Pubkey) /\ fold' # <<>> /\ DOMAIN fold' = 1..Len(fold) + 1
      /\ fold'[Len(fold) + 1] = d
      /\ \A i \in 1..Len(fold) : fold'[i] = fold[i]
      /\ DOMAIN fold = 1..Len(fold) /\ Len(fold) \in Nat
  BY <1>1, <1>2, <1>3
<1>5. \A i \in 1..Len(fold) : fold[i] # d
  BY <1>2, <1>4 DEF ToSet
<1>6. \A i \in 1..Len(fold) + 1 : i \in 1..Len(fold) \/ i = Len(fold) + 1
  BY <1>4
<1>7. \A a, b \in 1..Len(fold) + 1 : fold'[a] = fold'[b] => a = b
  BY <1>1, <1>4, <1>5, <1>6 DEF IsInjective
<1>8. Fold(fold')
  BY <1>4, <1>7 DEF Fold, IsInjective
<1> QED
  BY <1>8, FoldsMoveAlone DEF Join, RegistryInv, RegistryTypeOK

LEMMA LeaveKeeps ==
  ASSUME RegistryInv, NEW d \in Leaver, Leave(d)
  PROVE  RegistryInv'
<1> DEFINE S == {i \in DOMAIN fold : fold[i] # d}
<1>1. fold \in Seq(Pubkey) /\ IsInjective(fold)
  BY DEF RegistryInv, RegistryTypeOK, Fold
<1>2. S # {}
  <2>1. Len(fold) > 1 /\ 1 \in DOMAIN fold /\ 2 \in DOMAIN fold
    BY <1>1 DEF Leave
  <2>2. fold[1] # fold[2]
    BY <1>1, <2>1 DEF IsInjective
  <2> QED
    BY <2>1, <2>2
<1>3. S \in SUBSET (DOMAIN fold)
  OBVIOUS
<1>4. fold' = Entries(fold, S)
  BY DEF Leave
<1> HIDE DEF S
<1>5. /\ fold' \in Seq(Pubkey) /\ IsInjective(fold')
      /\ Len(fold') # 0
  BY <1>1, <1>2, <1>3, <1>4, EntriesOf
<1>6. Fold(fold')
  BY <1>5 DEF Fold
<1> QED
  BY <1>6, FoldsMoveAlone DEF Leave, RegistryInv, RegistryTypeOK

LEMMA LearnKeeps ==
  ASSUME RegistryInv, NEW m \in Sibling, Learn(m)
  PROVE  RegistryInv'
<1>1. DOMAIN seen = Sibling /\ \A k \in Sibling : Fold(seen[k])
  BY DEF RegistryInv, RegistryTypeOK
<1>2. Fold(fold)
  BY DEF RegistryInv, RegistryTypeOK
<1>3. seen' = [seen EXCEPT ![m] = fold] /\ fold' = fold
  BY DEF Learn
<1>4. DOMAIN seen' = Sibling /\ \A k \in Sibling : Fold(seen'[k])
  BY <1>1, <1>2, <1>3
<1> QED
  BY <1>2, <1>3, <1>4, FoldsMoveAlone DEF Learn

\* A plan is given up.
LEMMA StopKeeps ==
  ASSUME RegistryInv, NEW m \in Sibling, Stop(m)
  PROVE  RegistryInv'
<1>1. /\ plan' = [plan EXCEPT ![m] = NoPlan] /\ alone' = alone \ {m}
      /\ UNCHANGED <<fold, seen, count, pointers, epoch>>
  BY DEF Stop
<1>2. NoPlan \in [writes : Seq(Records), epoch : Nat, goal : Seq(Pubkey)] /\ NoPlan.writes = <<>>
  <2>1. <<>> \in Seq(Records) /\ <<>> \in Seq(Pubkey)
    OBVIOUS
  <2> QED
    BY <2>1 DEF NoPlan
<1>3. plan \in [Sibling -> [writes : Seq(Records), epoch : Nat, goal : Seq(Pubkey)]]
  BY DEF RegistryInv, RegistryTypeOK
<1>4. /\ plan' \in [Sibling -> [writes : Seq(Records), epoch : Nat, goal : Seq(Pubkey)]]
      /\ plan'[m].writes = <<>>
      /\ \A k \in Sibling \ {m} : plan'[k] = plan[k]
  BY <1>1, <1>2, <1>3
<1>5. RegistryTypeOK'
  BY <1>1, <1>4 DEF RegistryInv, RegistryTypeOK, Fold
<1>6. \A k \in Sibling : ~Done(k)' => k # m /\ ~Done(k) /\ plan'[k] = plan[k]
  BY <1>4 DEF Done
<1>7. RunIsDense' /\ RunGrows' /\ PlansFill'
  <2>1. RunIsDense'
    BY <1>1 DEF RegistryInv, RunIsDense, View
  <2>2. ASSUME NEW k \in Sibling, ~Done(k)'
        PROVE  /\ plan'[k].epoch # 0 /\ WellPlanned(plan[k].writes)'
               /\ Covers(plan[k].writes)' \in 1..epoch' * Cardinality(Pubkey)
               /\ \A i \in 1..Covers(plan[k].writes)' : pointers'[i] # None \/ Pending(plan[k].writes, i)'
    <3>1. /\ plan[k].epoch # 0 /\ WellPlanned(plan[k].writes)
          /\ Covers(plan[k].writes) \in 1..epoch * Cardinality(Pubkey)
          /\ \A i \in 1..Covers(plan[k].writes) : pointers[i] # None \/ Pending(plan[k].writes, i)
      BY <2>2, <1>6 DEF RegistryInv, RunGrows, PlansFill
    <3>2. plan'[k] = plan[k]
      BY <2>2, <1>6
    <3>3. WellPlanned(plan[k].writes)' /\ Covers(plan[k].writes)' = Covers(plan[k].writes)
      BY <3>1, <3>2 DEF WellPlanned, Covers
    <3>4. \A i : Pending(plan[k].writes, i)' <=> Pending(plan[k].writes, i)
      BY <3>2 DEF Pending
    <3> QED
      BY <3>1, <3>2, <3>3, <3>4, <1>1
  <2>3. count' # None => count'.n \in 1..epoch' * Cardinality(Pubkey)
    BY <1>1 DEF RegistryInv, RunGrows
  <2> QED
    BY <2>1, <2>2, <2>3 DEF RunGrows, PlansFill
<1>8. AloneIsOnCourse'
  <2> SUFFICES ASSUME NEW k \in alone'
               PROVE  IF Done(k)' THEN ToSet(devices)' = ToSet(plan[k].goal)'
                      ELSE Target(plan[k].writes)' = ToSet(plan[k].goal)'
    BY DEF AloneIsOnCourse
  <2>1. k \in alone /\ plan'[k] = plan[k] /\ Done(k)' = Done(k)
    BY <1>1, <1>4 DEF RegistryInv, RegistryTypeOK, Done
  <2>2. ToSet(devices)' = ToSet(devices) /\ ToSet(plan[k].goal)' = ToSet(plan[k].goal)
    BY <1>1, <2>1 DEF ToSet, devices, View
  <2>3. Target(plan[k].writes)' = Target(plan[k].writes)
    BY <1>1, <2>1 DEF Target, Covers, Pending
  <2> QED
    BY <2>1, <2>2, <2>3 DEF RegistryInv, AloneIsOnCourse
<1> QED
  BY <1>5, <1>7, <1>8 DEF RegistryInv

-----------------------------------------------------------------------------
(* Plans are made. *)

LEMMA PlanKeeps ==
  ASSUME RegistryInv, NEW m \in Sibling, Plan(m)
  PROVE  RegistryInv'
<1> PICK ms : ms = seen[m]
  OBVIOUS
<1> PICK w : w = registry_plan(ms)
  OBVIOUS
<1>1. /\ epoch' = epoch + 1 /\ epoch < MaxPlans /\ alone' = alone \cup {m}
      /\ plan' = [plan EXCEPT ![m] = [writes |-> w, epoch |-> epoch + 1, goal |-> ms]]
      /\ UNCHANGED <<fold, seen, count, pointers>>
      /\ w # <<>>
  BY DEF Plan
<1>2. RegistryTypeOK /\ RunIsDense /\ RunGrows /\ PlansFill /\ AloneIsOnCourse
  BY DEF RegistryInv
<1>3. Fold(ms) /\ ms \in Seq(Pubkey)
  BY <1>2 DEF RegistryTypeOK, Fold
<1>4. /\ w \in Seq(Records) /\ WellPlanned(w)
      /\ Covers(w) \in 1..(epoch + 1) * Cardinality(Pubkey)
      /\ \A i \in 1..Covers(w) : pointers[i] # None \/ Pending(w, i)
      /\ Target(w) = ToSet(ms)
  BY <1>1, <1>2, <1>3, PlanIs
<1>5. epoch \in Nat /\ MaxPlans \in Nat /\ epoch' \in 0..MaxPlans /\ epoch' \in Nat
  BY <1>1, <1>2, RegistryAssumption DEF RegistryTypeOK
<1>6. /\ plan' \in [Sibling -> [writes : Seq(Records), epoch : Nat, goal : Seq(Pubkey)]]
      /\ plan'[m].writes = w /\ plan'[m].epoch = epoch + 1 /\ plan'[m].goal = ms
      /\ \A k \in Sibling \ {m} : plan'[k] = plan[k]
  <2>1. [writes |-> w, epoch |-> epoch + 1, goal |-> ms] \in [writes : Seq(Records), epoch : Nat, goal : Seq(Pubkey)]
    BY <1>3, <1>4, <1>5
  <2>2. plan \in [Sibling -> [writes : Seq(Records), epoch : Nat, goal : Seq(Pubkey)]]
    BY <1>2 DEF RegistryTypeOK
  <2> QED
    BY <1>1, <2>1, <2>2
<1>7. RegistryTypeOK'
  BY <1>1, <1>2, <1>5, <1>6 DEF RegistryTypeOK, Fold
<1>8. RunIsDense'
  BY <1>1, <1>2 DEF RunIsDense, View
<1>9. ~Done(m)' /\ \A k \in Sibling \ {m} : Done(k)' = Done(k)
  BY <1>1, <1>6 DEF Done
<1>10. \A n \in 1..epoch * Cardinality(Pubkey) : n \in 1..epoch' * Cardinality(Pubkey)
  <2>1. /\ epoch * Cardinality(Pubkey) \in Nat /\ epoch' * Cardinality(Pubkey) \in Nat
        /\ epoch * Cardinality(Pubkey) <= epoch' * Cardinality(Pubkey)
    BY <1>1, <1>5, Bounds
  <2> QED
    BY <2>1
<1>11. RunGrows'
  <2>1. count' # None => count'.n \in 1..epoch' * Cardinality(Pubkey)
    BY <1>1, <1>2, <1>10 DEF RunGrows
  <2>2. /\ plan'[m].epoch # 0 /\ WellPlanned(plan[m].writes)'
        /\ Covers(plan[m].writes)' \in 1..epoch' * Cardinality(Pubkey)
    <3>1. WellPlanned(plan[m].writes)' /\ Covers(plan[m].writes)' = Covers(w)
      BY <1>4, <1>6 DEF WellPlanned, Covers
    <3>2. plan'[m].epoch # 0
      BY <1>5, <1>6
    <3> QED
      BY <3>1, <3>2, <1>1, <1>4
  <2>3. ASSUME NEW k \in Sibling \ {m}, ~Done(k)'
        PROVE  /\ plan'[k].epoch # 0 /\ WellPlanned(plan[k].writes)'
               /\ Covers(plan[k].writes)' \in 1..epoch' * Cardinality(Pubkey)
    <3>1. /\ plan[k].epoch # 0 /\ WellPlanned(plan[k].writes)
          /\ Covers(plan[k].writes) \in 1..epoch * Cardinality(Pubkey)
      BY <2>3, <1>2, <1>9 DEF RunGrows
    <3>2. WellPlanned(plan[k].writes)' /\ Covers(plan[k].writes)' = Covers(plan[k].writes)
      BY <3>1, <1>6 DEF WellPlanned, Covers
    <3> QED
      BY <3>1, <3>2, <1>6, <1>10
  <2> QED
    BY <2>1, <2>2, <2>3 DEF RunGrows
<1>12. PlansFill'
  <2>1. \A i \in 1..Covers(plan[m].writes)' : pointers'[i] # None \/ Pending(plan[m].writes, i)'
    BY <1>1, <1>4, <1>6 DEF Covers, Pending
  <2>2. ASSUME NEW k \in Sibling \ {m}, ~Done(k)'
        PROVE  \A i \in 1..Covers(plan[k].writes)' : pointers'[i] # None \/ Pending(plan[k].writes, i)'
    <3>1. \A i \in 1..Covers(plan[k].writes) : pointers[i] # None \/ Pending(plan[k].writes, i)
      BY <2>2, <1>2, <1>9 DEF PlansFill
    <3> QED
      BY <3>1, <1>1, <1>6 DEF Covers, Pending
  <2> QED
    BY <2>1, <2>2 DEF PlansFill
<1>13. AloneIsOnCourse'
  <2> SUFFICES ASSUME NEW k \in alone'
               PROVE  IF Done(k)' THEN ToSet(devices)' = ToSet(plan[k].goal)'
                      ELSE Target(plan[k].writes)' = ToSet(plan[k].goal)'
    BY DEF AloneIsOnCourse
  <2>1. ASSUME k = m
        PROVE  ~Done(k)' /\ Target(plan[k].writes)' = ToSet(plan[k].goal)'
    <3>1. Target(plan[m].writes)' = Target(w)
      BY <1>1, <1>6 DEF Target, Covers, Pending
    <3>2. ToSet(plan[m].goal)' = ToSet(ms)
      BY <1>6 DEF ToSet
    <3> QED
      BY <2>1, <3>1, <3>2, <1>4, <1>9
  <2>2. ASSUME k # m
        PROVE  IF Done(k)' THEN ToSet(devices)' = ToSet(plan[k].goal)'
               ELSE Target(plan[k].writes)' = ToSet(plan[k].goal)'
    <3>1. k \in alone /\ k \in Sibling \ {m}
      BY <2>2, <1>1, <1>2 DEF RegistryTypeOK
    <3>2. plan'[k] = plan[k] /\ Done(k)' = Done(k)
      BY <3>1, <1>6, <1>9
    <3>3. ToSet(devices)' = ToSet(devices) /\ ToSet(plan[k].goal)' = ToSet(plan[k].goal)
      BY <1>1, <3>2 DEF ToSet, devices, View
    <3>4. Target(plan[k].writes)' = Target(plan[k].writes)
      BY <1>1, <3>2 DEF Target, Covers, Pending
    <3> QED
      BY <3>1, <3>2, <3>3, <3>4, <1>2 DEF AloneIsOnCourse
  <2> QED
    BY <2>1, <2>2
<1> QED
  BY <1>7, <1>8, <1>11, <1>12, <1>13 DEF RegistryInv

-----------------------------------------------------------------------------
(* Records are written. *)

\* After its first write a plan is what was left of it, until only the count is.
LEMMA TailIs ==
  ASSUME NEW w \in Seq(Records), w # <<>>, WellPlanned(w)
  PROVE  /\ Tail(w) \in Seq(Records) /\ Head(w) = w[1]
         /\ Len(w) = 1 => /\ Tail(w) = <<>>
                          /\ w[1] = Count(Covers(w))
                          /\ \A i : ~Pending(w, i)
                          /\ Target(w) = {pointers[i].device : i \in 1..Covers(w)}
         /\ Len(w) # 1 =>
              /\ Tail(w) # <<>> /\ WellPlanned(Tail(w)) /\ Covers(Tail(w)) = Covers(w)
              /\ w[1] = Pointer(w[1].index, w[1].device)
              /\ w[1].index \in 1..Covers(w) /\ w[1].device \in Pubkey
              /\ ~Pending(Tail(w), w[1].index)
              /\ \A i : Pending(w, i) <=> Pending(Tail(w), i) \/ i = w[1].index
              /\ {w[j].device : j \in 1..Len(w) - 1}
                   = {w[1].device} \cup {Tail(w)[j].device : j \in 1..Len(Tail(w)) - 1}
<1> DEFINE t == Tail(w)
           n == Len(w)
<1>1. /\ t \in Seq(Records) /\ Head(w) = w[1] /\ Len(t) = n - 1
      /\ n \in Nat /\ n # 0
      /\ \A j \in 1..n - 1 : t[j] = w[j + 1]
  OBVIOUS
<1> HIDE DEF t, n
<1>2. n = 1 => t = <<>>
  BY <1>1
<1>3. w[n] = Count(Covers(w)) /\ Covers(w) = w[n].count
  BY DEF WellPlanned, Covers, n
<1>4. /\ \A j \in 1..n - 1 :
           /\ w[j] = Pointer(w[j].index, w[j].device)
           /\ w[j].index \in 1..Covers(w) /\ w[j].device \in Pubkey
      /\ \A j, k \in 1..n - 1 : w[j].index = w[k].index => j = k
  BY DEF WellPlanned, n
<1>5. \A i : Pending(w, i) <=> \E j \in 1..n - 1 : w[j].index = i
  BY DEF Pending, n
<1>6. ASSUME n = 1
      PROVE  /\ t = <<>> /\ w[1] = Count(Covers(w)) /\ \A i : ~Pending(w, i)
             /\ Target(w) = {pointers[i].device : i \in 1..Covers(w)}
  <2>1. \A i : ~Pending(w, i)
    BY <1>5, <1>6
  <2>2. {w[j].device : j \in 1..n - 1} = {}
    BY <1>6
  <2>3. {k \in 1..Covers(w) : ~Pending(w, k)} = 1..Covers(w)
    BY <2>1
  <2> QED
    BY <1>2, <1>3, <1>6, <2>1, <2>2, <2>3 DEF Target, n
<1>7. ASSUME n # 1
      PROVE  /\ t # <<>> /\ WellPlanned(t) /\ Covers(t) = Covers(w)
             /\ w[1] = Pointer(w[1].index, w[1].device)
             /\ w[1].index \in 1..Covers(w) /\ w[1].device \in Pubkey
             /\ ~Pending(t, w[1].index)
             /\ \A i : Pending(w, i) <=> Pending(t, i) \/ i = w[1].index
             /\ {w[j].device : j \in 1..n - 1}
                  = {w[1].device} \cup {t[j].device : j \in 1..Len(t) - 1}
  <2>1. /\ Len(t) \in Nat /\ Len(t) # 0 /\ 1 \in 1..n - 1 /\ Len(t) \in 1..n - 1
        /\ Len(t) + 1 = n
    BY <1>1, <1>7
  <2>2. t[Len(t)] = w[n]
    BY <1>1, <2>1
  <2>3. Covers(t) = Covers(w)
    BY <1>3, <2>2 DEF Covers
  <2>4. \A j \in 1..Len(t) - 1 : j + 1 \in 1..n - 1 /\ t[j] = w[j + 1]
    BY <1>1, <2>1
  <2>5. \A j \in 1..n - 1 : j = 1 \/ (j - 1 \in 1..Len(t) - 1 /\ t[j - 1] = w[j])
    <3> SUFFICES ASSUME NEW j \in 1..n - 1, j # 1
                 PROVE  j - 1 \in 1..Len(t) - 1 /\ t[j - 1] = w[j]
      OBVIOUS
    <3>1. j - 1 \in 1..Len(t) - 1 /\ (j - 1) + 1 = j
      BY <1>1, <2>1
    <3> QED
      BY <3>1, <2>4
  <2>6. WellPlanned(t)
    <3>1. \A j \in 1..Len(t) - 1 :
             /\ t[j] = Pointer(t[j].index, t[j].device)
             /\ t[j].index \in 1..Covers(t) /\ t[j].device \in Pubkey
      BY <1>4, <2>3, <2>4
    <3>2. \A j, k \in 1..Len(t) - 1 : t[j].index = t[k].index => j = k
      <4> SUFFICES ASSUME NEW j \in 1..Len(t) - 1, NEW k \in 1..Len(t) - 1, t[j].index = t[k].index
                   PROVE  j = k
        OBVIOUS
      <4>1. j + 1 = k + 1
        BY <1>4, <2>4
      <4> QED
        BY <4>1
    <3> QED
      BY <3>1, <3>2, <1>3, <2>2, <2>3 DEF WellPlanned
  <2>7. \A i : Pending(t, i) <=> \E j \in 1..Len(t) - 1 : t[j].index = i
    BY DEF Pending
  <2>8. ~Pending(t, w[1].index)
    <3> SUFFICES ASSUME NEW j \in 1..Len(t) - 1, t[j].index = w[1].index PROVE FALSE
      BY <2>7
    <3>1. j + 1 = 1
      BY <1>4, <2>1, <2>4
    <3> QED
      BY <3>1
  <2>9. \A i : Pending(w, i) <=> Pending(t, i) \/ i = w[1].index
    BY <1>5, <2>1, <2>4, <2>5, <2>7
  <2>10. {w[j].device : j \in 1..n - 1} = {w[1].device} \cup {t[j].device : j \in 1..Len(t) - 1}
    <3>1. \A j \in 1..n - 1 : w[j].device \in {w[1].device} \cup {t[k].device : k \in 1..Len(t) - 1}
      BY <2>5
    <3>2. \A k \in 1..Len(t) - 1 : t[k].device \in {w[j].device : j \in 1..n - 1}
      BY <2>4
    <3> QED
      BY <2>1, <3>1, <3>2
  <2>11. t # <<>>
    BY <2>1
  <2> QED
    BY <1>4, <2>1, <2>3, <2>6, <2>8, <2>9, <2>10, <2>11
<1> QED
  BY <1>1, <1>6, <1>7 DEF t, n

\* What a write does: it puts a pointer, or the count, or storage keeps what it
\* has because that is at least as new.
Puts(i, d, e) ==
  /\ pointers' = [pointers EXCEPT ![i] = [device |-> d, epoch |-> e]]
  /\ UNCHANGED count
Recounts(n, e) == count' = [n |-> n, epoch |-> e] /\ UNCHANGED pointers
Keeps == UNCHANGED <<count, pointers>>

LEMMA WriteIs ==
  ASSUME RegistryInv, NEW m \in Sibling, Write(m),
         NEW w, w = plan[m].writes, NEW e, e = plan[m].epoch
  PROVE  /\ w \in Seq(Records) /\ w # <<>> /\ WellPlanned(w)
         /\ Covers(w) \in 1..epoch * Cardinality(Pubkey)
         /\ e \in Nat \ {0}
         /\ plan' \in [Sibling -> [writes : Seq(Records), epoch : Nat, goal : Seq(Pubkey)]]
         /\ plan'[m].writes = Tail(w) /\ plan'[m].epoch = e /\ plan'[m].goal = plan[m].goal
         /\ \A k \in Sibling \ {m} : plan'[k] = plan[k]
         /\ UNCHANGED <<fold, seen, epoch>>
         /\ IF Len(w) = 1
            THEN \/ Recounts(Covers(w), e) /\ alone' = alone \cap {m}
                 \/ Keeps /\ alone' = alone \ {m}
            ELSE \/ Puts(w[1].index, w[1].device, e) /\ alone' = alone \cap {m}
                 \/ Keeps /\ alone' = alone \ {m} /\ pointers[w[1].index] # None
<1>1. plan \in [Sibling -> [writes : Seq(Records), epoch : Nat, goal : Seq(Pubkey)]]
  BY DEF RegistryInv, RegistryTypeOK
<1>2. w \in Seq(Records) /\ e \in Nat
  BY <1>1
<1>3. w # <<>> /\ ~Done(m)
  BY DEF Write, Done
<1>4. WellPlanned(w) /\ Covers(w) \in 1..epoch * Cardinality(Pubkey) /\ e # 0
  BY <1>3 DEF RegistryInv, RunGrows
<1>5. /\ Tail(w) \in Seq(Records) /\ Head(w) = w[1]
      /\ Len(w) = 1 => w[1] = Count(Covers(w))
      /\ Len(w) # 1 => w[1] = Pointer(w[1].index, w[1].device)
  BY <1>2, <1>3, <1>4, TailIs
<1>6. plan' = [plan EXCEPT ![m].writes = Tail(w)] /\ UNCHANGED <<fold, seen, epoch>>
  BY DEF Write
<1>7. /\ plan' \in [Sibling -> [writes : Seq(Records), epoch : Nat, goal : Seq(Pubkey)]]
      /\ plan'[m].writes = Tail(w) /\ plan'[m].epoch = e /\ plan'[m].goal = plan[m].goal
      /\ \A k \in Sibling \ {m} : plan'[k] = plan[k]
  BY <1>1, <1>5, <1>6
<1> DEFINE h == Head(w)
           stored == IF "count" \in DOMAIN h THEN count.epoch ELSE pointers[h.index].epoch
<1>8. \/ /\ Newer(e, stored)
         /\ IF "count" \in DOMAIN h THEN Recounts(h.count, e) ELSE Puts(h.index, h.device, e)
         /\ alone' = alone \cap {m}
      \/ ~Newer(e, stored) /\ Keeps /\ alone' = alone \ {m}
  BY DEF Write, Recounts, Puts, Keeps
<1>9. ASSUME Len(w) = 1
      PROVE  \/ Recounts(Covers(w), e) /\ alone' = alone \cap {m}
             \/ Keeps /\ alone' = alone \ {m}
  <2>1. "count" \in DOMAIN h /\ h.count = Covers(w)
    BY <1>5, <1>9 DEF Count
  <2> HIDE DEF h, stored
  <2> QED
    BY <2>1, <1>8
<1>10. ASSUME Len(w) # 1
       PROVE  \/ Puts(w[1].index, w[1].device, e) /\ alone' = alone \cap {m}
              \/ Keeps /\ alone' = alone \ {m} /\ pointers[w[1].index] # None
  <2>1. "count" \notin DOMAIN h /\ h = w[1]
    <3>1. w[1] = [index |-> w[1].index, device |-> w[1].device]
      BY <1>5, <1>10 DEF Pointer
    <3>2. DOMAIN w[1] = {"index", "device"}
      BY <3>1
    <3> QED
      BY <3>2, <1>5
  <2>2. stored = pointers[w[1].index].epoch
    BY <2>1
  <2>3. pointers[w[1].index] = None => stored = 0
    BY <2>2 DEF None
  <2>4. stored = 0 => Newer(e, stored)
    BY <1>2, <1>4 DEF Newer
  <2> HIDE DEF h, stored
  <2> QED
    BY <2>1, <2>3, <2>4, <1>8
<1> QED
  BY <1>2, <1>3, <1>4, <1>6, <1>7, <1>9, <1>10

LEMMA WriteKeeps ==
  ASSUME RegistryInv, NEW m \in Sibling, Write(m)
  PROVE  RegistryInv'
<1> PICK w : w = plan[m].writes
  OBVIOUS
<1> PICK e : e = plan[m].epoch
  OBVIOUS
<1> DEFINE t == Tail(w)
           i0 == w[1].index
<1>1. RegistryTypeOK /\ RunIsDense /\ RunGrows /\ PlansFill /\ AloneIsOnCourse
  BY DEF RegistryInv
<1>2. /\ w \in Seq(Records) /\ w # <<>> /\ WellPlanned(w)
      /\ Covers(w) \in 1..epoch * Cardinality(Pubkey)
      /\ e \in Nat \ {0}
      /\ plan' \in [Sibling -> [writes : Seq(Records), epoch : Nat, goal : Seq(Pubkey)]]
      /\ plan'[m].writes = t /\ plan'[m].epoch = e /\ plan'[m].goal = plan[m].goal
      /\ \A k \in Sibling \ {m} : plan'[k] = plan[k]
      /\ UNCHANGED <<fold, seen, epoch>>
      /\ IF Len(w) = 1
         THEN \/ Recounts(Covers(w), e) /\ alone' = alone \cap {m}
              \/ Keeps /\ alone' = alone \ {m}
         ELSE \/ Puts(i0, w[1].device, e) /\ alone' = alone \cap {m}
              \/ Keeps /\ alone' = alone \ {m} /\ pointers[i0] # None
  BY WriteIs
<1>3. /\ t \in Seq(Records) /\ Head(w) = w[1]
      /\ Len(w) = 1 => /\ t = <<>>
                       /\ w[1] = Count(Covers(w))
                       /\ \A i : ~Pending(w, i)
                       /\ Target(w) = {pointers[i].device : i \in 1..Covers(w)}
      /\ Len(w) # 1 =>
           /\ t # <<>> /\ WellPlanned(t) /\ Covers(t) = Covers(w)
           /\ w[1] = Pointer(i0, w[1].device)
           /\ i0 \in 1..Covers(w) /\ w[1].device \in Pubkey
           /\ ~Pending(t, i0)
           /\ \A i : Pending(w, i) <=> Pending(t, i) \/ i = i0
           /\ {w[j].device : j \in 1..Len(w) - 1}
                = {w[1].device} \cup {t[j].device : j \in 1..Len(t) - 1}
  BY <1>2, TailIs
<1> HIDE DEF t, i0
<1>4. \A i \in 1..Covers(w) : i \in Index
  <2>1. epoch \in Nat /\ MaxPlans \in Nat /\ epoch <= MaxPlans
    BY <1>1, RegistryAssumption DEF RegistryTypeOK
  <2>2. /\ epoch * Cardinality(Pubkey) \in Nat /\ MaxPlans * Cardinality(Pubkey) \in Nat
        /\ epoch * Cardinality(Pubkey) <= MaxPlans * Cardinality(Pubkey)
    BY <2>1, Bounds
  <2>3. Covers(w) \in Nat /\ Covers(w) <= epoch * Cardinality(Pubkey)
    BY <1>2, <2>2
  <2>4. \A i \in 1..Covers(w) : i \in 1..MaxPlans * Cardinality(Pubkey)
    BY <2>2, <2>3
  <2> QED
    BY <2>4 DEF Index
<1>5. /\ pointers \in [Index -> {None} \cup [device : Pubkey, epoch : Nat \ {0}]]
      /\ count \in {None} \cup [n : Nat, epoch : Nat \ {0}]
  BY <1>1 DEF RegistryTypeOK
<1>6. ASSUME Len(w) # 1, Puts(i0, w[1].device, e)
      PROVE  /\ pointers' \in [Index -> {None} \cup [device : Pubkey, epoch : Nat \ {0}]]
             /\ pointers'[i0].device = w[1].device /\ pointers'[i0] # None
             /\ \A i \in Index \ {i0} : pointers'[i] = pointers[i]
             /\ count' = count
  <2>1. i0 \in Index /\ w[1].device \in Pubkey
    BY <1>3, <1>4, <1>6
  <2> DEFINE r == [device |-> w[1].device, epoch |-> e]
  <2>2. r \in [device : Pubkey, epoch : Nat \ {0}] /\ r.device = w[1].device /\ r.epoch # 0
    BY <2>1, <1>2
  <2>3. r # None
    BY <2>2 DEF None
  <2>4. pointers' = [pointers EXCEPT ![i0] = r] /\ count' = count
    BY <1>6 DEF Puts
  <2> HIDE DEF r
  <2> QED
    BY <2>1, <2>2, <2>3, <2>4, <1>5
<1>7. /\ pointers' \in [Index -> {None} \cup [device : Pubkey, epoch : Nat \ {0}]]
      /\ \A i \in Index : pointers[i] # None => pointers'[i] # None
      /\ Len(w) # 1 => pointers'[i0] # None
  <2>1. ASSUME Len(w) # 1, Puts(i0, w[1].device, e)
        PROVE  \A i \in Index : pointers[i] # None => pointers'[i] # None
    BY <2>1, <1>6
  <2>2. ASSUME pointers' = pointers
        PROVE  /\ pointers' \in [Index -> {None} \cup [device : Pubkey, epoch : Nat \ {0}]]
               /\ \A i \in Index : pointers[i] # None => pointers'[i] # None
    BY <2>2, <1>5
  <2> QED
    BY <2>1, <2>2, <1>2, <1>6, Zenon DEF Recounts, Keeps
<1>8. count' = count \/ (Len(w) = 1 /\ Recounts(Covers(w), e))
  BY <1>2 DEF Keeps, Puts
<1>9. RegistryTypeOK'
  <2>1. count' \in {None} \cup [n : Nat, epoch : Nat \ {0}]
    <3>1. Covers(w) \in Nat
      BY <1>2
    <3> QED
      BY <3>1, <1>2, <1>5, <1>8 DEF Recounts
  <2>2. alone' \subseteq Sibling
    BY <1>1, <1>2 DEF RegistryTypeOK
  <2>3. Fold(fold') /\ DOMAIN seen' = Sibling /\ (\A k \in Sibling : Fold(seen'[k])) /\ epoch' \in 0..MaxPlans
    BY <1>1, <1>2 DEF RegistryTypeOK
  <2> QED
    BY <1>2, <1>7, <2>1, <2>2, <2>3 DEF RegistryTypeOK, Fold
<1>10. RunIsDense'
  <2>1. ASSUME count' = count
        PROVE  RunIsDense'
    <3>1. (count # None => count.n \in Index) /\ \A i \in DOMAIN View : View[i] # None
      BY <1>1 DEF RunIsDense
    <3>2. \A i \in 1..(IF count = None THEN 0 ELSE count.n) : i \in Index /\ pointers[i] # None
      BY <1>1, RunIs
    <3> QED
      BY <2>1, <3>1, <3>2, <1>7 DEF RunIsDense, View
  <2>2. ASSUME Len(w) = 1, Recounts(Covers(w), e)
        PROVE  RunIsDense'
    <3>1. \A i \in 1..Covers(w) : pointers[i] # None
      <4>1. ~Done(m)
        BY <1>2 DEF Done
      <4> QED
        BY <4>1, <2>2, <1>1, <1>3 DEF PlansFill
    <3>2. Covers(w) \in Index
      BY <1>2, <1>4
    <3>3. count' = [n |-> Covers(w), epoch |-> e] /\ count'.n = Covers(w) /\ pointers' = pointers
      BY <2>2 DEF Recounts
    <3>4. count' # None
      BY <3>3, <1>2 DEF None
    <3>5. View' = [i \in 1..Covers(w) |-> pointers[i]]
      BY <3>3, <3>4 DEF View
    <3> QED
      BY <3>1, <3>2, <3>3, <3>5 DEF RunIsDense
  <2> QED
    BY <2>1, <2>2, <1>8
<1>11. RunGrows'
  <2>1. count' # None => count'.n \in 1..epoch' * Cardinality(Pubkey)
    <3>1. CASE count' = count
      BY <3>1, <1>1, <1>2 DEF RunGrows
    <3>2. CASE Recounts(Covers(w), e)
      BY <3>2, <1>2 DEF Recounts
    <3> QED
      BY <3>1, <3>2, <1>8
  <2>2. ASSUME ~Done(m)'
        PROVE  /\ plan'[m].epoch # 0 /\ WellPlanned(plan[m].writes)'
               /\ Covers(plan[m].writes)' \in 1..epoch' * Cardinality(Pubkey)
    <3>1. Len(w) # 1
      BY <2>2, <1>2, <1>3 DEF Done
    <3>2. WellPlanned(t) /\ Covers(t) = Covers(w)
      BY <3>1, <1>3
    <3>3. WellPlanned(plan[m].writes)' /\ Covers(plan[m].writes)' = Covers(w)
      BY <3>2, <1>2 DEF WellPlanned, Covers
    <3> QED
      BY <3>3, <1>2
  <2>3. ASSUME NEW k \in Sibling \ {m}, ~Done(k)'
        PROVE  /\ plan'[k].epoch # 0 /\ WellPlanned(plan[k].writes)'
               /\ Covers(plan[k].writes)' \in 1..epoch' * Cardinality(Pubkey)
    <3>1. ~Done(k)
      BY <2>3, <1>2 DEF Done
    <3>2. /\ plan[k].epoch # 0 /\ WellPlanned(plan[k].writes)
          /\ Covers(plan[k].writes) \in 1..epoch * Cardinality(Pubkey)
      BY <3>1, <1>1 DEF RunGrows
    <3>3. WellPlanned(plan[k].writes)' /\ Covers(plan[k].writes)' = Covers(plan[k].writes)
      BY <3>2, <1>2 DEF WellPlanned, Covers
    <3> QED
      BY <3>2, <3>3, <1>2
  <2> QED
    BY <2>1, <2>2, <2>3 DEF RunGrows
<1>12. PlansFill'
  <2>1. ASSUME ~Done(m)'
        PROVE  \A i \in 1..Covers(plan[m].writes)' : pointers'[i] # None \/ Pending(plan[m].writes, i)'
    <3>1. Len(w) # 1
      BY <2>1, <1>2, <1>3 DEF Done
    <3>2. ~Done(m)
      BY <1>2 DEF Done
    <3>3. \A i \in 1..Covers(w) : pointers[i] # None \/ Pending(w, i)
      BY <3>2, <1>1 DEF PlansFill
    <3>4. \A i \in 1..Covers(w) : pointers'[i] # None \/ Pending(t, i)
      BY <3>1, <3>3, <1>3, <1>4, <1>7
    <3>5. Covers(plan[m].writes)' = Covers(w) /\ \A i : Pending(plan[m].writes, i)' <=> Pending(t, i)
      BY <3>1, <1>2, <1>3 DEF Covers, Pending
    <3> QED
      BY <3>4, <3>5
  <2>2. ASSUME NEW k \in Sibling \ {m}, ~Done(k)'
        PROVE  \A i \in 1..Covers(plan[k].writes)' : pointers'[i] # None \/ Pending(plan[k].writes, i)'
    <3>1. ~Done(k) /\ plan'[k] = plan[k]
      BY <2>2, <1>2 DEF Done
    <3>2. \A i \in 1..Covers(plan[k].writes) : pointers[i] # None \/ Pending(plan[k].writes, i)
      BY <3>1, <1>1 DEF PlansFill
    <3>3. \A i \in 1..Covers(plan[k].writes) : i \in Index
      <4>1. Covers(plan[k].writes) \in 1..epoch * Cardinality(Pubkey)
        BY <3>1, <1>1 DEF RunGrows
      <4>2. epoch \in Nat /\ MaxPlans \in Nat /\ epoch <= MaxPlans
        BY <1>1, RegistryAssumption DEF RegistryTypeOK
      <4>3. /\ epoch * Cardinality(Pubkey) \in Nat /\ MaxPlans * Cardinality(Pubkey) \in Nat
            /\ epoch * Cardinality(Pubkey) <= MaxPlans * Cardinality(Pubkey)
        BY <4>2, Bounds
      <4>4. Covers(plan[k].writes) \in Nat /\ Covers(plan[k].writes) <= epoch * Cardinality(Pubkey)
        BY <4>1, <4>3
      <4>5. \A i \in 1..Covers(plan[k].writes) : i \in 1..MaxPlans * Cardinality(Pubkey)
        BY <4>3, <4>4
      <4> QED
        BY <4>5 DEF Index
    <3>4. /\ Covers(plan[k].writes)' = Covers(plan[k].writes)
          /\ \A i : Pending(plan[k].writes, i)' <=> Pending(plan[k].writes, i)
      BY <3>1 DEF Covers, Pending
    <3> QED
      BY <3>2, <3>3, <3>4, <1>7
  <2> QED
    BY <2>1, <2>2 DEF PlansFill
<1>13. AloneIsOnCourse'
  <2> SUFFICES ASSUME NEW k \in alone'
               PROVE  IF Done(k)' THEN ToSet(devices)' = ToSet(plan[k].goal)'
                      ELSE Target(plan[k].writes)' = ToSet(plan[k].goal)'
    BY DEF AloneIsOnCourse
  <2>1. k \in alone /\ k \in Sibling
    BY <1>1, <1>2 DEF RegistryTypeOK
  <2>2. ToSet(plan[k].goal)' = ToSet(plan[k].goal)
    BY <1>2, <2>1 DEF ToSet
  <2>3. ASSUME k # m
        PROVE  IF Done(k)' THEN ToSet(devices)' = ToSet(plan[k].goal)'
               ELSE Target(plan[k].writes)' = ToSet(plan[k].goal)'
    <3>1. Keeps
      BY <1>2, <2>3
    <3>2. plan'[k] = plan[k] /\ Done(k)' = Done(k)
      BY <1>2, <2>1, <2>3 DEF Done
    <3>3. ToSet(devices)' = ToSet(devices)
      BY <3>1 DEF Keeps, ToSet, devices, View
    <3>4. Target(plan[k].writes)' = Target(plan[k].writes)
      BY <3>1, <3>2 DEF Keeps, Target, Covers, Pending
    <3> QED
      BY <2>1, <2>2, <3>2, <3>3, <3>4, <1>1 DEF AloneIsOnCourse
  <2>4. ASSUME k = m
        PROVE  IF Done(k)' THEN ToSet(devices)' = ToSet(plan[k].goal)'
               ELSE Target(plan[k].writes)' = ToSet(plan[k].goal)'
    <3>1. Target(w) = ToSet(plan[m].goal)
      <4>1. ~Done(m)
        BY <1>2 DEF Done
      <4> QED
        BY <4>1, <2>1, <2>4, <1>1 DEF AloneIsOnCourse
    <3>2. m \in alone'
      BY <2>4
    <3>3. ASSUME Len(w) = 1
          PROVE  Done(m)' /\ ToSet(devices)' = Target(w)
      <4>1. Recounts(Covers(w), e)
        BY <3>2, <3>3, <1>2
      <4>2. count' = [n |-> Covers(w), epoch |-> e] /\ count'.n = Covers(w) /\ pointers' = pointers
        BY <4>1 DEF Recounts
      <4>3. count' # None
        BY <4>2, <1>2 DEF None
      <4>4. View' = [i \in 1..Covers(w) |-> pointers[i]]
        BY <4>2, <4>3 DEF View
      <4>5. devices' = [i \in 1..Covers(w) |-> pointers[i].device]
        BY <4>4 DEF devices
      <4>6. ToSet(devices)' = {pointers[i].device : i \in 1..Covers(w)}
        BY <4>5 DEF ToSet
      <4> QED
        BY <4>6, <3>3, <1>2, <1>3 DEF Done
    <3>4. ASSUME Len(w) # 1
          PROVE  ~Done(m)' /\ Target(plan[m].writes)' = Target(w)
      <4>1. Puts(i0, w[1].device, e)
        BY <3>2, <3>4, <1>2
      <4>2. /\ pointers'[i0].device = w[1].device
            /\ \A i \in Index \ {i0} : pointers'[i] = pointers[i]
        BY <4>1, <3>4, <1>6
      <4>3. /\ t # <<>> /\ Covers(t) = Covers(w)
            /\ i0 \in 1..Covers(w) /\ ~Pending(t, i0)
            /\ \A i : Pending(w, i) <=> Pending(t, i) \/ i = i0
            /\ {w[j].device : j \in 1..Len(w) - 1}
                 = {w[1].device} \cup {t[j].device : j \in 1..Len(t) - 1}
        BY <3>4, <1>3
      <4>4. Target(plan[m].writes)' =
              {t[j].device : j \in 1..Len(t) - 1}
                \cup {pointers'[i].device : i \in {q \in 1..Covers(t) : ~Pending(t, q)}}
        BY <1>2 DEF Target, Covers, Pending
      <4>5. {q \in 1..Covers(t) : ~Pending(t, q)} = {q \in 1..Covers(w) : ~Pending(w, q)} \cup {i0}
        BY <4>3
      <4>6. {pointers'[i].device : i \in {q \in 1..Covers(w) : ~Pending(w, q)}}
              = {pointers[i].device : i \in {q \in 1..Covers(w) : ~Pending(w, q)}}
        BY <4>2, <4>3, <1>4
      <4>7. Target(w) = {w[j].device : j \in 1..Len(w) - 1}
                          \cup {pointers[i].device : i \in {q \in 1..Covers(w) : ~Pending(w, q)}}
        BY DEF Target
      <4>8. {pointers'[i].device : i \in {q \in 1..Covers(t) : ~Pending(t, q)}}
              = {pointers[i].device : i \in {q \in 1..Covers(w) : ~Pending(w, q)}} \cup {w[1].device}
        BY <4>2, <4>5, <4>6
      <4>9. Target(plan[m].writes)' = Target(w)
        BY <4>3, <4>4, <4>7, <4>8
      <4> QED
        BY <4>3, <4>9, <1>2 DEF Done
    <3> QED
      BY <2>2, <2>4, <3>1, <3>3, <3>4
  <2> QED
    BY <2>3, <2>4
<1> QED
  BY <1>9, <1>10, <1>11, <1>12, <1>13 DEF RegistryInv

-----------------------------------------------------------------------------
(* Theorems. *)

LEMMA RegistryStep == RegistryInv /\ [RegistryNext]_registryVars => RegistryInv'
<1> SUFFICES ASSUME RegistryInv, [RegistryNext]_registryVars
             PROVE  RegistryInv'
  OBVIOUS
<1>1. ASSUME UNCHANGED registryVars PROVE RegistryInv'
  BY <1>1, FoldsMoveAlone DEF registryVars, RegistryInv, RegistryTypeOK
<1>2. ASSUME NEW d \in Joiner, Join(d) PROVE RegistryInv'
  BY <1>2, JoinKeeps
<1>3. ASSUME NEW d \in Leaver, Leave(d) PROVE RegistryInv'
  BY <1>3, LeaveKeeps
<1>4. ASSUME NEW m \in Sibling, Learn(m) PROVE RegistryInv'
  BY <1>4, LearnKeeps
<1>5. ASSUME NEW m \in Sibling, Plan(m) PROVE RegistryInv'
  BY <1>5, PlanKeeps
<1>6. ASSUME NEW m \in Sibling, Write(m) PROVE RegistryInv'
  BY <1>6, WriteKeeps
<1>7. ASSUME NEW m \in Sibling, Stop(m) PROVE RegistryInv'
  BY <1>7, StopKeeps
<1> QED
  BY <1>1, <1>2, <1>3, <1>4, <1>5, <1>6, <1>7 DEF RegistryNext

THEOREM RegistryIsSound == RegistrySpec => []RegistryInv
BY RegistryStarts, RegistryStep, PTL DEF RegistrySpec

\* A reader always finds a pointer at every index the count covers: siblings
\* race, plan with folds that were overtaken and stop half way, and pointers
\* still reach storage before the count that covers them.
THEOREM ReadersFindARun == RegistrySpec => []RunIsDense
<1>1. RegistryInv => RunIsDense
  BY DEF RegistryInv
<1> QED
  BY <1>1, RegistryIsSound, PTL

\* A sibling for which registry_plan finds nothing to write sees the members of
\* its fold in the registry and nobody else.
THEOREM IdleSiblingsAreInSync == RegistrySpec => []NothingToDoMeansInSync
<1>1. RegistryInv => NothingToDoMeansInSync
  BY NothingToWrite DEF NothingToDoMeansInSync, RegistryInv, RegistryTypeOK
<1> QED
  BY <1>1, RegistryIsSound, PTL

\* A plan that was written to the end, and that no write of a sibling and no
\* refusal of storage came between, leaves the registry on its fold.
THEOREM PlansConverge == RegistrySpec => []UndisturbedPlansConverge
<1>1. RegistryInv => UndisturbedPlansConverge
  BY DEF UndisturbedPlansConverge, RegistryInv, AloneIsOnCourse
<1> QED
  BY <1>1, RegistryIsSound, PTL
=============================================================================

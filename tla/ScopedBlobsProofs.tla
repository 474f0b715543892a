-------------------------- MODULE ScopedBlobsProofs --------------------------
(***************************************************************************)
(* Theorems of ScopedBlobs, for any devices, readers, purposes, clocks and *)
(* number of publishes.                                                    *)
(*                                                                         *)
(* Storage may answer with anything it ever held, so the argument is about *)
(* what there is to be held: every write a device makes, and so every      *)
(* envelope, is either the slot of a reader that was granted the version   *)
(* whose key is in it, or the content of a version under that version's    *)
(* own key and address.  A key that a reader gets out of a slot then names *)
(* one version, which it was granted, and opens the content of no other.   *)
(***************************************************************************)
EXTENDS ScopedBlobs, WellFoundedInduction, TLAPS

Published == DOMAIN versions

\* A reader's slot of a version that it was granted, for the version's purpose.
GrantedSlot(w) ==
  /\ w.doc.section = "slot"
  /\ \E kek \in Reader, v \in Published :
       /\ kek \in grants[v]
       /\ w.address = slot_address(kek, versions[v])
       /\ w.doc.sealed = seal_slot(kek, versions[v], Contents(v))

\* The content of a version, under its own key and address.
OwnContent(w) ==
  /\ w.doc.section = "blob"
  /\ \E v \in Published : w.doc.sealed = seal_content(new_dek(v), new_blob_id(v), v)

Genuine(w) == GrantedSlot(w) \/ OwnContent(w)

BlobsTypeOK ==
  /\ versions \in Seq(Purpose)
  /\ grants \in Seq(SUBSET Reader) /\ Len(grants) = Len(versions)
  /\ DOMAIN outbox = Device
  /\ DOMAIN seen = Reader \X Purpose

BlobsInv ==
  /\ BlobsTypeOK
  /\ \A d \in Device : \A w \in outbox[d] : Genuine(w)
  /\ \A w \in held : Genuine(w)
  /\ \A kek \in Reader, purpose \in Purpose :
       LET v == seen[<<kek, purpose>>].version
       IN  v # Unpublished => v \in Published /\ versions[v] = purpose /\ kek \in grants[v]

-----------------------------------------------------------------------------
(* What a reader opens. *)

\* A slot that opens for a reader and a purpose was sealed for them, and holds
\* the key of a version of that purpose which the reader was granted.
LEMMA SlotsOpenForTheirReader ==
  ASSUME NEW w, Genuine(w), NEW kek \in Reader, NEW purpose \in Purpose,
         open_slot_signed(kek, purpose, w.doc) # None
  PROVE  \E v \in Published :
           /\ versions[v] = purpose /\ kek \in grants[v]
           /\ open_slot_signed(kek, purpose, w.doc) = Contents(v)
<1>1. /\ w.doc.section = "slot" /\ w.doc.sealed.key = slot_key(kek, purpose)
      /\ open_slot_signed(kek, purpose, w.doc) = w.doc.sealed.plain
  BY DEF open_slot_signed, open_envelope
<1>2. PICK k \in Reader, v \in Published :
        /\ k \in grants[v]
        /\ w.doc.sealed = seal_slot(k, versions[v], Contents(v))
  BY <1>1 DEF Genuine, GrantedSlot, OwnContent
<1>3. w.doc.sealed.key = slot_key(k, versions[v]) /\ w.doc.sealed.plain = Contents(v)
  BY <1>2 DEF seal_slot
<1>4. k = kek /\ versions[v] = purpose
  <2>1. slot_address(k, versions[v]) = slot_address(kek, purpose)
    BY <1>1, <1>3 DEF slot_key
  <2> QED
    BY <2>1 DEF slot_address
<1> QED
  BY <1>1, <1>2, <1>3, <1>4

\* Content that opens is the content of the version whose key and address were
\* tried.
LEMMA ContentOpensWithItsKey ==
  ASSUME NEW w, Genuine(w), NEW dek, NEW blob_id,
         open_content_signed(dek, blob_id, w.doc) # Unpublished
  PROVE  /\ open_content_signed(dek, blob_id, w.doc) \in Published
         /\ open_content_signed(dek, blob_id, w.doc) = dek
         /\ open_content_signed(dek, blob_id, w.doc) = blob_id
<1>1. /\ w.doc.section = "blob" /\ w.doc.sealed.key = <<dek, blob_id>>
      /\ open_content_signed(dek, blob_id, w.doc) = w.doc.sealed.plain
  BY DEF open_content_signed, open_envelope
<1>2. PICK v \in Published : w.doc.sealed = seal_content(new_dek(v), new_blob_id(v), v)
  BY <1>1 DEF Genuine, GrantedSlot, OwnContent
<1>3. w.doc.sealed.key = <<v, v>> /\ w.doc.sealed.plain = v
  BY <1>2 DEF seal_content, new_dek, new_blob_id
<1> QED
  BY <1>1, <1>3

-----------------------------------------------------------------------------
(* Every step keeps the invariant. *)

\* Versions and grants are only added to.
GrantsLast ==
  \A v \in Published :
    v \in DOMAIN versions' /\ versions'[v] = versions[v] /\ grants[v] \subseteq grants'[v]

LEMMA GenuineLasts ==
  ASSUME GrantsLast, NEW w, Genuine(w)
  PROVE  Genuine(w)'
<1>1. CASE GrantedSlot(w)
  <2>1. PICK kek \in Reader, v \in Published :
          /\ kek \in grants[v]
          /\ w.address = slot_address(kek, versions[v])
          /\ w.doc.sealed = seal_slot(kek, versions[v], Contents(v))
    BY <1>1 DEF GrantedSlot
  <2>2. v \in DOMAIN versions' /\ versions'[v] = versions[v] /\ kek \in grants'[v]
    BY <2>1 DEF GrantsLast
  <2> QED
    BY <1>1, <2>1, <2>2 DEF Genuine, GrantedSlot, Published
<1>2. CASE OwnContent(w)
  BY <1>2 DEF Genuine, OwnContent, Published, GrantsLast
<1> QED
  BY <1>1, <1>2 DEF Genuine

\* There is a newest version of a purpose that has any.
LEMMA NewestIsPublished ==
  ASSUME BlobsTypeOK, NEW purpose, Newest(purpose) # Unpublished
  PROVE  Newest(purpose) \in Published /\ versions[Newest(purpose)] = purpose
<1> DEFINE of == {v \in Published : versions[v] = purpose}
           Bounds == {n \in 1..Len(versions) : \A w \in of : w <= n}
<1>1. Published = 1..Len(versions) /\ Len(versions) \in Nat
  BY DEF BlobsTypeOK, Published
<1>2. of # {}
  BY DEF Newest, Published
<1>3. PICK n \in Bounds : \A m \in Bounds : ~(m < n)
  <2>1. Len(versions) \in Bounds
    BY <1>1, <1>2
  <2>2. OpToRel(<, Nat) = {p \in Nat \X Nat : p[1] < p[2]}
    BY DEF OpToRel
  <2>3. IsWellFoundedOn({p \in Nat \X Nat : p[1] < p[2]}, Nat)
    BY <2>2, NatLessThanWellFounded, Zenon
  <2>4. Bounds \subseteq Nat
    BY <1>1
  <2>5. \E n \in Bounds : \A m \in Bounds : <<m, n>> \notin {p \in Nat \X Nat : p[1] < p[2]}
    <3> HIDE DEF Bounds
    <3> QED
      BY <2>1, <2>3, <2>4, WFMin
  <2> QED
    BY <2>4, <2>5
<1>4. n \in of
  <2>1. n \in 1..Len(versions) /\ \A w \in of : w <= n
    BY <1>3
  <2>2. ASSUME n \notin of PROVE FALSE
    <3>1. \A w \in of : w \in 1..Len(versions) /\ w <= n /\ w # n
      BY <1>1, <2>1, <2>2
    <3>2. n - 1 \in Bounds
      <4>1. PICK w \in of : TRUE
        BY <1>2
      <4>2. n - 1 \in 1..Len(versions)
        BY <1>1, <2>1, <3>1, <4>1
      <4>3. \A x \in of : x <= n - 1
        BY <1>1, <2>1, <3>1
      <4> QED
        BY <4>2, <4>3
    <3>3. ~(n - 1 < n)
      BY <1>3, <3>2
    <3> QED
      BY <1>1, <2>1, <3>3
  <2> QED
    BY <2>2
<1>5. Newest(purpose) \in of
  <2>1. \E v \in of : \A w \in of : w <= v
    BY <1>3, <1>4
  <2>2. Newest(purpose) = CHOOSE v \in of : \A w \in of : w <= v
    BY <1>2 DEF Newest, Published
  <2> HIDE DEF of
  <2> QED
    BY <2>1, <2>2
<1> QED
  BY <1>5

LEMMA BlobsInvInit == BlobsInit => BlobsInv
BY DEF BlobsInit, BlobsInv, BlobsTypeOK

LEMMA BlobsInvStep == BlobsInv /\ [BlobsNext]_blobVars => BlobsInv'
<1> SUFFICES ASSUME BlobsInv, [BlobsNext]_blobVars PROVE BlobsInv'
  OBVIOUS
<1>0. BlobsTypeOK /\ Published = 1..Len(versions) /\ Len(versions) \in Nat
  BY DEF BlobsInv, BlobsTypeOK, Published
<1> DEFINE Writes == \A d \in Device : \A w \in outbox[d] : Genuine(w)
           Holds == \A w \in held : Genuine(w)
           Shows == \A kek \in Reader, purpose \in Purpose :
                      LET v == seen[<<kek, purpose>>].version
                      IN  v # Unpublished =>
                            v \in Published /\ versions[v] = purpose /\ kek \in grants[v]
<1>1. ASSUME NEW d \in Device, NEW purpose \in Purpose, NEW readers \in SUBSET Reader,
             NEW now \in Eagle, Publish(d, purpose, readers, now)
      PROVE  BlobsInv'
  <2> DEFINE v == Len(versions) + 1
  <2>1. /\ versions' = Append(versions, purpose) /\ grants' = Append(grants, readers)
        /\ outbox' = [outbox EXCEPT ![d] =
              {Content(v, d, now)} \cup slot_writes(readers, purpose, Contents(v), d, now)]
        /\ UNCHANGED <<slots, held, seen>>
    BY <1>1 DEF Publish
  <2>2. BlobsTypeOK'
    BY <1>0, <2>1 DEF BlobsTypeOK
  <2>3. GrantsLast /\ v \in Published' /\ versions'[v] = purpose /\ grants'[v] = readers
    BY <1>0, <2>1 DEF BlobsTypeOK, GrantsLast, Published
  <2> HIDE DEF v
  <2>4. ASSUME NEW w \in outbox'[d] PROVE Genuine(w)'
    <3>1. CASE w \in slot_writes(readers, purpose, Contents(v), d, now)
      <4>1. PICK kek \in readers : w = SlotWrite(kek, purpose, Contents(v), d, now)
        BY <3>1 DEF slot_writes
      <4>2. /\ w.address = slot_address(kek, purpose)
            /\ w.doc.section = "slot"
            /\ w.doc.sealed = seal_slot(kek, purpose, Contents(v))
        BY <4>1 DEF SlotWrite, envelope
      <4> QED
        BY <2>3, <4>1, <4>2 DEF Genuine, GrantedSlot
    <3>2. CASE w = Content(v, d, now)
      BY <2>3, <3>2 DEF Genuine, OwnContent, Content, seal_content_doc, envelope
    <3> QED
      BY <1>0, <2>1, <2>4, <3>1, <3>2 DEF BlobsTypeOK
  <2>5. Writes'
    <3>1. ASSUME NEW e \in Device, e # d, NEW w \in outbox'[e] PROVE Genuine(w)'
      BY <1>0, <2>1, <2>3, <3>1, GenuineLasts DEF BlobsInv, BlobsTypeOK
    <3> QED
      BY <2>4, <3>1
  <2>6. Holds'
    BY <2>1, <2>3, GenuineLasts DEF BlobsInv
  <2>7. Shows'
    BY <2>1, <2>3 DEF BlobsInv, GrantsLast, Published
  <2> QED
    BY <2>2, <2>5, <2>6, <2>7 DEF BlobsInv
<1>2. ASSUME NEW d \in Device, NEW purpose \in Purpose, NEW kek \in Reader,
             NEW now \in Eagle, AddReader(d, purpose, kek, now)
      PROVE  BlobsInv'
  <2> DEFINE v == Newest(purpose)
  <2>1. /\ v # Unpublished
        /\ UNCHANGED <<versions, slots, held, seen>>
        /\ grants' = [grants EXCEPT ![v] = @ \cup {kek}]
        /\ outbox' = [outbox EXCEPT ![d] = slot_writes({kek}, purpose, Contents(v), d, now)]
    BY <1>2 DEF AddReader
  <2>2. v \in Published /\ versions[v] = purpose
    BY <1>0, <2>1, NewestIsPublished
  <2> HIDE DEF v
  <2>3. BlobsTypeOK'
    BY <1>0, <2>1, <2>2 DEF BlobsTypeOK
  <2>4. GrantsLast /\ v \in Published' /\ versions'[v] = purpose /\ kek \in grants'[v]
    BY <1>0, <2>1, <2>2 DEF BlobsTypeOK, GrantsLast, Published
  <2>5. ASSUME NEW w \in outbox'[d] PROVE Genuine(w)'
    <3>1. w = SlotWrite(kek, purpose, Contents(v), d, now)
      BY <1>0, <2>1, <2>5 DEF slot_writes, BlobsTypeOK
    <3>2. /\ w.address = slot_address(kek, purpose)
          /\ w.doc.section = "slot"
          /\ w.doc.sealed = seal_slot(kek, purpose, Contents(v))
      BY <3>1 DEF SlotWrite, envelope
    <3> QED
      BY <2>4, <3>2 DEF Genuine, GrantedSlot
  <2>6. Writes'
    <3>1. ASSUME NEW e \in Device, e # d, NEW w \in outbox'[e] PROVE Genuine(w)'
      BY <1>0, <2>1, <2>4, <3>1, GenuineLasts DEF BlobsInv, BlobsTypeOK
    <3> QED
      BY <2>5, <3>1
  <2>7. Holds'
    BY <2>1, <2>4, GenuineLasts DEF BlobsInv
  <2>8. Shows'
    BY <2>1, <2>4 DEF BlobsInv, GrantsLast, Published
  <2> QED
    BY <2>3, <2>6, <2>7, <2>8 DEF BlobsInv
<1>3. ASSUME UNCHANGED <<versions, grants>> PROVE GrantsLast
  BY <1>3 DEF GrantsLast, Published
<1>4. ASSUME NEW d \in Device, NEW w \in outbox[d], Stores(d, w) PROVE BlobsInv'
  <2>1. /\ UNCHANGED <<versions, grants, seen>>
        /\ outbox' = [outbox EXCEPT ![d] = @ \ {w}] /\ held' = held \cup {w}
    BY <1>4 DEF Stores
  <2>2. \A x : Genuine(x) => Genuine(x)'
    BY <1>3, <2>1, GenuineLasts
  <2>3. \A e \in Device : outbox'[e] \subseteq outbox[e]
    BY <1>0, <2>1 DEF BlobsTypeOK
  <2>4. BlobsTypeOK'
    BY <1>0, <2>1 DEF BlobsTypeOK
  <2>5. Writes' /\ Holds'
    BY <1>4, <2>1, <2>2, <2>3 DEF BlobsInv
  <2>6. Shows'
    BY <2>1 DEF BlobsInv, Published
  <2> QED
    BY <2>4, <2>5, <2>6 DEF BlobsInv
<1>5. ASSUME NEW d \in Device, Stops(d) PROVE BlobsInv'
  <2>1. UNCHANGED <<versions, grants, seen, held>> /\ outbox' = [outbox EXCEPT ![d] = {}]
    BY <1>5 DEF Stops
  <2>2. \A x : Genuine(x) => Genuine(x)'
    BY <1>3, <2>1, GenuineLasts
  <2>3. \A e \in Device : outbox'[e] \subseteq outbox[e]
    BY <1>0, <2>1 DEF BlobsTypeOK
  <2>4. BlobsTypeOK'
    BY <1>0, <2>1 DEF BlobsTypeOK
  <2>5. Writes' /\ Holds'
    BY <2>1, <2>2, <2>3 DEF BlobsInv
  <2>6. Shows'
    BY <2>1 DEF BlobsInv, Published
  <2> QED
    BY <2>4, <2>5, <2>6 DEF BlobsInv
<1>6. ASSUME NEW kek \in Reader, NEW purpose \in Purpose, NEW w \in held, NEW x \in held,
             Opens(kek, purpose, w.doc, x.doc)
      PROVE  BlobsInv'
  <2> DEFINE wrap == open_slot_signed(kek, purpose, w.doc)
             plain == open_content_signed(wrap.dek, wrap.blob_id, x.doc)
  <2>1. /\ wrap # None /\ plain # Unpublished
        /\ seen' = [seen EXCEPT ![<<kek, purpose>>] =
                      [version |-> plain, stamp |-> w.doc.stamp]]
        /\ UNCHANGED <<versions, grants, outbox, held>>
    BY <1>6 DEF Opens
  <2>2. Genuine(w) /\ Genuine(x)
    BY DEF BlobsInv
  <2>3. PICK v \in Published : /\ versions[v] = purpose /\ kek \in grants[v]
                               /\ wrap = Contents(v)
    BY <2>1, <2>2, SlotsOpenForTheirReader
  <2>4. plain = wrap.dek /\ wrap.dek = v
    <3>1. wrap.dek = v
      BY <2>3 DEF Contents, new_dek
    <3> HIDE DEF wrap
    <3> QED
      BY <2>1, <2>2, <3>1, ContentOpensWithItsKey
  <2> HIDE DEF wrap, plain
  <2>5. \A y : Genuine(y) => Genuine(y)'
    BY <1>3, <2>1, GenuineLasts
  <2>6. BlobsTypeOK'
    BY <1>0, <2>1 DEF BlobsTypeOK
  <2>7. Writes' /\ Holds'
    BY <2>1, <2>5 DEF BlobsInv
  <2>8. ASSUME NEW k \in Reader, NEW p \in Purpose PROVE
          LET u == seen'[<<k, p>>].version
          IN  u # Unpublished => u \in Published /\ versions[u] = p /\ k \in grants[u]
    <3>1. CASE k = kek /\ p = purpose
      BY <1>0, <2>1, <2>3, <2>4, <3>1 DEF BlobsTypeOK
    <3>2. CASE ~(k = kek /\ p = purpose)
      BY <1>0, <2>1, <3>2 DEF BlobsTypeOK, BlobsInv
    <3> QED
      BY <3>1, <3>2
  <2>9. Shows'
    BY <2>1, <2>8 DEF Published
  <2> QED
    BY <2>6, <2>7, <2>9 DEF BlobsInv
<1>7. ASSUME UNCHANGED blobVars PROVE BlobsInv'
  <2>1. UNCHANGED <<versions, grants, outbox, held, seen>>
    BY <1>7 DEF blobVars
  <2>2. \A x : Genuine(x) => Genuine(x)'
    BY <1>3, <2>1, GenuineLasts
  <2> QED
    BY <2>1, <2>2 DEF BlobsInv, BlobsTypeOK, Published
<1> QED
  BY <1>1, <1>2, <1>4, <1>5, <1>6, <1>7 DEF BlobsNext, Store

LEMMA BlobsInvariance == BlobsSpec => []BlobsInv
BY BlobsInvInit, BlobsInvStep, PTL DEF BlobsSpec

-----------------------------------------------------------------------------

\* What a reader shows for a purpose was published for that purpose and granted
\* to it, whichever envelopes storage answers with.
THEOREM ReadersShowWhatWasGranted == BlobsSpec => []ShowsItsPurpose
<1>1. BlobsInv => ShowsItsPurpose
  BY DEF BlobsInv, ShowsItsPurpose
<1> QED
  BY <1>1, BlobsInvariance, PTL

\* No key out of any slot a reader could ever read opens a version that it was
\* not granted: a publish that leaves a reader out shuts it out of the new
\* version.
THEOREM RemovalShutsOut == BlobsSpec => []OnlyTheGranted
<1>1. ASSUME BlobsInv PROVE OnlyTheGranted
  <2> SUFFICES ASSUME NEW kek \in Reader, NEW w \in held, NEW v \in Published,
                      NEW dek \in KeysOf(kek), open_content_signed(dek, new_blob_id(v), w.doc) = v
               PROVE  kek \in grants[v]
    BY DEF OnlyTheGranted, Published
  <2>1. BlobsTypeOK /\ v # Unpublished
    BY <1>1 DEF BlobsInv, BlobsTypeOK, Published, Unpublished
  <2>2. dek = v
    <3>1. Genuine(w)
      BY <1>1 DEF BlobsInv
    <3> QED
      BY <2>1, <3>1, ContentOpensWithItsKey
  <2>3. PICK purpose \in Purpose, x \in held :
          x.doc.section = "slot" /\ dek = open_slot_signed(kek, purpose, x.doc).dek
    BY DEF KeysOf
  <2>4. open_slot_signed(kek, purpose, x.doc) # None
    BY <2>1, <2>2, <2>3 DEF None, Unpublished
  <2>5. PICK u \in Published :
          /\ kek \in grants[u]
          /\ open_slot_signed(kek, purpose, x.doc) = Contents(u)
    <3>1. Genuine(x)
      BY <1>1 DEF BlobsInv
    <3> QED
      BY <2>1, <2>4, <3>1, SlotsOpenForTheirReader
  <2>6. u = v
    BY <2>2, <2>3, <2>5 DEF Contents, new_dek
  <2> QED
    BY <2>5, <2>6
<1> QED
  BY <1>1, BlobsInvariance, PTL
=============================================================================

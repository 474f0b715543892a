----------------------------- MODULE ScopedBlobs -----------------------------
(***************************************************************************)
(* Scoped blobs (src/scoped_blob.rs): content encrypted once under a data  *)
(* key, and that key wrapped for each reader in a slot of its own.  A      *)
(* publish is a write of the content and one of each slot; a reader is     *)
(* removed by a publish that leaves it out and added by one more slot.     *)
(*                                                                         *)
(* Abstractions.  A sealed value is its key, its plaintext and what it is  *)
(* bound to; it opens with the same key and binding.  A secret shared with *)
(* a reader is the reader's name.  Storage is external: it keeps what was  *)
(* written last and may answer with anything it ever held.  The calls and  *)
(* their order are the application's, and so is what a reader accepts of   *)
(* what it opened (struct Signed says what it is for).  A stamp is what    *)
(* the writer's own clock says: nothing relates the clocks of two devices, *)
(* and a clock may be set back.                                            *)
(***************************************************************************)
EXTENDS Integers, Sequences, FiniteSets

CONSTANTS
  Device,     \* the devices that publish
  Reader,     \* the secrets shared with readers
  Purpose,    \* independent blobs of one publisher
  MaxVersions, \* bound: publishes
  MaxStamp     \* bound: the last time a clock says

ASSUME BlobsAssumption == MaxVersions \in Nat /\ MaxStamp \in Nat

VARIABLES
  versions, \* what was published: purpose and stamp
  grants,   \* per version: its readers
  outbox,   \* per device: writes still to be made
  slots,    \* per slot address: the envelope that is stored
  held,     \* <<address, envelope>> storage ever held
  seen,     \* per reader and purpose: what it shows, and its stamp
  (* history, read by properties only *)
  spoilt    \* versions interrupted, or written over by an earlier one

blobVars == <<versions, grants, outbox, slots, held, seen, spoilt>>

-----------------------------------------------------------------------------
(* Sealing. *)

None == [blob_id |-> 0, dek |-> 0]
Unpublished == 0

\* Signed by a device at a time; what is inside is opened after.
envelope(section, sealed, d, stamp) ==
  [section |-> section, sealed |-> sealed, signer |-> d, stamp |-> stamp]
open_envelope(section, doc) == doc.section = section /\ doc.signer \in Device

slot_address(kek, purpose) == <<"SCOPED_SLOT", kek, purpose>>
Bug_slot_key(kek, purpose) == <<"SCOPED_WRAP", kek>>
slot_key(kek, purpose) == <<"SCOPED_WRAP", kek, slot_address(kek, purpose)>>

\* A fresh key and a fresh address for the n-th version.
Bug_new_dek(n) == 1
new_dek(n) == n
new_blob_id(n) == n

seal_slot(kek, purpose, contents) == [key |-> slot_key(kek, purpose), plain |-> contents]
open_slot_signed(kek, purpose, doc) ==
  IF open_envelope("slot", doc) /\ doc.sealed.key = slot_key(kek, purpose)
  THEN doc.sealed.plain ELSE None

seal_content(dek, blob_id, plain) == [key |-> <<dek, blob_id>>, plain |-> plain]
seal_content_doc(dek, blob_id, plain, d, stamp) ==
  envelope("blob", seal_content(dek, blob_id, plain), d, stamp)
open_content_signed(dek, blob_id, doc) ==
  IF open_envelope("blob", doc) /\ doc.sealed.key = <<dek, blob_id>>
  THEN doc.sealed.plain ELSE Unpublished

\* One write per reader.
SlotWrite(kek, purpose, contents, d, stamp) ==
  [address |-> slot_address(kek, purpose),
   doc |-> envelope("slot", seal_slot(kek, purpose, contents), d, stamp)]
Bug_OnlyNewReaders(readers, purpose, contents, d, stamp) ==
  {SlotWrite(kek, purpose, contents, d, stamp) :
     kek \in {k \in readers : \A w \in held : w.address # slot_address(k, purpose)}}
slot_writes(readers, purpose, contents, d, stamp) ==
  {SlotWrite(kek, purpose, contents, d, stamp) : kek \in readers}

-----------------------------------------------------------------------------
(* Publishing. *)

Contents(v) == [blob_id |-> new_blob_id(v), dek |-> new_dek(v)]
Content(v, d, stamp) ==
  [address |-> <<"BLOB", new_blob_id(v)>>,
   doc |-> seal_content_doc(new_dek(v), new_blob_id(v), v, d, stamp)]

\* What a writer's clock may say.
Eagle == 1..MaxStamp
Newest(purpose) ==
  LET of == {v \in DOMAIN versions : versions[v] = purpose}
  IN  IF of = {} THEN Unpublished ELSE CHOOSE v \in of : \A w \in of : w <= v

Publish(d, purpose, readers, now) ==
  LET v == Len(versions) + 1
  IN  /\ v <= MaxVersions /\ outbox[d] = {}
      /\ versions' = Append(versions, purpose)
      /\ grants' = Append(grants, readers)
      /\ outbox' = [outbox EXCEPT ![d] =
           {Content(v, d, now)} \cup slot_writes(readers, purpose, Contents(v), d, now)]
      /\ UNCHANGED <<slots, held, seen, spoilt>>

\* "Adding one is a single extra write against the SAME blob."
AddReader(d, purpose, kek, now) ==
  LET v == Newest(purpose)
  IN  /\ v # Unpublished /\ kek \notin grants[v] /\ outbox[d] = {}
      /\ grants' = [grants EXCEPT ![v] = @ \cup {kek}]
      /\ outbox' = [outbox EXCEPT ![d] = slot_writes({kek}, purpose, Contents(v), d, now)]
      /\ UNCHANGED <<versions, slots, held, seen, spoilt>>

\* The version a slot's envelope leads to, and those a write over it spoils.
Leads(doc) == doc.sealed.plain.blob_id
Overtakes(w) ==
  {Leads(slots[a]) : a \in {b \in DOMAIN slots : b = w.address /\ Leads(slots[b]) > Leads(w.doc)}}

Stores(d, w) ==
  /\ outbox' = [outbox EXCEPT ![d] = @ \ {w}]
  /\ held' = held \cup {w}
  /\ IF w.doc.section = "slot"
     THEN /\ slots' = [a \in DOMAIN slots \cup {w.address} |-> IF a = w.address THEN w.doc ELSE slots[a]]
          /\ spoilt' = spoilt \cup Overtakes(w)
     ELSE UNCHANGED <<slots, spoilt>>
  /\ UNCHANGED <<versions, grants, seen>>

\* The device stops; its publish stays half made.
Stops(d) ==
  /\ outbox[d] # {}
  /\ outbox' = [outbox EXCEPT ![d] = {}]
  /\ spoilt' = spoilt \cup {IF w.doc.section = "slot" THEN Leads(w.doc) ELSE w.doc.sealed.plain : w \in outbox[d]}
  /\ UNCHANGED <<versions, grants, slots, held, seen>>

-----------------------------------------------------------------------------
(* Reading. *)

\* "Refuses a stamp older than the newest it has accepted."
Accepts(kek, purpose, doc) == doc.stamp >= seen[<<kek, purpose>>].stamp

\* A slot that was served, and the content it leads to.
Opens(kek, purpose, slot, content) ==
  LET wrap == open_slot_signed(kek, purpose, slot)
      plain == open_content_signed(wrap.dek, wrap.blob_id, content)
  IN  /\ slot.section = "slot" /\ wrap # None /\ plain # Unpublished
      /\ Accepts(kek, purpose, slot)
      /\ seen' = [seen EXCEPT ![<<kek, purpose>>] = [version |-> plain, stamp |-> slot.stamp]]
      /\ UNCHANGED <<versions, grants, outbox, slots, held, spoilt>>

\* Storage answers with what it has.
OpensStored(kek, purpose) ==
  \E w \in held :
    /\ slot_address(kek, purpose) \in DOMAIN slots
    /\ Opens(kek, purpose, slots[slot_address(kek, purpose)], w.doc)

-----------------------------------------------------------------------------
BlobsInit ==
  /\ versions = <<>> /\ grants = <<>>
  /\ outbox = [d \in Device |-> {}]
  /\ slots = <<>> /\ held = {} /\ spoilt = {}
  /\ seen = [rp \in Reader \X Purpose |-> [version |-> Unpublished, stamp |-> 0]]

Store(d) == \E w \in outbox[d] : Stores(d, w)

BlobsNext ==
  \/ \E d \in Device, purpose \in Purpose, now \in Eagle :
       \/ \E readers \in SUBSET Reader \ {{}} : Publish(d, purpose, readers, now)
       \/ \E kek \in Reader : AddReader(d, purpose, kek, now)
  \/ \E d \in Device : Store(d) \/ Stops(d)
  \/ \E kek \in Reader, purpose \in Purpose, w \in held, x \in held : Opens(kek, purpose, w.doc, x.doc)

BlobsSpec == BlobsInit /\ [][BlobsNext]_blobVars

\* A device makes its writes, and a reader's fetch gets now and then what is stored.
FairBlobsSpec ==
  /\ BlobsSpec
  /\ \A d \in Device : WF_blobVars(Store(d))
  /\ \A kek \in Reader, purpose \in Purpose : SF_blobVars(OpensStored(kek, purpose))

-----------------------------------------------------------------------------
(* Properties. *)

\* Readers dropped from a publish cannot open its content: a reader opens a version
\* with the keys of all the slots it could ever read only if it was granted that
\* very version, though the address of a blob is no secret and storage forgets
\* nothing.
KeysOf(kek) ==
  {open_slot_signed(kek, purpose, w.doc).dek : purpose \in Purpose, w \in {x \in held : x.doc.section = "slot"}}
OnlyTheGranted ==
  \A kek \in Reader, w \in held, v \in DOMAIN versions :
    (\E dek \in KeysOf(kek) : open_content_signed(dek, new_blob_id(v), w.doc) = v) => kek \in grants[v]

\* What a reader shows for a purpose was published for that purpose and granted to
\* it, whichever envelopes storage answers with.
ShowsItsPurpose ==
  \A kek \in Reader, purpose \in Purpose :
    LET v == seen[<<kek, purpose>>].version
    IN  v # Unpublished => versions[v] = purpose /\ kek \in grants[v]

\* A reader that the newest publish keeps or adds ends with that version and never
\* goes back, through stale answers and publishes that were interrupted before,
\* unless this one was interrupted or a slot of it written over by an earlier one.
\* The clocks must have agreed on the order: of two stamps that are equal or
\* inverted the reader's rule does not let the later publish win.
StampedLast(kek, purpose, v) ==
  LET written == {w \in held \cup UNION {outbox[d] : d \in Device} : w.address = slot_address(kek, purpose)}
  IN  \A w, x \in written : Leads(w.doc) # v /\ Leads(x.doc) = v => w.doc.stamp < x.doc.stamp
RetainedReadersFollow ==
  \A kek \in Reader, purpose \in Purpose :
    <>[](LET v == Newest(purpose)
         IN  v # Unpublished /\ v \notin spoilt /\ kek \in grants[v] /\ StampedLast(kek, purpose, v))
      => <>[](seen[<<kek, purpose>>].version = Newest(purpose))
=============================================================================

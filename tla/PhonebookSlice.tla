--------------------------- MODULE PhonebookSlice ---------------------------
(***************************************************************************)
(* One slice of the phonebook (src/phonebook.rs, struct Slice): a gapped,  *)
(* sorted array that a record's key addresses directly.  A key's ideal     *)
(* slot is a bit-field of the key, so a larger key of the slice has an     *)
(* ideal slot at or after a smaller one's; a lookup starts at the ideal    *)
(* slot and walks right.                                                   *)
(*                                                                         *)
(* Abstractions.  A key is its rank in the sort order.  Of a record's 256  *)
(* bytes only the key and the epoch matter to the slice.                   *)
(***************************************************************************)
EXTENDS Integers, FiniteSets

CONSTANTS
  Key,        \* record keys, as their ranks
  Here,       \* the keys whose slice_of is this slice's id
  slot_of,    \* the ideal slot of each key
  Slots,      \* SLICE_SLOTS
  MaxEpoch,   \* bound: the largest epoch explored
  Offered     \* bodies that other hosts send

Slot == 0..Slots-1
Record == [key : Key, epoch : 1..MaxEpoch]
Empty == [key |-> -1, epoch |-> 0]

ASSUME SliceAssumption ==
  /\ Slots \in Nat \ {0}
  /\ MaxEpoch \in Nat
  /\ Key \subseteq Nat
  /\ Here \subseteq Key
  /\ slot_of \in [Key -> Slot]
  /\ \A j, k \in Here : j <= k => slot_of[j] <= slot_of[k]
  /\ Offered \subseteq [Slot -> Record \cup {Empty}]

VARIABLES
  buf,        \* the records, by slot
  fill,       \* how many slots are taken
  outcome     \* (history) what the last call was about and returned

sliceVars == <<buf, fill, outcome>>

Occupied(s) == buf[s] # Empty

Returns(k, result) == outcome' = [key |-> k, result |-> result]

-----------------------------------------------------------------------------
\* The walk of lookup and insert stops at s: the first slot from the ideal one
\* on that is empty or holds a key at or past k.
StopsAt(k, s) ==
  /\ s \in slot_of[k]..Slots-1
  /\ Occupied(s) => buf[s].key >= k
  /\ \A t \in slot_of[k]..s-1 : Occupied(t) /\ buf[t].key < k

lookup(k, s) == s \in Slot /\ StopsAt(k, s) /\ buf[s].key = k

Gap(from, g) ==
  /\ g \in from..Slots-1
  /\ ~Occupied(g)
  /\ \A t \in from..g-1 : Occupied(t)

-----------------------------------------------------------------------------
(* insert *)

WrongSlice(k) ==
  k \notin Here /\ Returns(k, "wrong_slice") /\ UNCHANGED <<buf, fill>>

Drops(k, e, s) ==
  /\ ~Occupied(s)
  /\ buf' = [buf EXCEPT ![s] = [key |-> k, epoch |-> e]]
  /\ fill' = fill + 1
  /\ Returns(k, "ok")

\* The monotonic rule: only a strictly newer record replaces one.
Bug_ReplacesAny(k, e, s) ==
  /\ buf[s].key = k
  /\ buf' = [buf EXCEPT ![s].epoch = e] /\ Returns(k, "ok")
  /\ UNCHANGED fill
Replaces(k, e, s) ==
  /\ buf[s].key = k
  /\ \/ e > buf[s].epoch /\ buf' = [buf EXCEPT ![s].epoch = e] /\ Returns(k, "ok")
     \/ e <= buf[s].epoch /\ UNCHANGED buf /\ Returns(k, "stale")
  /\ UNCHANGED fill

\* A larger key is in the way: its run shifts one slot right, into the gap.
Bug_StepsPastLarger(k, e, s) ==
  /\ buf[s].key > k
  /\ \E g \in Slot :
       /\ Gap(s, g)
       /\ buf' = [buf EXCEPT ![g] = [key |-> k, epoch |-> e]]
       /\ fill' = fill + 1
       /\ Returns(k, "ok")
Shifts(k, e, s) ==
  /\ buf[s].key > k
  /\ \/ \E g \in Slot :
          /\ Gap(s, g)
          /\ buf' = [t \in Slot |->
               IF t = s THEN [key |-> k, epoch |-> e]
               ELSE IF t \in s+1..g THEN buf[t-1] ELSE buf[t]]
          /\ fill' = fill + 1
          /\ Returns(k, "ok")
     \/ /\ \A g \in s..Slots-1 : Occupied(g)
        /\ Returns(k, "full")
        /\ UNCHANGED <<buf, fill>>

\* Every slot from the ideal one to the end holds a smaller key.
NoSlotLeft(k) ==
  /\ \A t \in slot_of[k]..Slots-1 : Occupied(t) /\ buf[t].key < k
  /\ Returns(k, "full")
  /\ UNCHANGED <<buf, fill>>

Insert(k, e) ==
  \/ WrongSlice(k)
  \/ /\ k \in Here
     /\ \/ NoSlotLeft(k)
        \/ \E s \in Slot : StopsAt(k, s) /\ (Drops(k, e, s) \/ Replaces(k, e, s) \/ Shifts(k, e, s))

-----------------------------------------------------------------------------
(* remove *)

\* The records right of slot s that close up on it are those up to slot e:
\* each may move one left without passing its ideal slot.
Bug_ClosesUpAlways(s, e) ==
  /\ e \in s..Slots-1
  /\ \A j \in s+1..e : Occupied(j)
  /\ e+1 \in Slot => ~Occupied(e+1)
ClosesUp(s, e) ==
  /\ e \in s..Slots-1
  /\ \A j \in s+1..e : Occupied(j) /\ slot_of[buf[j].key] <= j-1
  /\ e+1 \in Slot /\ Occupied(e+1) => slot_of[buf[e+1].key] > e

RemoveKey(k) ==
  \/ /\ \A s \in Slot : ~lookup(k, s)
     /\ Returns(k, "absent")
     /\ UNCHANGED <<buf, fill>>
  \/ \E s \in Slot : \E e \in Slot :
       /\ lookup(k, s)
       /\ ClosesUp(s, e)
       /\ buf' = [t \in Slot |->
            IF t \in s..e-1 THEN buf[t+1] ELSE IF t = e THEN Empty ELSE buf[t]]
       /\ fill' = fill - 1
       /\ Returns(k, "removed")

-----------------------------------------------------------------------------
(* A body another host sent. *)

Bug_KeepsFill(body) == fill
Recount(body) == Cardinality({s \in Slot : body[s] # Empty})

\* check_invariants: no record left of its ideal slot, keys ascending.
check_invariants(body) ==
  /\ \A s \in Slot : body[s] # Empty => slot_of[body[s].key] <= s
  /\ \A s, t \in Slot :
       s < t /\ body[s] # Empty /\ body[t] # Empty => body[s].key < body[t].key

\* What a host that ran this code holds: records of this slice, each in the run
\* of taken slots that begins at or before its ideal one.  check_invariants
\* does not ask for it.
ASSUME PeersAssumption ==
  \A body \in Offered : check_invariants(body) =>
    \A s \in Slot : body[s] # Empty =>
      body[s].key \in Here /\ \A t \in slot_of[body[s].key]..s : body[t] # Empty

\* from_bytes takes any body of the right length; the host checks it after.
Adopt(body) ==
  /\ check_invariants(body)
  /\ buf' = body
  /\ fill' = Recount(body)
  /\ Returns(-1, "adopted")

-----------------------------------------------------------------------------
SliceInit ==
  /\ buf = [s \in Slot |-> Empty]
  /\ fill = 0
  /\ outcome = [key |-> -1, result |-> "none"]

SliceNext ==
  \/ \E k \in Key : \E e \in 1..MaxEpoch : Insert(k, e)
  \/ \E k \in Key : RemoveKey(k)
  \/ \E body \in Offered : Adopt(body)

SliceSpec == SliceInit /\ [][SliceNext]_sliceVars

-----------------------------------------------------------------------------
(* Properties. *)

\* Slots hold records or nothing, and `fill`, which decides when the network
\* moves to wider slices, counts the taken ones.
SliceTypeOK ==
  /\ buf \in [Slot -> Record \cup {Empty}]
  /\ fill = Cardinality({s \in Slot : Occupied(s)})

\* Every record in the array is the one a lookup of its key returns: none is
\* "silently unfindable while still sitting in the file".
Findable == \A s \in Slot : Occupied(s) => lookup(buf[s].key, s)

\* The slot a key has in a slice that was filled in key order: its own ideal
\* slot, or that of a smaller key pushed right by every key from there to it.
Stored == {buf[s].key : s \in {t \in Slot : Occupied(t)}}
FilledInOrder(k, s) ==
  LET reach(j) == slot_of[j] + Cardinality({m \in Stored : j < m /\ m <= k})
  IN  /\ \E j \in Stored : j <= k /\ s = reach(j)
      /\ \A j \in Stored : j <= k => reach(j) <= s

\* "Whatever insert does, remove undoes, and the slice is indistinguishable
\* from one the record never entered": the layout is a function of what is
\* stored, whatever the inserts, removals and refusals that led to it.
LayoutHasNoHistory == \A s \in Slot : Occupied(s) => FilledInOrder(buf[s].key, s)

\* The slice is the directory it promises to be, read through its lookup.
Lookup(k) ==
  IF \E s \in Slot : lookup(k, s)
  THEN LET s == CHOOSE s \in Slot : lookup(k, s) IN buf[s].epoch
  ELSE 0

Promised == INSTANCE PhonebookDirectory WITH book <- [k \in Key |-> Lookup(k)]

KeepsItsPromise == Promised!Directory
=============================================================================

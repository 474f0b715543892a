------------------------ MODULE PhonebookSliceProofs ------------------------
(***************************************************************************)
(* The theorems of PhonebookSlice, for any keys, slots and epochs: every   *)
(* record is found, the layout forgets its history, and the slice is the   *)
(* directory it promises to be.                                            *)
(***************************************************************************)
EXTENDS PhonebookSlice, FiniteSetTheorems, FunctionTheorems, WellFoundedInduction, TLAPS

\* Of a body only the keys matter to where things are; -1 where there is none.
KeysOf(body) == [s \in Slot |-> body[s].key]

\* The two invariants of a layout, of which check_invariants checks the first
\* and half of the second: keys ascend, and a record sits in the run of taken
\* slots that begins at or before its ideal slot.
Ordered(f) == \A s, t \in Slot : s < t /\ f[s] # -1 /\ f[t] # -1 => f[s] < f[t]
Packed(f) ==
  \A s \in Slot : f[s] # -1 =>
    slot_of[f[s]] <= s /\ \A t \in slot_of[f[s]]..s : f[t] # -1

Laid(f) == f \in [Slot -> Here \cup {-1}] /\ Ordered(f) /\ Packed(f)

SliceInv == SliceTypeOK /\ Laid(KeysOf(buf))

-----------------------------------------------------------------------------
(* Where keys may be. *)

\* Slots and keys are numbers, and ideal slots are slots, in the order of keys.
LEMMA Ideals ==
  /\ \A s \in Slot : s \in Int /\ 0 <= s /\ s < Slots
  /\ Slots \in Nat
  /\ \A k \in Here : k \in Int /\ 0 <= k /\ k \in Key /\ slot_of[k] \in Slot
  /\ \A j, k \in Here : j <= k => slot_of[j] <= slot_of[k]
BY SliceAssumption DEF Slot

\* Left of the ideal slot of a key there are smaller keys only.
LEMMA SmallerOnTheLeft ==
  ASSUME NEW f, Laid(f), NEW k \in Here, NEW t \in Slot, t < slot_of[k], f[t] # -1
  PROVE  f[t] < k
<1>1. f[t] \in Here /\ slot_of[f[t]] <= t
  BY DEF Laid, Packed
<1>2. k <= f[t] => slot_of[k] <= slot_of[f[t]]
  BY <1>1, Ideals
<1> QED
  BY <1>1, <1>2, Ideals

\* What sits right of an empty slot is at home there.
LEMMA AtHomeBeyondAGap ==
  ASSUME NEW f, Laid(f), NEW s \in Slot, f[s] = -1, NEW t \in Slot, s < t, f[t] # -1
  PROVE  s < slot_of[f[t]]
<1>1. /\ f[t] \in Here
      /\ \A u \in slot_of[f[t]]..t : f[u] # -1
  BY DEF Laid, Packed
<1>2. slot_of[f[t]] <= s => s \in slot_of[f[t]]..t
  BY <1>1, Ideals
<1> QED
  BY <1>1, <1>2, Ideals

\* A key dropped into the first empty slot from its ideal one on, past smaller
\* keys only, leaves a layout.
LEMMA DropLays ==
  ASSUME NEW f, Laid(f), NEW k \in Here, NEW s \in slot_of[k]..Slots-1, f[s] = -1,
         \A t \in slot_of[k]..s-1 : f[t] # -1 /\ f[t] < k
  PROVE  Laid([f EXCEPT ![s] = k])
<1> DEFINE h == [f EXCEPT ![s] = k]
<1>1. /\ s \in Slot /\ slot_of[k] \in Slot /\ slot_of[k] <= s
      /\ f \in [Slot -> Here \cup {-1}]
  BY Ideals DEF Laid, Slot
<1>2. /\ h[s] = k
      /\ \A t \in Slot : t # s => h[t] = f[t]
      /\ h \in [Slot -> Here \cup {-1}]
  BY <1>1
<1>3. \A t \in Slot : t < s /\ f[t] # -1 => f[t] < k
  <2> SUFFICES ASSUME NEW t \in Slot, t < s, f[t] # -1 PROVE f[t] < k
    OBVIOUS
  <2>1. CASE t < slot_of[k]
    BY <2>1, SmallerOnTheLeft
  <2>2. CASE slot_of[k] <= t
    BY <2>2, <1>1, Ideals
  <2>3. t \in Int /\ slot_of[k] \in Int
    BY <1>1, Ideals
  <2> QED
    BY <2>1, <2>2, <2>3
<1>4. \A t \in Slot : s < t /\ f[t] # -1 => k < f[t]
  <2> SUFFICES ASSUME NEW t \in Slot, s < t, f[t] # -1 PROVE k < f[t]
    OBVIOUS
  <2>1. s < slot_of[f[t]] /\ f[t] \in Here
    BY <1>1, AtHomeBeyondAGap DEF Laid
  <2>2. f[t] <= k => slot_of[f[t]] <= slot_of[k]
    BY <2>1, Ideals
  <2>3. /\ s \in Int /\ slot_of[k] \in Int /\ slot_of[f[t]] \in Int
        /\ f[t] \in Int /\ k \in Int
    BY <2>1, <1>1, Ideals
  <2> QED
    BY <2>1, <2>2, <2>3, <1>1
<1>5. Ordered(h)
  BY <1>1, <1>2, <1>3, <1>4, Ideals DEF Ordered, Laid
<1>6. \A t \in Slot : f[t] # -1 => h[t] # -1
  BY <1>1, <1>2, Ideals
<1>7. Packed(h)
  <2> SUFFICES ASSUME NEW t \in Slot, h[t] # -1
               PROVE  slot_of[h[t]] <= t /\ \A u \in slot_of[h[t]]..t : h[u] # -1
    BY DEF Packed
  <2>1. CASE t = s
    <3>1. \A u \in slot_of[k]..s : u \in Slot /\ (u = s \/ u \in slot_of[k]..s-1)
      BY <1>1, Ideals DEF Slot
    <3> QED
      BY <2>1, <3>1, <1>1, <1>2, <1>6, Ideals
  <2>2. CASE t # s
    <3>1. f[t] # -1 /\ f[t] \in Here
      BY <2>2, <1>1, <1>2
    <3>2. slot_of[f[t]] <= t /\ \A u \in slot_of[f[t]]..t : f[u] # -1
      BY <3>1 DEF Laid, Packed
    <3>3. \A u \in slot_of[f[t]]..t : u \in Slot
      BY <3>1, Ideals DEF Slot
    <3> QED
      BY <2>2, <3>2, <3>3, <1>2, <1>6
  <2> QED
    BY <2>1, <2>2
<1> QED
  BY <1>2, <1>5, <1>7 DEF Laid

\* A key that takes the slot of a larger one, whose run moves right into the
\* first gap, leaves a layout.
LEMMA ShiftLays ==
  ASSUME NEW f, Laid(f), NEW k \in Here, NEW s \in slot_of[k]..Slots-1,
         f[s] # -1, k < f[s],
         \A t \in slot_of[k]..s-1 : f[t] # -1 /\ f[t] < k,
         NEW g \in s..Slots-1, f[g] = -1, \A t \in s..g-1 : f[t] # -1
  PROVE  Laid([t \in Slot |-> IF t = s THEN k ELSE IF t \in s+1..g THEN f[t-1] ELSE f[t]])
<1> DEFINE h == [t \in Slot |-> IF t = s THEN k ELSE IF t \in s+1..g THEN f[t-1] ELSE f[t]]
<1>1. /\ s \in Slot /\ slot_of[k] \in Slot /\ slot_of[k] <= s
      /\ g \in Slot /\ s < g /\ s \in Int /\ g \in Int /\ slot_of[k] \in Int
      /\ f \in [Slot -> Here \cup {-1}]
  <2>1. s \in Int /\ g \in Int /\ slot_of[k] \in Int /\ slot_of[k] \in Slot
    BY Ideals
  <2>2. s \in Slot /\ g \in Slot
    BY <2>1, Ideals DEF Slot
  <2>3. s < g
    BY <2>1
  <2> QED
    BY <2>1, <2>2, <2>3 DEF Laid
<1>2. /\ h[s] = k
      /\ \A t \in Slot : t \in s+1..g => h[t] = f[t-1]
      /\ \A t \in Slot : t < s \/ g < t => h[t] = f[t]
  BY <1>1, Ideals
<1>3. \A t \in s+1..g : t \in Slot /\ t-1 \in Slot /\ t-1 \in s..g-1 /\ f[t-1] # -1
  BY <1>1, Ideals DEF Slot
<1>4. \A t \in Slot : t = s \/ t \in s+1..g \/ t < s \/ g < t
  BY <1>1, Ideals
<1>5. \A t \in Slot : t < s /\ f[t] # -1 => f[t] < k
  <2> SUFFICES ASSUME NEW t \in Slot, t < s, f[t] # -1 PROVE f[t] < k
    OBVIOUS
  <2>1. CASE t < slot_of[k]
    BY <2>1, SmallerOnTheLeft
  <2>2. CASE slot_of[k] <= t
    BY <2>2, <1>1, Ideals
  <2> QED
    BY <2>1, <2>2, <1>1, Ideals
<1>6. \A t \in Slot : s <= t /\ f[t] # -1 => k < f[t]
  <2> SUFFICES ASSUME NEW t \in Slot, s < t, f[t] # -1 PROVE k < f[t]
    BY <1>1, Ideals
  <2>1. f[s] < f[t]
    BY <1>1 DEF Laid, Ordered
  <2>2. f[s] \in Here /\ f[t] \in Here
    BY <1>1
  <2> QED
    BY <2>1, <2>2, Ideals
<1>7. \A t \in Slot : f[t] # -1 => h[t] # -1
  BY <1>1, <1>2, <1>3, <1>4, Ideals
<1>8. h \in [Slot -> Here \cup {-1}]
  BY <1>1, <1>2, <1>3, <1>4
<1>9. Ordered(h)
  <2> SUFFICES ASSUME NEW u \in Slot, NEW t \in Slot, u < t, h[u] # -1, h[t] # -1
               PROVE  h[u] < h[t]
    BY DEF Ordered
  <2>1. u \in Int /\ t \in Int
    BY Ideals
  <2>2. CASE t = s
    BY <2>2, <1>2, <1>5, <1>1, <2>1
  <2>3. CASE u = s
    <3>1. CASE t \in s+1..g
      <4>1. t-1 \in Slot /\ s <= t-1 /\ f[t-1] # -1
        BY <3>1, <1>3, <1>1
      <4> QED
        BY <2>3, <3>1, <4>1, <1>2, <1>6
    <3>2. CASE g < t
      BY <3>2, <2>3, <2>1, <1>1, <1>2, <1>6
    <3> QED
      BY <3>1, <3>2, <2>3, <1>4, <2>1, <1>1
  <2>4. CASE t # s /\ u # s
    <3> DEFINE from(v) == IF v \in s+1..g THEN v-1 ELSE v
    <3>1. h[t] = f[from(t)] /\ from(t) \in Slot
      BY <2>4, <1>2, <1>3, <1>4
    <3>2. h[u] = f[from(u)] /\ from(u) \in Slot
      BY <2>4, <1>2, <1>3, <1>4
    <3>3. from(u) < from(t)
      BY <2>4, <2>1, <1>1
    <3> HIDE DEF from, h
    <3> QED
      BY <3>1, <3>2, <3>3 DEF Laid, Ordered
  <2> QED
    BY <2>2, <2>3, <2>4
<1>10. Packed(h)
  <2> SUFFICES ASSUME NEW t \in Slot, h[t] # -1
               PROVE  slot_of[h[t]] <= t /\ \A u \in slot_of[h[t]]..t : h[u] # -1
    BY DEF Packed
  <2>0. t \in Int
    BY Ideals
  <2>1. CASE t = s
    <3>1. \A u \in slot_of[k]..s : u \in Slot /\ (u = s \/ u \in slot_of[k]..s-1)
      BY <1>1, Ideals DEF Slot
    <3>2. \A u \in slot_of[k]..s : h[u] # -1
      BY <3>1, <1>7
    <3> HIDE DEF h
    <3> QED
      BY <2>1, <3>2, <1>1, <1>2
  <2>2. CASE t \in s+1..g
    <3>1. /\ t-1 \in Slot /\ f[t-1] # -1 /\ f[t-1] \in Here /\ h[t] = f[t-1]
      BY <2>2, <1>1, <1>2, <1>3
    <3>2. /\ slot_of[f[t-1]] <= t-1 /\ \A u \in slot_of[f[t-1]]..t-1 : f[u] # -1
      BY <3>1 DEF Laid, Packed
    <3>3. slot_of[f[t-1]] \in Int /\ 0 <= slot_of[f[t-1]]
      BY <3>1, Ideals
    <3>4. \A u \in slot_of[f[t-1]]..t : u \in Slot /\ (u = t \/ u \in slot_of[f[t-1]]..t-1)
      BY <3>3, <2>0, Ideals DEF Slot
    <3> HIDE DEF h
    <3> QED
      BY <3>1, <3>2, <3>3, <3>4, <1>7, <2>0
  <2>3. CASE t < s \/ g < t
    <3>1. f[t] # -1 /\ f[t] \in Here /\ h[t] = f[t]
      BY <2>3, <1>1, <1>2
    <3>2. slot_of[f[t]] <= t /\ \A u \in slot_of[f[t]]..t : f[u] # -1
      BY <3>1 DEF Laid, Packed
    <3>3. \A u \in slot_of[f[t]]..t : u \in Slot
      BY <3>1, Ideals DEF Slot
    <3> HIDE DEF h
    <3> QED
      BY <3>1, <3>2, <3>3, <1>7
  <2> QED
    BY <2>1, <2>2, <2>3, <1>4
<1> HIDE DEF h
<1>11. Laid(h)
  BY <1>8, <1>9, <1>10 DEF Laid
<1> QED
  BY <1>11 DEF h

\* A key taken out, its run closed up as far as records may move left, leaves a
\* layout.
LEMMA CloseUpLays ==
  ASSUME NEW f, Laid(f), NEW s \in Slot, f[s] # -1, NEW e \in s..Slots-1,
         \A j \in s+1..e : f[j] # -1 /\ slot_of[f[j]] <= j-1,
         e+1 \in Slot /\ f[e+1] # -1 => slot_of[f[e+1]] > e
  PROVE  Laid([t \in Slot |-> IF t \in s..e-1 THEN f[t+1] ELSE IF t = e THEN -1 ELSE f[t]])
<1> DEFINE h == [t \in Slot |-> IF t \in s..e-1 THEN f[t+1] ELSE IF t = e THEN -1 ELSE f[t]]
<1>1. /\ s \in Int /\ e \in Int /\ s <= e /\ e \in Slot /\ f[e] # -1
      /\ f \in [Slot -> Here \cup {-1}]
  BY Ideals DEF Laid, Slot
<1>2. /\ h[e] = -1
      /\ \A t \in Slot : t \in s..e-1 => h[t] = f[t+1]
      /\ \A t \in Slot : t < s \/ e < t => h[t] = f[t]
  BY <1>1, Ideals
<1>3. \A t \in s..e-1 : t \in Slot /\ t+1 \in Slot /\ t+1 \in s+1..e /\ f[t] # -1
  BY <1>1, Ideals DEF Slot
<1>4. \A t \in Slot : t = e \/ t \in s..e-1 \/ t < s \/ e < t
  BY <1>1, Ideals
<1>5. \A t \in Slot : e < t /\ f[t] # -1 => e < slot_of[f[t]]
  <2> SUFFICES ASSUME NEW t \in Slot, e < t, f[t] # -1 PROVE e < slot_of[f[t]]
    OBVIOUS
  <2>1. e+1 \in Slot /\ t \in Int /\ f[t] \in Here /\ slot_of[f[t]] \in Int
    BY <1>1, Ideals DEF Slot
  <2>2. CASE t = e+1
    BY <2>1, <2>2
  <2>3. CASE t # e+1 /\ f[e+1] = -1
    <3>1. e+1 < t
      BY <2>1, <2>3, <1>1
    <3>2. e+1 < slot_of[f[t]]
      BY <3>1, <2>1, <2>3, AtHomeBeyondAGap
    <3> QED
      BY <3>2, <2>1, <1>1
  <2>4. CASE t # e+1 /\ f[e+1] # -1
    <3>1. f[e+1] \in Here /\ e+1 < t
      BY <2>1, <2>4, <1>1
    <3>2. f[e+1] < f[t]
      BY <3>1, <2>1, <2>4, f[t] # -1 DEF Laid, Ordered
    <3>3. /\ f[e+1] <= f[t] => slot_of[f[e+1]] <= slot_of[f[t]]
          /\ f[e+1] \in Int /\ f[t] \in Int /\ slot_of[f[e+1]] \in Int
      BY <3>1, <2>1, Ideals
    <3>4. e < slot_of[f[e+1]]
      BY <2>1, <2>4
    <3> QED
      BY <3>2, <3>3, <3>4, <2>1, <1>1
  <2> QED
    BY <2>2, <2>3, <2>4
<1>6. \A t \in Slot : t # e /\ f[t] # -1 => h[t] # -1
  BY <1>1, <1>2, <1>3, <1>4
<1>7. h \in [Slot -> Here \cup {-1}]
  BY <1>1, <1>2, <1>3, <1>4
<1>8. Ordered(h)
  <2> SUFFICES ASSUME NEW u \in Slot, NEW t \in Slot, u < t, h[u] # -1, h[t] # -1
               PROVE  h[u] < h[t]
    BY DEF Ordered
  <2>1. u \in Int /\ t \in Int /\ u # e /\ t # e
    BY Ideals, <1>2
  <2> DEFINE from(v) == IF v \in s..e-1 THEN v+1 ELSE v
  <2>2. h[t] = f[from(t)] /\ from(t) \in Slot
    BY <2>1, <1>2, <1>3, <1>4
  <2>3. h[u] = f[from(u)] /\ from(u) \in Slot
    BY <2>1, <1>2, <1>3, <1>4
  <2>4. from(u) < from(t)
    BY <2>1, <1>1
  <2> HIDE DEF from, h
  <2> QED
    BY <2>2, <2>3, <2>4 DEF Laid, Ordered
<1>9. Packed(h)
  <2> SUFFICES ASSUME NEW t \in Slot, h[t] # -1
               PROVE  slot_of[h[t]] <= t /\ \A u \in slot_of[h[t]]..t : h[u] # -1
    BY DEF Packed
  <2>0. t \in Int /\ t # e
    BY Ideals, <1>2
  <2>1. CASE t \in s..e-1
    <3>1. /\ t+1 \in Slot /\ f[t+1] # -1 /\ f[t+1] \in Here /\ h[t] = f[t+1]
      BY <2>1, <1>1, <1>2, <1>3
    <3>2. slot_of[f[t+1]] <= t
      BY <2>1, <2>0, <1>3
    <3>3. \A u \in slot_of[f[t+1]]..t+1 : f[u] # -1
      BY <3>1 DEF Laid, Packed
    <3>4. slot_of[f[t+1]] \in Int /\ 0 <= slot_of[f[t+1]]
      BY <3>1, Ideals
    <3>5. \A u \in slot_of[f[t+1]]..t : u \in Slot /\ u # e /\ u \in slot_of[f[t+1]]..t+1
      BY <3>4, <2>0, <2>1, <1>1, Ideals DEF Slot
    <3> HIDE DEF h
    <3> QED
      BY <3>1, <3>2, <3>3, <3>5, <1>6
  <2>2. CASE t < s \/ e < t
    <3>1. f[t] # -1 /\ f[t] \in Here /\ h[t] = f[t]
      BY <2>2, <1>1, <1>2
    <3>2. slot_of[f[t]] <= t /\ \A u \in slot_of[f[t]]..t : f[u] # -1
      BY <3>1 DEF Laid, Packed
    <3>3. slot_of[f[t]] \in Int /\ 0 <= slot_of[f[t]]
      BY <3>1, Ideals
    <3>4. e < t => e < slot_of[f[t]]
      BY <3>1, <1>5
    <3>5. \A u \in slot_of[f[t]]..t : u \in Slot /\ u # e
      BY <3>3, <3>4, <2>0, <2>2, <1>1, Ideals DEF Slot
    <3> HIDE DEF h
    <3> QED
      BY <3>1, <3>2, <3>5, <1>6
  <2> QED
    BY <2>0, <2>1, <2>2, <1>4
<1> HIDE DEF h
<1>10. Laid(h)
  BY <1>7, <1>8, <1>9 DEF Laid
<1> QED
  BY <1>10 DEF h

-----------------------------------------------------------------------------
(* The layout of the slice itself. *)

Taken(body) == {s \in Slot : body[s] # Empty}

\* A slot holds a record of some key or none, told apart by the key.
LEMMA RecordOrNone ==
  ASSUME NEW body \in [Slot -> Record \cup {Empty}], NEW s \in Slot
  PROVE  /\ body[s] = Empty <=> body[s].key = -1
         /\ body[s] # Empty => body[s] \in Record /\ body[s].key \in Key /\ body[s].epoch \in 1..MaxEpoch
         /\ KeysOf(body)[s] = body[s].key
         /\ body[s].key \in Int
<1>1. body[s] \in Record \/ body[s] = Empty
  OBVIOUS
<1>2. body[s] \in Record => body[s].key \in Key /\ body[s].epoch \in 1..MaxEpoch
  BY DEF Record
<1>3. body[s] = Empty => body[s].key = -1
  BY DEF Empty
<1>4. \A k \in Key : k \in Int /\ k # -1
  BY SliceAssumption
<1>5. KeysOf(body)[s] = body[s].key
  BY DEF KeysOf
<1> QED
  BY <1>1, <1>2, <1>3, <1>4, <1>5

\* Taken slots are finitely many, so the count follows what is put in or out.
LEMMA FillFollows ==
  ASSUME NEW body, NEW next, NEW s
  PROVE  /\ s \notin Taken(body) /\ Taken(next) = Taken(body) \cup {s} => Recount(next) = Recount(body) + 1
         /\ s \in Taken(body) /\ Taken(next) = Taken(body) \ {s} => Recount(next) = Recount(body) - 1
         /\ Taken(next) = Taken(body) => Recount(next) = Recount(body)
<1>1. IsFiniteSet(Slot)
  BY SliceAssumption, FS_Interval DEF Slot
<1>2. IsFiniteSet(Taken(body))
  BY <1>1, FS_Subset DEF Taken
<1>3. Recount(body) = Cardinality(Taken(body)) /\ Recount(next) = Cardinality(Taken(next))
  BY DEF Recount, Taken
<1> HIDE DEF Taken
<1>4. s \notin Taken(body) => Cardinality(Taken(body) \cup {s}) = Cardinality(Taken(body)) + 1
  BY <1>2, FS_AddElement
<1>5. s \in Taken(body) => Cardinality(Taken(body) \ {s}) = Cardinality(Taken(body)) - 1
  BY <1>2, FS_RemoveElement
<1> QED
  BY <1>3, <1>4, <1>5

\* The invariant in terms of a body.
LEMMA InvOfBody ==
  ASSUME SliceInv
  PROVE  /\ buf \in [Slot -> Record \cup {Empty}] /\ fill = Recount(buf)
         /\ \A s \in Slot : /\ Occupied(s) <=> buf[s] # Empty
                            /\ Occupied(s) <=> KeysOf(buf)[s] # -1
                            /\ KeysOf(buf)[s] = buf[s].key
         /\ Laid(KeysOf(buf))
BY RecordOrNone DEF SliceInv, SliceTypeOK, Occupied, Recount

LEMMA BodyToInv ==
  ASSUME buf' \in [Slot -> Record \cup {Empty}], fill' = Recount(buf'), Laid(KeysOf(buf'))
  PROVE  SliceInv'
BY DEF SliceInv, SliceTypeOK, Occupied, Recount, KeysOf, Laid, Ordered, Packed

LEMMA NewRecord ==
  ASSUME NEW k \in Here, NEW e \in 1..MaxEpoch
  PROVE  /\ [key |-> k, epoch |-> e] \in Record
         /\ [key |-> k, epoch |-> e] # Empty
<1>1. k \in Key /\ k # -1
  BY Ideals
<1>2. [key |-> k, epoch |-> e].key # Empty.key
  BY <1>1 DEF Empty
<1> QED
  BY <1>1, <1>2 DEF Record

LEMMA DropsInv ==
  ASSUME SliceInv, NEW k \in Here, NEW e \in 1..MaxEpoch, NEW s \in Slot,
         StopsAt(k, s), Drops(k, e, s)
  PROVE  SliceInv'
<1> DEFINE rec == [key |-> k, epoch |-> e]
<1> DEFINE f == KeysOf(buf)
<1>1. /\ buf \in [Slot -> Record \cup {Empty}] /\ fill = Recount(buf) /\ Laid(f)
      /\ \A t \in Slot : (Occupied(t) <=> f[t] # -1) /\ f[t] = buf[t].key
  BY InvOfBody
<1>2. rec \in Record /\ rec # Empty /\ rec.key = k
  BY NewRecord
<1> HIDE DEF rec
<1>3. buf' = [buf EXCEPT ![s] = rec] /\ fill' = fill + 1 /\ buf[s] = Empty
  BY DEF Drops, rec, Occupied
<1>4. buf' \in [Slot -> Record \cup {Empty}]
  BY <1>1, <1>2, <1>3
<1>5. KeysOf(buf') = [f EXCEPT ![s] = k]
  BY <1>1, <1>2, <1>3 DEF KeysOf
<1>6. /\ s \in slot_of[k]..Slots-1 /\ f[s] = -1
      /\ \A t \in slot_of[k]..s-1 : f[t] # -1 /\ f[t] < k
  <2>1. /\ s \in slot_of[k]..Slots-1 /\ ~Occupied(s)
        /\ \A t \in slot_of[k]..s-1 : Occupied(t) /\ buf[t].key < k
    BY DEF StopsAt, Drops
  <2>2. \A t \in slot_of[k]..s-1 : t \in Slot
    BY Ideals DEF Slot
  <2> HIDE DEF f
  <2> QED
    BY <2>1, <2>2, <1>1
<1>7. Laid(KeysOf(buf'))
  <2> HIDE DEF f
  <2>1. Laid([f EXCEPT ![s] = k])
    BY <1>1, <1>6, DropLays
  <2> QED
    BY <1>5, <2>1, Zenon
<1>8. s \notin Taken(buf) /\ Taken(buf') = Taken(buf) \cup {s}
  BY <1>1, <1>2, <1>3 DEF Taken
<1> QED
  BY <1>1, <1>3, <1>4, <1>7, <1>8, FillFollows, BodyToInv

LEMMA ReplacesInv ==
  ASSUME SliceInv, NEW k \in Here, NEW e \in 1..MaxEpoch, NEW s \in Slot,
         Replaces(k, e, s)
  PROVE  SliceInv'
<1>1. /\ buf \in [Slot -> Record \cup {Empty}] /\ fill = Recount(buf) /\ Laid(KeysOf(buf))
  BY InvOfBody
<1>2. CASE UNCHANGED buf
  <2>1. fill' = Recount(buf')
    BY <1>1, <1>2 DEF Replaces
  <2> QED
    BY <1>1, <1>2, <2>1, BodyToInv
<1>3. CASE buf' = [buf EXCEPT ![s].epoch = e]
  <2>1. buf[s].key = k /\ fill' = fill /\ k # -1
    BY Ideals DEF Replaces
  <2>2. buf[s] \in Record
    BY <1>1, <2>1, RecordOrNone
  <2> DEFINE rec == [buf[s] EXCEPT !.epoch = e]
  <2>3. buf' = [buf EXCEPT ![s] = rec]
    BY <1>3
  <2>4. rec \in Record /\ rec.key = k
    BY <2>1, <2>2 DEF Record
  <2>5. rec # Empty
    BY <2>1, <2>4 DEF Empty
  <2> HIDE DEF rec
  <2>6. buf' \in [Slot -> Record \cup {Empty}]
    BY <1>1, <2>3, <2>4
  <2>7. KeysOf(buf') = KeysOf(buf)
    BY <1>1, <2>1, <2>3, <2>4 DEF KeysOf
  <2>8. Taken(buf') = Taken(buf)
    <3>1. buf[s] # Empty
      BY <2>1 DEF Empty
    <3> QED
      BY <1>1, <3>1, <2>3, <2>5 DEF Taken
  <2> QED
    BY <1>1, <2>1, <2>6, <2>7, <2>8, FillFollows, BodyToInv
<1> QED
  BY <1>2, <1>3 DEF Replaces

LEMMA ShiftsInv ==
  ASSUME SliceInv, NEW k \in Here, NEW e \in 1..MaxEpoch, NEW s \in Slot,
         StopsAt(k, s), Shifts(k, e, s)
  PROVE  SliceInv'
<1> DEFINE rec == [key |-> k, epoch |-> e]
<1> DEFINE f == KeysOf(buf)
<1>1. /\ buf \in [Slot -> Record \cup {Empty}] /\ fill = Recount(buf) /\ Laid(f)
      /\ \A t \in Slot : (Occupied(t) <=> f[t] # -1) /\ f[t] = buf[t].key
  BY InvOfBody
<1>2. rec \in Record /\ rec # Empty /\ rec.key = k
  BY NewRecord
<1>3. buf[s].key > k
  BY DEF Shifts
<1>4. CASE UNCHANGED <<buf, fill>>
  BY <1>1, <1>4, BodyToInv
<1>5. ASSUME NEW g \in Slot, Gap(s, g), fill' = fill + 1,
             buf' = [t \in Slot |->
               IF t = s THEN [key |-> k, epoch |-> e]
               ELSE IF t \in s+1..g THEN buf[t-1] ELSE buf[t]]
      PROVE  SliceInv'
  <2> HIDE DEF rec
  <2>1. buf' = [t \in Slot |-> IF t = s THEN rec ELSE IF t \in s+1..g THEN buf[t-1] ELSE buf[t]]
    BY <1>5 DEF rec
  <2>2. /\ s \in Int /\ g \in Int /\ g \in s..Slots-1 /\ s # g /\ s < g
        /\ buf[s] # Empty /\ buf[g] = Empty /\ f[g] = -1 /\ f[s] # -1
        /\ \A t \in s..g-1 : t \in Slot /\ buf[t] # Empty /\ f[t] # -1
    <3>1. f[s] > k /\ f[s] # -1 /\ Occupied(s)
      BY <1>1, <1>3, Ideals
    <3>2. ~Occupied(g) /\ g \in s..Slots-1 /\ \A t \in s..g-1 : Occupied(t)
      BY <1>5 DEF Gap
    <3>3. s \in Int /\ g \in Int /\ s <= g /\ s # g
      BY <3>1, <3>2, Ideals
    <3>4. \A t \in s..g-1 : t \in Slot
      BY <3>3, Ideals DEF Slot
    <3> HIDE DEF f
    <3> QED
      BY <3>1, <3>2, <3>3, <3>4, <1>1 DEF Occupied
  <2>3. \A t \in s+1..g : t \in Slot /\ t-1 \in Slot /\ t-1 \in s..g-1 /\ buf[t-1] # Empty
    BY <2>2, Ideals DEF Slot
  <2>4. buf' \in [Slot -> Record \cup {Empty}]
    BY <1>1, <1>2, <2>1, <2>3
  <2>5. KeysOf(buf') = [t \in Slot |-> IF t = s THEN k ELSE IF t \in s+1..g THEN f[t-1] ELSE f[t]]
    BY <1>1, <1>2, <2>1, <2>3 DEF KeysOf
  <2>6. /\ s \in slot_of[k]..Slots-1 /\ k < f[s]
        /\ \A t \in slot_of[k]..s-1 : t \in Slot /\ Occupied(t) /\ f[t] # -1 /\ f[t] < k
    <3>1. /\ s \in slot_of[k]..Slots-1 
          /\ \A t \in slot_of[k]..s-1 : t \in Slot /\ Occupied(t) /\ buf[t].key < k
      BY Ideals DEF StopsAt, Slot
    <3> HIDE DEF f
    <3> QED
      BY <3>1, <1>1, <1>3, Ideals
  <2>7. Laid(KeysOf(buf'))
    <3> HIDE DEF f
    <3> QED
      BY <1>1, <2>2, <2>5, <2>6, ShiftLays
  <2>8. g \notin Taken(buf) /\ Taken(buf') = Taken(buf) \cup {g}
    <3>1. \A t \in Slot : t = g => buf'[t] # Empty
      BY <2>1, <2>2, <2>3
    <3>2. \A t \in Slot : t # g => (buf'[t] # Empty <=> buf[t] # Empty)
      <4> SUFFICES ASSUME NEW t \in Slot, t # g PROVE buf'[t] # Empty <=> buf[t] # Empty
        OBVIOUS
      <4>1. CASE t = s
        BY <4>1, <2>1, <2>2, <1>2
      <4>2. CASE t \in s+1..g
        <5>1. t \in s..g-1
          BY <4>2, <2>2
        <5> QED
          BY <4>2, <5>1, <2>1, <2>2, <2>3
      <4>3. CASE t # s /\ t \notin s+1..g
        BY <4>3, <2>1
      <4> QED
        BY <4>1, <4>2, <4>3
    <3> QED
      BY <3>1, <3>2, <2>2 DEF Taken
  <2> QED
    BY <1>1, <1>5, <2>4, <2>7, <2>8, FillFollows, BodyToInv
<1> QED
  BY <1>4, <1>5 DEF Shifts

LEMMA RemoveInv ==
  ASSUME SliceInv, NEW k \in Key, RemoveKey(k)
  PROVE  SliceInv'
<1> DEFINE f == KeysOf(buf)
<1>1. /\ buf \in [Slot -> Record \cup {Empty}] /\ fill = Recount(buf) /\ Laid(f)
      /\ \A t \in Slot : (Occupied(t) <=> f[t] # -1) /\ f[t] = buf[t].key
      /\ \A t \in Slot : Occupied(t) <=> buf[t] # Empty
  BY InvOfBody
<1>2. CASE UNCHANGED <<buf, fill>>
  BY <1>1, <1>2, BodyToInv
<1>3. ASSUME NEW s \in Slot, NEW e \in Slot, lookup(k, s), ClosesUp(s, e), fill' = fill - 1,
             buf' = [t \in Slot |->
               IF t \in s..e-1 THEN buf[t+1] ELSE IF t = e THEN Empty ELSE buf[t]]
      PROVE  SliceInv'
  <2>1. f[s] # -1
    BY <1>1, <1>3, SliceAssumption DEF lookup
  <2> HIDE DEF f
  <2>2. /\ e \in s..Slots-1 /\ s \in Int /\ e \in Int
        /\ \A j \in s+1..e : j \in Slot /\ buf[j] # Empty /\ f[j] # -1 /\ slot_of[f[j]] <= j-1
        /\ e+1 \in Slot /\ f[e+1] # -1 => slot_of[f[e+1]] > e
    <3>1. e \in s..Slots-1 /\ s \in Int /\ e \in Int
      BY <1>3, Ideals DEF ClosesUp
    <3>2. \A j \in s+1..e : j \in Slot
      BY <3>1, Ideals DEF Slot
    <3>3. \A j \in s+1..e : Occupied(j) /\ slot_of[buf[j].key] <= j-1
      BY <1>3 DEF ClosesUp
    <3>4. e+1 \in Slot /\ f[e+1] # -1 => slot_of[f[e+1]] > e
      BY <1>1, <1>3 DEF ClosesUp
    <3> QED
      BY <3>1, <3>2, <3>3, <3>4, <1>1
  <2>3. \A t \in s..e-1 : t \in Slot /\ t+1 \in Slot /\ t+1 \in s+1..e
    BY <2>2, Ideals DEF Slot
  <2>4. buf' \in [Slot -> Record \cup {Empty}]
    BY <1>1, <1>3, <2>3
  <2>5. KeysOf(buf') = [t \in Slot |-> IF t \in s..e-1 THEN f[t+1] ELSE IF t = e THEN -1 ELSE f[t]]
    BY <1>1, <1>3, <2>3 DEF KeysOf, Empty
  <2>6. Laid(KeysOf(buf'))
    BY <1>1, <2>1, <2>2, <2>5, CloseUpLays
  <2>7. \A t \in s..e : t \in Slot /\ buf[t] # Empty
    <3>1. \A t \in s..e : t = s \/ t \in s+1..e
      BY <2>2
    <3> QED
      BY <3>1, <2>1, <2>2, <1>1
  <2>8. e \in Taken(buf) /\ Taken(buf') = Taken(buf) \ {e}
    <3>1. \A t \in Slot : t = e => buf'[t] = Empty
      BY <1>3, <2>2
    <3>2. \A t \in Slot : t # e => (buf'[t] # Empty <=> buf[t] # Empty)
      <4> SUFFICES ASSUME NEW t \in Slot, t # e PROVE buf'[t] # Empty <=> buf[t] # Empty
        OBVIOUS
      <4>1. CASE t \in s..e-1
        <5>1. t \in s..e /\ t+1 \in s..e
          BY <4>1, <2>2
        <5>2. buf'[t] = buf[t+1]
          BY <4>1, <1>3
        <5> QED
          BY <5>1, <5>2, <2>7
      <4>2. CASE t \notin s..e-1
        BY <4>2, <1>3
      <4> QED
        BY <4>1, <4>2
    <3>3. e \in s..e
      BY <2>2
    <3> QED
      BY <3>1, <3>2, <3>3, <2>7 DEF Taken
  <2> QED
    BY <1>1, <1>3, <2>4, <2>6, <2>8, FillFollows, BodyToInv
<1> QED
  BY <1>2, <1>3 DEF RemoveKey

\* A body from another host has its layout from what that host ran.
LEMMA AdoptInv ==
  ASSUME NEW body \in Offered, Adopt(body)
  PROVE  SliceInv'
<1>1. buf' = body /\ fill' = Recount(buf') /\ check_invariants(body)
  BY DEF Adopt
<1>2. body \in [Slot -> Record \cup {Empty}]
  BY SliceAssumption
<1> DEFINE f == KeysOf(body)
<1>3. \A s \in Slot : (body[s] # Empty <=> f[s] # -1) /\ f[s] = body[s].key
  BY <1>2, RecordOrNone
<1>4. \A s \in Slot : body[s] # Empty =>
        body[s].key \in Here /\ \A t \in slot_of[body[s].key]..s : body[t] # Empty
  BY <1>1, PeersAssumption
<1>5. f \in [Slot -> Here \cup {-1}]
  BY <1>3, <1>4 DEF KeysOf
<1> HIDE DEF f
<1>6. Ordered(f)
  BY <1>1, <1>3 DEF Ordered, check_invariants
<1>7. Packed(f)
  <2> SUFFICES ASSUME NEW s \in Slot, f[s] # -1
               PROVE  slot_of[f[s]] <= s /\ \A t \in slot_of[f[s]]..s : f[t] # -1
    BY DEF Packed
  <2>1. body[s] # Empty /\ f[s] \in Here
    BY <1>3, <1>4
  <2>2. \A t \in slot_of[f[s]]..s : t \in Slot
    BY <2>1, Ideals DEF Slot
  <2> QED
    BY <2>1, <2>2, <1>1, <1>3, <1>4 DEF check_invariants
<1> QED
  BY <1>1, <1>2, <1>5, <1>6, <1>7, BodyToInv DEF f, Laid

\* The invariant holds at the start and through every call.
LEMMA SliceInvInit == SliceInit => SliceInv
<1> SUFFICES ASSUME SliceInit PROVE SliceInv
  OBVIOUS
<1>1. buf = [s \in Slot |-> Empty] /\ fill = 0
  BY DEF SliceInit
<1>2. \A s \in Slot : buf[s] = Empty /\ KeysOf(buf)[s] = -1
  BY <1>1 DEF KeysOf, Empty
<1>3. {s \in Slot : Occupied(s)} = {}
  BY <1>2 DEF Occupied
<1>4. SliceTypeOK
  BY <1>1, <1>3, FS_EmptySet DEF SliceTypeOK
<1>5. KeysOf(buf) \in [Slot -> Here \cup {-1}]
  BY <1>2 DEF KeysOf
<1>6. Ordered(KeysOf(buf)) /\ Packed(KeysOf(buf))
  BY <1>2 DEF Ordered, Packed
<1> QED
  BY <1>4, <1>5, <1>6 DEF SliceInv, Laid

LEMMA SliceInvStep == SliceInv /\ [SliceNext]_sliceVars => SliceInv'
<1> SUFFICES ASSUME SliceInv, [SliceNext]_sliceVars PROVE SliceInv'
  OBVIOUS
<1>1. ASSUME NEW k \in Key, NEW e \in 1..MaxEpoch, Insert(k, e) PROVE SliceInv'
  <2>1. CASE UNCHANGED <<buf, fill>>
    BY <2>1, InvOfBody, BodyToInv
  <2>2. ASSUME k \in Here, NEW s \in Slot, StopsAt(k, s),
               Drops(k, e, s) \/ Replaces(k, e, s) \/ Shifts(k, e, s)
        PROVE  SliceInv'
    BY <2>2, DropsInv, ReplacesInv, ShiftsInv
  <2> QED
    BY <1>1, <2>1, <2>2 DEF Insert, WrongSlice, NoSlotLeft
<1>2. ASSUME NEW k \in Key, RemoveKey(k) PROVE SliceInv'
  BY <1>2, RemoveInv
<1>3. ASSUME NEW body \in Offered, Adopt(body) PROVE SliceInv'
  BY <1>3, AdoptInv
<1>4. CASE UNCHANGED sliceVars
  BY <1>4, InvOfBody, BodyToInv DEF sliceVars
<1> QED
  BY <1>1, <1>2, <1>3, <1>4 DEF SliceNext

-----------------------------------------------------------------------------
(* Records are found. *)

\* Where a key is, its lookup ends, and nowhere else.
LEMMA Finds ==
  SliceInv =>
    /\ \A s \in Slot : Occupied(s) => lookup(buf[s].key, s)
    /\ \A k \in Key : \A s, t \in Slot : buf[s].key = k /\ buf[t].key = k => s = t
<1> SUFFICES ASSUME SliceInv
             PROVE  /\ \A s \in Slot : Occupied(s) => lookup(buf[s].key, s)
                    /\ \A k \in Key : \A s, t \in Slot : buf[s].key = k /\ buf[t].key = k => s = t
  OBVIOUS
<1> DEFINE f == KeysOf(buf)
<1>1. /\ Laid(f)
      /\ \A t \in Slot : (Occupied(t) <=> f[t] # -1) /\ f[t] = buf[t].key
  BY InvOfBody
<1> HIDE DEF f
<1>2. ASSUME NEW s \in Slot, Occupied(s) PROVE lookup(buf[s].key, s)
  <2>1. f[s] \in Here /\ f[s] # -1
    BY <1>1, <1>2 DEF Laid
  <2>2. slot_of[f[s]] <= s /\ \A t \in slot_of[f[s]]..s : f[t] # -1
    BY <1>1, <2>1 DEF Laid, Packed
  <2>3. s \in slot_of[f[s]]..Slots-1 /\ \A t \in slot_of[f[s]]..s-1 : t \in Slot /\ t < s /\ t \in slot_of[f[s]]..s
    BY <2>1, <2>2, Ideals DEF Slot
  <2>4. \A t \in slot_of[f[s]]..s-1 : Occupied(t) /\ f[t] < f[s]
    BY <1>1, <2>1, <2>2, <2>3 DEF Laid, Ordered
  <2>5. StopsAt(f[s], s)
    BY <1>1, <2>1, <2>3, <2>4, Ideals DEF StopsAt
  <2> QED
    BY <1>1, <2>5 DEF lookup
<1>3. ASSUME NEW k \in Key, NEW s \in Slot, NEW t \in Slot, buf[s].key = k, buf[t].key = k
      PROVE  s = t
  <2>1. f[s] = k /\ f[t] = k /\ k # -1 /\ k \in Int
    BY <1>1, <1>3, SliceAssumption
  <2>2. ~(s < t) /\ ~(t < s)
    BY <1>1, <2>1 DEF Laid, Ordered
  <2> QED
    BY <2>2, Ideals
<1> QED
  BY <1>2, <1>3

\* Every record in the array is the one a lookup of its key returns.
THEOREM RecordsAreFound == SliceSpec => []Findable
<1>1. SliceInv => Findable
  BY Finds DEF Findable
<1> QED
  BY <1>1, SliceInvInit, SliceInvStep, PTL DEF SliceSpec

\* Slots hold records or nothing, and the fill count is the count of records.
THEOREM FillCounts == SliceSpec => []SliceTypeOK
<1>1. SliceInv => SliceTypeOK
  BY DEF SliceInv
<1> QED
  BY <1>1, SliceInvInit, SliceInvStep, PTL DEF SliceSpec

-----------------------------------------------------------------------------
(* The slice is the directory it promises to be. *)

\* What a lookup gives: the epoch of the one record of the key.
EntriesAreFound ==
  \A k \in Key :
    /\ \A s \in Slot : buf[s].key = k => Lookup(k) = buf[s].epoch
    /\ (\A s \in Slot : buf[s].key # k) => Lookup(k) = 0
    /\ Lookup(k) \in 0..MaxEpoch

LEMMA LookupGives == SliceInv => EntriesAreFound
<1> SUFFICES ASSUME SliceInv, NEW k \in Key
             PROVE  /\ \A s \in Slot : buf[s].key = k => Lookup(k) = buf[s].epoch
                    /\ (\A s \in Slot : buf[s].key # k) => Lookup(k) = 0
                    /\ Lookup(k) \in 0..MaxEpoch
  BY DEF EntriesAreFound
<1>1. buf \in [Slot -> Record \cup {Empty}]
  BY InvOfBody
<1>2. \A s \in Slot : lookup(k, s) => buf[s].key = k
  BY DEF lookup
<1>3. \A s \in Slot : buf[s].key = k => lookup(k, s) /\ buf[s].epoch \in 1..MaxEpoch
  <2> SUFFICES ASSUME NEW s \in Slot, buf[s].key = k PROVE lookup(k, s) /\ buf[s].epoch \in 1..MaxEpoch
    OBVIOUS
  <2>1. buf[s] # Empty
    BY <1>1, RecordOrNone, SliceAssumption
  <2> QED
    BY <1>1, <2>1, RecordOrNone, Finds DEF Occupied
<1>4. ASSUME NEW s \in Slot, buf[s].key = k PROVE Lookup(k) = buf[s].epoch
  <2>1. lookup(k, s) /\ \A t \in Slot : lookup(k, t) => t = s
    BY <1>2, <1>3, <1>4, Finds
  <2>2. (CHOOSE t \in Slot : lookup(k, t)) = s
    BY <2>1
  <2> QED
    BY <2>1, <2>2 DEF Lookup
<1>5. ASSUME \A s \in Slot : buf[s].key # k PROVE Lookup(k) = 0
  BY <1>2, <1>5 DEF Lookup
<1>6. Lookup(k) \in 0..MaxEpoch
  <2>1. CASE \E s \in Slot : buf[s].key = k
    BY <2>1, <1>3, <1>4, SliceAssumption
  <2>2. CASE \A s \in Slot : buf[s].key # k
    BY <2>2, <1>5, SliceAssumption
  <2> QED
    BY <2>1, <2>2
<1> QED
  BY <1>4, <1>5, <1>6

LEMMA LookupGivesNext == SliceInv' => EntriesAreFound'
BY LookupGives, PTL

\* A key whose record is still there, or that still has none, is looked up with
\* the same result.
LEMMA SameEntry ==
  ASSUME SliceInv, SliceInv', NEW k \in Key,
         \A s \in Slot : buf[s].key = k => \E t \in Slot : buf'[t].key = k /\ buf'[t].epoch = buf[s].epoch,
         \A t \in Slot : buf'[t].key = k => \E s \in Slot : buf[s].key = k
  PROVE  Lookup(k)' = Lookup(k)
<1>1. CASE \E s \in Slot : buf[s].key = k
  BY <1>1, LookupGives, LookupGivesNext DEF EntriesAreFound
<1>2. CASE \A s \in Slot : buf[s].key # k
  BY <1>2, LookupGives, LookupGivesNext DEF EntriesAreFound
<1> QED
  BY <1>1, <1>2

\* A lookup walks to one place: where it stops at another key, the key is absent.
LEMMA AbsentWhenPassed ==
  ASSUME SliceInv, NEW k \in Here, NEW s \in Slot, StopsAt(k, s), buf[s].key # k
  PROVE  Lookup(k) = 0
<1>1. ASSUME NEW t \in Slot, buf[t].key = k PROVE FALSE
  <2>1. k \in Key /\ k # -1 /\ k \in Int
    BY Ideals
  <2>2. Occupied(t)
    BY <1>1, <2>1, RecordOrNone, InvOfBody
  <2>3. StopsAt(k, t)
    BY <1>1, <2>2, Finds DEF lookup
  <2>4. t # s /\ t \in Int /\ s \in Int /\ slot_of[k] \in Int
    BY <1>1, Ideals
  <2>5. CASE t < s
    <3>1. t \in slot_of[k]..s-1
      BY <2>3, <2>4, <2>5 DEF StopsAt
    <3> QED
      BY <3>1, <2>1, <1>1 DEF StopsAt
  <2>6. CASE s < t
    <3>1. s \in slot_of[k]..t-1
      BY <2>4, <2>6 DEF StopsAt
    <3>2. Occupied(s) /\ buf[s].key < k
      BY <3>1, <2>3 DEF StopsAt
    <3>3. buf[s].key \in Int
      BY InvOfBody, RecordOrNone
    <3> QED
      BY <3>2, <3>3, <2>1 DEF StopsAt
  <2> QED
    BY <2>4, <2>5, <2>6
<1>2. k \in Key
  BY Ideals
<1> QED
  BY <1>1, <1>2, LookupGives DEF EntriesAreFound

LEMMA AbsentWhenAllSmaller ==
  ASSUME SliceInv, NEW k \in Here, NoSlotLeft(k)
  PROVE  Lookup(k) = 0
<1>1. ASSUME NEW t \in Slot, buf[t].key = k PROVE FALSE
  <2>1. k \in Key /\ k # -1 /\ k \in Int
    BY Ideals
  <2>2. Occupied(t)
    BY <1>1, <2>1, RecordOrNone, InvOfBody
  <2>3. t \in slot_of[k]..Slots-1
    BY <1>1, <2>2, Finds DEF lookup, StopsAt
  <2> QED
    BY <1>1, <2>1, <2>3 DEF NoSlotLeft
<1>2. k \in Key
  BY Ideals
<1> QED
  BY <1>1, <1>2, LookupGives DEF EntriesAreFound

Book == [k \in Key |-> Lookup(k)]

\* A key put in, and every other record kept, is one step of the directory.
LEMMA PutsOne ==
  ASSUME SliceInv, SliceInv', NEW k \in Here, NEW e \in 1..MaxEpoch, e > Lookup(k),
         Returns(k, "ok"),
         NEW s \in Slot, buf'[s] = [key |-> k, epoch |-> e],
         \A j \in Key : j # k =>
           /\ \A t \in Slot : buf[t].key = j => \E u \in Slot : buf'[u] = buf[t]
           /\ \A t \in Slot : buf'[t].key = j => \E u \in Slot : buf[u].key = j
  PROVE  Promised!Accept(k, e)
<1>1. k \in Key
  BY Ideals
<1>2. Lookup(k)' = e
  BY <1>1, LookupGivesNext DEF EntriesAreFound
<1>3. ASSUME NEW j \in Key, j # k PROVE Lookup(j)' = Lookup(j)
  <2>1. \A t \in Slot : buf[t].key = j => \E u \in Slot : buf'[u].key = j /\ buf'[u].epoch = buf[t].epoch
    BY <1>3, Zenon
  <2> QED
    BY <1>3, <2>1, SameEntry
<1>4. Book' = [Book EXCEPT ![k] = e]
  BY <1>1, <1>2, <1>3 DEF Book
<1> QED
  BY <1>1, <1>4 DEF Promised!Accept, Promised!Returned, Returns, Book

LEMMA DropsPuts ==
  ASSUME SliceInv, SliceInv', NEW k \in Here, NEW e \in 1..MaxEpoch, NEW s \in Slot,
         StopsAt(k, s), Drops(k, e, s)
  PROVE  Promised!Accept(k, e)
<1>1. /\ buf \in [Slot -> Record \cup {Empty}] /\ buf[s] = Empty
      /\ buf' = [buf EXCEPT ![s] = [key |-> k, epoch |-> e]]
      /\ Returns(k, "ok")
  BY InvOfBody DEF Drops, Occupied
<1>2. buf[s].key = -1 /\ k # -1 /\ \A j \in Key : j # -1
  BY <1>1, SliceAssumption, Ideals DEF Empty
<1>3. Lookup(k) = 0
  BY <1>2, AbsentWhenPassed
<1> DEFINE rec == [key |-> k, epoch |-> e]
<1>4. rec.key = k
  OBVIOUS
<1> HIDE DEF rec
<1>5. /\ buf'[s] = rec
      /\ \A t \in Slot : t # s => buf'[t] = buf[t]
  BY <1>1 DEF rec
<1>6. ASSUME NEW j \in Key, j # k
      PROVE  /\ \A t \in Slot : buf[t].key = j => \E u \in Slot : buf'[u] = buf[t]
             /\ \A t \in Slot : buf'[t].key = j => \E u \in Slot : buf[u].key = j
  BY <1>2, <1>4, <1>5, <1>6
<1>7. e > Lookup(k)
  BY <1>3
<1>8. buf'[s] = [key |-> k, epoch |-> e]
  BY <1>5 DEF rec
<1> QED
  BY <1>1, <1>6, <1>7, <1>8, PutsOne

LEMMA ShiftsPuts ==
  ASSUME SliceInv, SliceInv', NEW k \in Here, NEW e \in 1..MaxEpoch, NEW s \in Slot,
         StopsAt(k, s), buf[s].key > k, NEW g \in Slot, Gap(s, g), Returns(k, "ok"),
         buf' = [t \in Slot |->
           IF t = s THEN [key |-> k, epoch |-> e]
           ELSE IF t \in s+1..g THEN buf[t-1] ELSE buf[t]]
  PROVE  Promised!Accept(k, e)
<1>1. buf \in [Slot -> Record \cup {Empty}]
  BY InvOfBody
<1>2. k \in Int /\ k # -1 /\ \A j \in Key : j # -1
  BY SliceAssumption, Ideals
<1>3. buf[s].key # k
  BY <1>2
<1>4. Lookup(k) = 0
  BY <1>3, AbsentWhenPassed
<1> DEFINE rec == [key |-> k, epoch |-> e]
<1>5. rec.key = k
  OBVIOUS
<1> HIDE DEF rec
<1>6. buf' = [t \in Slot |-> IF t = s THEN rec ELSE IF t \in s+1..g THEN buf[t-1] ELSE buf[t]]
  BY DEF rec
<1>7. s \in Int /\ g \in Int /\ s <= g /\ buf[g] = Empty /\ g < Slots
  <2>1. g \in s..Slots-1 /\ buf[g] = Empty
    BY DEF Gap, Occupied
  <2> QED
    BY <2>1, Ideals
<1>8. buf[g].key = -1
  BY <1>7 DEF Empty
<1>9. \A t \in s..g-1 : t+1 \in Slot /\ t+1 # s /\ t+1 \in s+1..g /\ (t+1)-1 = t
  BY <1>7, Ideals DEF Slot
<1>10. \A t \in s+1..g : t-1 \in Slot
  BY <1>7, Ideals DEF Slot
<1>11. ASSUME NEW j \in Key, j # k, NEW t \in Slot, buf[t].key = j
       PROVE  \E u \in Slot : buf'[u] = buf[t]
  <2>1. t # g /\ t \in Int
    BY <1>2, <1>8, <1>11, Ideals
  <2>2. CASE t \in s..g-1
    <3>1. buf'[t+1] = buf[(t+1)-1]
      BY <2>2, <1>6, <1>9
    <3>2. buf'[t+1] = buf[t]
      BY <2>2, <3>1, <1>9
    <3> QED
      BY <2>2, <3>2, <1>9
  <2>3. CASE t \notin s..g-1
    <3>1. t # s /\ t \notin s+1..g
      BY <2>1, <2>3, <1>7
    <3>2. buf'[t] = buf[t]
      BY <3>1, <1>6
    <3> QED
      BY <3>2
  <2> QED
    BY <2>2, <2>3
<1>12. ASSUME NEW j \in Key, j # k, NEW t \in Slot, buf'[t].key = j
       PROVE  \E u \in Slot : buf[u].key = j
  <2>1. CASE t = s
    BY <2>1, <1>5, <1>6, <1>12
  <2>2. CASE t # s /\ t \in s+1..g
    BY <2>2, <1>6, <1>10, <1>12
  <2>3. CASE t # s /\ t \notin s+1..g
    BY <2>3, <1>6, <1>12
  <2> QED
    BY <2>1, <2>2, <2>3
<1>13. buf'[s] = [key |-> k, epoch |-> e]
  BY <1>6 DEF rec
<1>14. e > Lookup(k)
  BY <1>4
<1> QED
  BY <1>11, <1>12, <1>13, <1>14, PutsOne

LEMMA ReplacesPuts ==
  ASSUME SliceInv, SliceInv', NEW k \in Here, NEW e \in 1..MaxEpoch, NEW s \in Slot,
         StopsAt(k, s), buf[s].key = k, e > buf[s].epoch,
         buf' = [buf EXCEPT ![s].epoch = e], Returns(k, "ok")
  PROVE  Promised!Accept(k, e)
<1>1. buf \in [Slot -> Record \cup {Empty}] /\ k \in Key /\ k # -1
  BY InvOfBody, Ideals
<1>2. buf[s] \in Record /\ Lookup(k) = buf[s].epoch
  BY <1>1, RecordOrNone, LookupGives DEF EntriesAreFound
<1> DEFINE rec == [buf[s] EXCEPT !.epoch = e]
<1>3. rec = [key |-> k, epoch |-> e] /\ rec.key = k
  <2>1. DOMAIN buf[s] = {"key", "epoch"} /\ buf[s] = [x \in {"key", "epoch"} |-> buf[s][x]]
    BY <1>2 DEF Record
  <2> QED
    BY <2>1
<1>4. buf' = [buf EXCEPT ![s] = rec]
  OBVIOUS
<1> HIDE DEF rec
<1>5. /\ buf'[s] = rec
      /\ \A t \in Slot : t # s => buf'[t] = buf[t]
  BY <1>1, <1>4
<1>6. ASSUME NEW j \in Key, j # k
      PROVE  /\ \A t \in Slot : buf[t].key = j => \E u \in Slot : buf'[u] = buf[t]
             /\ \A t \in Slot : buf'[t].key = j => \E u \in Slot : buf[u].key = j
  BY <1>3, <1>5, <1>6
<1>7. e > Lookup(k)
  BY <1>2
<1>8. buf'[s] = [key |-> k, epoch |-> e]
  BY <1>3, <1>5
<1> QED
  BY <1>6, <1>7, <1>8, PutsOne

\* A call that leaves the records alone leaves the directory alone.
LEMMA SameBook ==
  ASSUME UNCHANGED buf
  PROVE  UNCHANGED Book
BY DEF Book, Lookup, lookup, StopsAt, Occupied

LEMMA InsertServes ==
  ASSUME SliceInv, SliceInv', NEW k \in Key, NEW e \in 1..MaxEpoch, Insert(k, e)
  PROVE  Promised!Accept(k, e) \/ Promised!Refuse(k, e)
<1>1. CASE WrongSlice(k)
  <2>1. UNCHANGED Book
    BY <1>1, SameBook DEF WrongSlice
  <2> QED
    BY <1>1, <2>1 DEF WrongSlice, Promised!Refuse, Promised!Returned, Returns, Book
<1>2. CASE k \in Here /\ NoSlotLeft(k)
  <2>1. UNCHANGED Book /\ Lookup(k) = 0
    BY <1>2, SameBook, AbsentWhenAllSmaller DEF NoSlotLeft
  <2> QED
    BY <1>2, <2>1 DEF NoSlotLeft, Promised!Refuse, Promised!Returned, Returns, Book
<1>3. ASSUME k \in Here, NEW s \in Slot, StopsAt(k, s), Drops(k, e, s)
      PROVE  Promised!Accept(k, e)
  BY <1>3, DropsPuts
<1>4. ASSUME k \in Here, NEW s \in Slot, StopsAt(k, s), Replaces(k, e, s)
      PROVE  Promised!Accept(k, e) \/ Promised!Refuse(k, e)
  <2>1. CASE e > buf[s].epoch /\ buf' = [buf EXCEPT ![s].epoch = e] /\ Returns(k, "ok")
    BY <1>4, <2>1, ReplacesPuts DEF Replaces
  <2>2. CASE e <= buf[s].epoch /\ UNCHANGED buf /\ Returns(k, "stale")
    <3>1. UNCHANGED Book /\ Lookup(k) = buf[s].epoch
      BY <1>4, <2>2, SameBook, LookupGives DEF Replaces, EntriesAreFound
    <3>2. Lookup(k) >= e
      BY <2>2, <3>1
    <3> QED
      BY <1>4, <2>2, <3>1, <3>2 DEF Promised!Refuse, Promised!Returned, Returns, Book
  <2> QED
    BY <1>4, <2>1, <2>2 DEF Replaces
<1>5. ASSUME k \in Here, NEW s \in Slot, StopsAt(k, s), Shifts(k, e, s)
      PROVE  Promised!Accept(k, e) \/ Promised!Refuse(k, e)
  <2>1. CASE Returns(k, "full") /\ UNCHANGED <<buf, fill>>
    <3>1. buf[s].key # k
      BY <1>5, Ideals DEF Shifts
    <3>2. UNCHANGED Book /\ Lookup(k) = 0
      BY <1>5, <2>1, <3>1, SameBook, AbsentWhenPassed
    <3> QED
      BY <1>5, <2>1, <3>2 DEF Promised!Refuse, Promised!Returned, Returns, Book
  <2>2. CASE \E g \in Slot : /\ Gap(s, g) /\ Returns(k, "ok")
                             /\ buf' = [t \in Slot |->
                                  IF t = s THEN [key |-> k, epoch |-> e]
                                  ELSE IF t \in s+1..g THEN buf[t-1] ELSE buf[t]]
    BY <1>5, <2>2, ShiftsPuts DEF Shifts
  <2> QED
    BY <1>5, <2>1, <2>2 DEF Shifts
<1> QED
  BY <1>1, <1>2, <1>3, <1>4, <1>5 DEF Insert

LEMMA RemoveForgets ==
  ASSUME SliceInv, SliceInv', NEW k \in Key, RemoveKey(k)
  PROVE  Promised!Forget(k)
<1>1. CASE /\ \A s \in Slot : ~lookup(k, s)
           /\ Returns(k, "absent")
           /\ UNCHANGED <<buf, fill>>
  <2>1. UNCHANGED Book /\ Lookup(k) = 0
    BY <1>1, SameBook DEF Lookup
  <2>2. Book = [Book EXCEPT ![k] = 0]
    BY <2>1 DEF Book
  <2>3. Book' = [Book EXCEPT ![k] = 0]
    BY <2>1, <2>2
  <2> QED
    BY <1>1, <2>1, <2>3 DEF Promised!Forget, Promised!Returned, Returns, Book
<1>2. ASSUME NEW s \in Slot, NEW e \in Slot, lookup(k, s), ClosesUp(s, e), Returns(k, "removed"),
             buf' = [t \in Slot |->
               IF t \in s..e-1 THEN buf[t+1] ELSE IF t = e THEN Empty ELSE buf[t]]
      PROVE  Promised!Forget(k)
  <2>1. /\ buf \in [Slot -> Record \cup {Empty}] /\ buf[s].key = k
        /\ \A j \in Key : j # -1
    BY <1>2, InvOfBody, SliceAssumption DEF lookup
  <2>2. s \in Int /\ e \in Int /\ s <= e /\ e < Slots
    BY <1>2, Ideals DEF ClosesUp
  <2>3. \A t \in s..e-1 : t+1 \in Slot /\ t+1 # s
    BY <2>2, Ideals DEF Slot
  <2>4. \A t \in s+1..e : t-1 \in Slot /\ t-1 \in s..e-1 /\ (t-1)+1 = t
    BY <2>2, Ideals DEF Slot
  <2>5. buf[s] # Empty /\ buf[s].epoch \in 1..MaxEpoch
    <3>1. buf[s] # Empty
      BY <2>1 DEF Empty
    <3> QED
      BY <3>1, <2>1, RecordOrNone
  <2>6. Lookup(k) # 0
    BY <2>1, <2>5, LookupGives DEF EntriesAreFound
  <2>7. Empty.key = -1
    BY DEF Empty
  <2>8. ASSUME NEW t \in Slot, buf'[t] # Empty
        PROVE  \E u \in Slot : u # s /\ buf'[t] = buf[u]
    <3>1. CASE t \in s..e-1
      BY <3>1, <1>2, <2>3
    <3>2. CASE t \notin s..e-1 /\ t # e
      <4>1. t # s
        BY <3>2, <2>2
      <4>2. buf'[t] = buf[t]
        BY <3>2, <1>2
      <4> QED
        BY <4>1, <4>2
    <3>3. CASE t \notin s..e-1 /\ t = e
      <4>1. buf'[t] = Empty
        BY <3>3, <1>2
      <4> QED
        BY <4>1, <2>8
    <3> QED
      BY <3>1, <3>2, <3>3
  <2>9. ASSUME NEW j \in Key, NEW t \in Slot, buf'[t].key = j
        PROVE  \E u \in Slot : u # s /\ buf[u].key = j
    <3>1. buf'[t] # Empty
      BY <2>1, <2>7, <2>9
    <3> QED
      BY <2>8, <2>9, <3>1
  <2>10. \A t \in Slot : buf'[t].key # k
    <3> SUFFICES ASSUME NEW t \in Slot, buf'[t].key = k PROVE FALSE
      OBVIOUS
    <3>1. \E u \in Slot : u # s /\ buf[u].key = k
      BY <2>9
    <3> QED
      BY <3>1, <2>1, Finds
  <2>11. Lookup(k)' = 0
    BY <2>10, LookupGivesNext DEF EntriesAreFound
  <2>12. ASSUME NEW j \in Key, j # k PROVE Lookup(j)' = Lookup(j)
    <3>1. ASSUME NEW t \in Slot, buf[t].key = j
          PROVE  \E u \in Slot : buf'[u].key = j /\ buf'[u].epoch = buf[t].epoch
      <4>1. t # s /\ t \in Int
        BY <2>1, <2>12, <3>1, Ideals
      <4>2. CASE t \in s+1..e
        <5>1. buf'[t-1] = buf[(t-1)+1]
          BY <4>2, <2>4, <1>2
        <5>2. buf'[t-1] = buf[t]
          BY <5>1, <4>2, <2>4
        <5> QED
          BY <5>2, <4>2, <2>4, <3>1
      <4>3. CASE t \notin s+1..e
        <5>1. t \notin s..e-1 /\ t # e
          BY <4>1, <4>3, <2>2
        <5>2. buf'[t] = buf[t]
          BY <5>1, <1>2
        <5> QED
          BY <5>2, <3>1
      <4> QED
        BY <4>2, <4>3
    <3>2. \A t \in Slot : buf'[t].key = j => \E u \in Slot : buf[u].key = j
      BY <2>9
    <3> QED
      BY <3>1, <3>2, SameEntry
  <2>13. Book' = [Book EXCEPT ![k] = 0]
    BY <2>11, <2>12 DEF Book
  <2> QED
    BY <1>2, <2>6, <2>13 DEF Promised!Forget, Promised!Returned, Returns, Book
<1> QED
  BY <1>1, <1>2 DEF RemoveKey

LEMMA AdoptReplaces ==
  ASSUME SliceInv', NEW body \in Offered, Adopt(body)
  PROVE  Promised!Replace
<1>1. Book' \in [Key -> 0..MaxEpoch]
  BY LookupGivesNext DEF Book, EntriesAreFound
<1> QED
  BY <1>1 DEF Adopt, Promised!Replace, Promised!Returned, Returns, Book

\* The slice implements the directory: an insert stores a strictly newer record
\* or is refused for the reason it gives, a removal takes out one record and no
\* other, and what is looked up is what was stored.
THEOREM SliceIsADirectory == SliceSpec => KeepsItsPromise
<1>1. SliceInit => Promised!DirectoryInit
  <2> SUFFICES ASSUME SliceInit PROVE Promised!DirectoryInit
    OBVIOUS
  <2>1. \A k \in Key : \A s \in Slot : buf[s].key # k
    BY SliceAssumption DEF SliceInit, Empty
  <2>2. Book = [k \in Key |-> 0]
    BY <2>1, SliceInvInit, LookupGives DEF EntriesAreFound, Book
  <2> QED
    BY <2>2 DEF SliceInit, Promised!DirectoryInit, Promised!Returned, Book
<1>2. SliceInv /\ SliceInv' /\ [SliceNext]_sliceVars => [Promised!DirectoryNext]_<<Book, outcome>>
  <2> SUFFICES ASSUME SliceInv, SliceInv', [SliceNext]_sliceVars
               PROVE  [Promised!DirectoryNext]_<<Book, outcome>>
    OBVIOUS
  <2>1. ASSUME NEW k \in Key, NEW e \in 1..MaxEpoch, Insert(k, e)
        PROVE  Promised!DirectoryNext
    BY <2>1, InsertServes DEF Promised!DirectoryNext
  <2>2. ASSUME NEW k \in Key, RemoveKey(k) PROVE Promised!DirectoryNext
    BY <2>2, RemoveForgets DEF Promised!DirectoryNext
  <2>3. ASSUME NEW body \in Offered, Adopt(body) PROVE Promised!DirectoryNext
    BY <2>3, AdoptReplaces DEF Promised!DirectoryNext
  <2>4. CASE UNCHANGED sliceVars
    BY <2>4, SameBook DEF sliceVars
  <2> QED
    BY <2>1, <2>2, <2>3, <2>4 DEF SliceNext
<1>3. SliceInv /\ SliceInv' /\ [SliceNext]_sliceVars => [Promised!DirectoryNext]_<<[k \in Key |-> Lookup(k)], outcome>>
  BY <1>2 DEF Book
<1> QED
  BY <1>1, <1>3, SliceInvInit, SliceInvStep, PTL DEF SliceSpec, KeepsItsPromise, Promised!Directory

-----------------------------------------------------------------------------
(* The layout has no history. *)

\* Some slots, being numbers, have a first one.
LEMMA FirstSlot ==
  ASSUME NEW D \in SUBSET Nat, D # {}
  PROVE  \E r \in D : \A t \in D : r <= t
<1>1. OpToRel(<, Nat) = {p \in Nat \X Nat : p[1] < p[2]}
  BY DEF OpToRel
<1>2. IsWellFoundedOn({p \in Nat \X Nat : p[1] < p[2]}, Nat)
  BY <1>1, NatLessThanWellFounded, Zenon
<1>3. PICK r \in D : \A t \in D : ~(<<t, r>> \in {p \in Nat \X Nat : p[1] < p[2]})
  BY <1>2, WFMin
<1>4. \A t, u \in Nat : t < u => <<t, u>> \in {p \in Nat \X Nat : p[1] < p[2]}
  OBVIOUS
<1>5. \A t \in D : ~(t < r)
  BY <1>3, <1>4
<1> QED
  BY <1>5

\* Keys between two stored ones are as many as the taken slots between them.
LEMMA KeysBetween ==
  ASSUME SliceInv, NEW p \in Slot, NEW s \in Slot, p <= s, Occupied(p), Occupied(s)
  PROVE  LET between == {m \in Stored : buf[p].key < m /\ m <= buf[s].key}
         IN  /\ Cardinality(between) \in Nat
             /\ Cardinality(between) <= s - p
             /\ (\A t \in p..s : Occupied(t)) => Cardinality(between) = s - p
<1> DEFINE f == KeysOf(buf)
<1> DEFINE M == {m \in Stored : f[p] < m /\ m <= f[s]}
<1> DEFINE P == {t \in p+1..s : f[t] # -1}
<1>1. /\ Laid(f)
      /\ \A t \in Slot : (Occupied(t) <=> f[t] # -1) /\ f[t] = buf[t].key
  BY InvOfBody
<1>2. Stored = {f[t] : t \in {u \in Slot : f[u] # -1}}
  BY <1>1 DEF Stored
<1> HIDE DEF f
<1>3. /\ f[p] # -1 /\ f[s] # -1 /\ p \in Int /\ s \in Int
      /\ \A t \in p+1..s : t \in Slot
      /\ \A t \in Slot : f[t] \in Int
  <2>1. p \in Int /\ s \in Int /\ f[p] # -1 /\ f[s] # -1
    BY <1>1, Ideals
  <2>2. \A t \in p+1..s : t \in Slot
    BY <2>1, Ideals DEF Slot
  <2>3. \A t \in Slot : f[t] \in Int
    BY <1>1, Ideals DEF Laid
  <2> QED
    BY <2>1, <2>2, <2>3
<1>4. \A t \in P : f[t] \in M
  <2> SUFFICES ASSUME NEW t \in p+1..s, f[t] # -1 PROVE f[t] \in M
    OBVIOUS
  <2>1. t \in Slot /\ p < t /\ (t = s \/ t < s)
    BY <1>3
  <2>2. f[p] < f[t] /\ (t < s => f[t] < f[s])
    BY <2>1, <1>1, <1>3 DEF Laid, Ordered
  <2>3. f[t] <= f[s]
    BY <2>1, <2>2, <1>3
  <2>4. f[t] \in Stored
    BY <2>1, <1>2
  <2> QED
    BY <2>2, <2>3, <2>4
<1>5. \A m \in M : \E t \in P : f[t] = m
  <2> SUFFICES ASSUME NEW m \in Stored, f[p] < m, m <= f[s] PROVE \E t \in P : f[t] = m
    OBVIOUS
  <2>1. PICK t \in Slot : f[t] # -1 /\ m = f[t]
    BY <1>2
  <2>2. t \in Int
    BY Ideals
  <2>3. p < t
    <3>1. t < p => f[t] < f[p]
      BY <2>1, <1>1, <1>3 DEF Laid, Ordered
    <3> QED
      BY <3>1, <2>1, <2>2, <1>3
  <2>4. t <= s
    <3>1. s < t => f[s] < f[t]
      BY <2>1, <1>1, <1>3 DEF Laid, Ordered
    <3> QED
      BY <3>1, <2>1, <2>2, <1>3
  <2> QED
    BY <2>1, <2>2, <2>3, <2>4, <1>3
<1>6. \A t, u \in P : f[t] = f[u] => t = u
  <2> SUFFICES ASSUME NEW t \in P, NEW u \in P, f[t] = f[u] PROVE t = u
    OBVIOUS
  <2>1. t \in Slot /\ u \in Slot /\ f[t] # -1 /\ f[u] # -1
    BY <1>3
  <2>2. ~(t < u) /\ ~(u < t)
    BY <2>1, <1>1, <1>3 DEF Laid, Ordered
  <2> QED
    BY <2>1, <2>2, Ideals
<1>7. IsFiniteSet(p+1..s) /\ Cardinality(p+1..s) = s - p
  <2>1. p+1 \in Int /\ s \in Int
    BY <1>3
  <2>2. IsFiniteSet(p+1..s) /\ Cardinality(p+1..s) = IF p+1 > s THEN 0 ELSE s-(p+1)+1
    BY <2>1, FS_Interval
  <2> QED
    BY <2>2, <1>3
<1>8. /\ IsFiniteSet(P) /\ Cardinality(P) <= s - p /\ Cardinality(P) \in Nat
      /\ (\A t \in p..s : f[t] # -1) => Cardinality(P) = s - p
  <2>1. P \in SUBSET (p+1..s)
    OBVIOUS
  <2>2. (\A t \in p..s : f[t] # -1) => P = p+1..s
    BY <1>3
  <2> HIDE DEF P
  <2>3. IsFiniteSet(P) /\ Cardinality(P) <= Cardinality(p+1..s)
    BY <2>1, <1>7, FS_Subset
  <2>4. Cardinality(P) \in Nat
    BY <2>3, FS_CardinalityType
  <2> QED
    BY <2>2, <2>3, <2>4, <1>7
<1>9. Cardinality(M) = Cardinality(P)
  <2> HIDE DEF M, P
  <2> DEFINE G == [t \in P |-> f[t]]
  <2>1. G \in Bijection(P, M)
    <3>1. G \in [P -> M] /\ \A t, u \in P : G[t] = G[u] => t = u
      BY <1>4, <1>6
    <3>2. \A m \in M : \E t \in P : G[t] = m
      BY <1>5
    <3> HIDE DEF G
    <3> QED
      BY <3>1, <3>2, Fun_IsBij
  <2>2. ExistsBijection(P, M)
    BY <2>1 DEF ExistsBijection
  <2> QED
    BY <2>2, <1>8, FS_Bijection
<1>10. \A t \in p..s : t \in Slot
  BY <1>3, Ideals DEF Slot
<1> HIDE DEF M, P
<1>11. M = {m \in Stored : buf[p].key < m /\ m <= buf[s].key}
  BY <1>1 DEF M
<1> QED
  BY <1>1, <1>8, <1>9, <1>10, <1>11

\* The slots a record's run has taken before it begin at one that is at home.
LEMMA RunBegins ==
  ASSUME SliceInv, NEW s \in Slot, Occupied(s)
  PROVE  \E r \in Slot : r <= s /\ (\A t \in r..s : Occupied(t)) /\ slot_of[buf[r].key] = r
<1> DEFINE f == KeysOf(buf)
<1>1. /\ Laid(f)
      /\ \A t \in Slot : (Occupied(t) <=> f[t] # -1) /\ f[t] = buf[t].key
  BY InvOfBody
<1> HIDE DEF f
<1> DEFINE D == {r \in 0..s : \A t \in r..s : f[t] # -1}
<1>2. s \in Int /\ 0 <= s /\ s < Slots
  BY Ideals
<1>3. s \in D /\ D \in SUBSET Nat
  BY <1>1, <1>2
<1>4. PICK r \in D : \A t \in D : r <= t
  <2> HIDE DEF D
  <2> QED
    BY <1>3, FirstSlot
<1>5. r \in Int /\ 0 <= r /\ r <= s /\ r \in Slot /\ f[r] # -1 /\ \A t \in r..s : f[t] # -1 /\ t \in Slot
  BY <1>2, Ideals DEF Slot
<1>6. slot_of[f[r]] <= r /\ slot_of[f[r]] \in Slot
  BY <1>1, <1>5, Ideals DEF Laid, Packed
<1>7. r - 1 < slot_of[f[r]]
  <2>1. CASE r = 0
    BY <2>1, <1>6, Ideals
  <2>2. CASE r > 0
    <3>1. r-1 \in Slot /\ r-1 < r
      BY <2>2, <1>5, Ideals DEF Slot
    <3>2. f[r-1] = -1
      <4> SUFFICES ASSUME f[r-1] # -1 PROVE FALSE
        OBVIOUS
      <4>1. \A t \in r-1..s : t = r-1 \/ t \in r..s
        BY <1>2, <1>5
      <4>2. r-1 \in D
        BY <4>1, <2>2, <1>2, <1>5
      <4> HIDE DEF D
      <4> QED
        BY <4>2, <1>4, <1>5
    <3> QED
      BY <3>1, <3>2, <1>1, <1>5, AtHomeBeyondAGap
  <2> QED
    BY <2>1, <2>2, <1>5
<1>8. slot_of[f[r]] = r
  <2>1. slot_of[f[r]] \in Int
    BY <1>6, Ideals
  <2> QED
    BY <2>1, <1>5, <1>6, <1>7
<1> QED
  BY <1>1, <1>5, <1>8

\* Where a record sits depends on what is stored and on nothing else: not on the
\* order of the inserts, nor on what was there meanwhile and was removed.
THEOREM LayoutIsOfWhatIsStored == SliceSpec => []LayoutHasNoHistory
<1>1. SliceInv => LayoutHasNoHistory
  <2> SUFFICES ASSUME SliceInv, NEW s \in Slot, Occupied(s) PROVE FilledInOrder(buf[s].key, s)
    BY DEF LayoutHasNoHistory
  <2> DEFINE k == buf[s].key
  <2> DEFINE between(j) == {m \in Stored : j < m /\ m <= k}
  <2> DEFINE reach(j) == slot_of[j] + Cardinality(between(j))
  <2> DEFINE f == KeysOf(buf)
  <2>1. /\ Laid(f) /\ f[s] = k /\ s \in Int
        /\ \A t \in Slot : (Occupied(t) <=> f[t] # -1) /\ f[t] = buf[t].key
    BY InvOfBody, Ideals
  <2>2. \A t \in Slot : Occupied(t) => buf[t].key \in Stored
    BY DEF Stored
  <2>3. \E j \in Stored : j <= k /\ s = reach(j)
    <3>1. PICK r \in Slot : r <= s /\ (\A t \in r..s : Occupied(t)) /\ slot_of[buf[r].key] = r
      BY RunBegins
    <3>2. r \in Int /\ r \in r..s /\ Occupied(r)
      BY <3>1, <2>1, Ideals
    <3>3. Cardinality(between(buf[r].key)) = s - r
      BY <3>1, <3>2, KeysBetween
    <3>4. s = reach(buf[r].key)
      BY <3>1, <3>2, <3>3, <2>1
    <3>5. buf[r].key <= k
      <4>1. f[r] # -1 /\ f[s] # -1 /\ f[r] \in Int /\ f[s] \in Int
        BY <2>1, <3>2, Ideals DEF Laid
      <4>2. r < s => f[r] < f[s]
        BY <4>1, <2>1 DEF Laid, Ordered
      <4>3. r < s \/ r = s
        BY <3>1, <3>2, <2>1
      <4>4. f[r] = buf[r].key /\ f[s] = buf[s].key
        BY <3>1, <2>1
      <4> HIDE DEF f
      <4>5. f[r] <= f[s]
        BY <4>1, <4>2, <4>3
      <4> QED
        BY <4>4, <4>5
    <3> QED
      BY <3>2, <3>4, <3>5, <2>2
  <2>4. ASSUME NEW j \in Stored, j <= k PROVE reach(j) <= s
    <3>1. PICK p \in Slot : Occupied(p) /\ j = buf[p].key
      BY DEF Stored
    <3> HIDE DEF f
    <3>2. f[p] = j /\ f[p] # -1 /\ f[s] # -1 /\ p \in Int /\ f[p] \in Here /\ f[s] \in Here
      BY <3>1, <2>1, Ideals DEF Laid
    <3>3. s < p => f[s] < f[p]
      BY <3>2, <2>1 DEF Laid, Ordered
    <3>4. p <= s
      <4>1. f[p] \in Int /\ f[s] \in Int
        BY <3>2, Ideals
      <4> QED
        BY <4>1, <3>2, <3>3, <2>1, <2>4
    <3>5. Cardinality(between(j)) \in Nat /\ Cardinality(between(j)) <= s - p
      BY <3>1, <3>4, KeysBetween
    <3>6. slot_of[j] <= p /\ slot_of[j] \in Int
      BY <3>2, <2>1, Ideals DEF Laid, Packed
    <3> HIDE DEF between
    <3> QED
      BY <3>2, <3>5, <3>6, <2>1
  <2> QED
    BY <2>3, <2>4 DEF FilledInOrder
<1> QED
  BY <1>1, SliceInvInit, SliceInvStep, PTL DEF SliceSpec

=============================================================================

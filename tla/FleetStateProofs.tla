-------------------------- MODULE FleetStateProofs --------------------------
(***************************************************************************)
(* The theorems of FleetState, for every set of devices, friends, settings *)
(* and values: each layer is merged by a strict total order on its entries,*)
(* so the merge of states is a semilattice; the document reads back as the *)
(* state it was made from; no update is lost; what a device of this build  *)
(* had the chance to see and cannot read, it leaves stored.                *)
(***************************************************************************)
EXTENDS FleetState, WellFoundedInduction, TLAPS

-----------------------------------------------------------------------------
(* Merging by a strict total order. *)

\* A layer, said without the set of all layers.
Layered(f, K, E) ==
  f = [k \in DOMAIN f |-> f[k]] /\ DOMAIN f \subseteq K /\ \A k \in DOMAIN f : f[k] \in E

\* R orders any two different entries of E.
StrictOrder(R, E) ==
  \A x, y \in E :
    /\ <<x, y>> \in R => <<y, x>> \notin R
    /\ x # y => <<x, y>> \in R \/ <<y, x>> \in R
    /\ \A z \in E : <<x, y>> \in R /\ <<y, z>> \in R => <<x, z>> \in R

\* The winner of two entries, and of two layers.
Winner(R, x, y) == IF <<y, x>> \in R THEN y ELSE x
Merged(R, a, b) ==
  [k \in DOMAIN a \cup DOMAIN b |->
     IF k \in DOMAIN a /\ k \in DOMAIN b THEN Winner(R, a[k], b[k])
     ELSE IF k \in DOMAIN a THEN a[k] ELSE b[k]]

\* The two ways to say what a layer is agree.
LEMMA LayerIs ==
  ASSUME NEW f, NEW K, NEW E
  PROVE  f \in Layer(K, E) <=> Layered(f, K, E)
BY DEF Layer, Layered

\* Choosing the greater of two entries is a semilattice operation.
LEMMA WinnerAlgebra ==
  ASSUME NEW R, NEW E, StrictOrder(R, E), NEW x \in E, NEW y \in E, NEW z \in E
  PROVE  /\ Winner(R, x, y) \in E
         /\ Winner(R, x, x) = x
         /\ Winner(R, x, y) = Winner(R, y, x)
         /\ Winner(R, Winner(R, x, y), z) = Winner(R, x, Winner(R, y, z))
BY DEF StrictOrder, Winner

\* Merging two layers gives a layer.
LEMMA MergedType ==
  ASSUME NEW R, NEW K, NEW E, StrictOrder(R, E),
         NEW a \in Layer(K, E), NEW b \in Layer(K, E)
  PROVE  Merged(R, a, b) \in Layer(K, E)
<1>1. Layered(a, K, E) /\ Layered(b, K, E)
  BY LayerIs
<1>2. Layered(Merged(R, a, b), K, E)
  BY <1>1 DEF Layered, Merged, Winner
<1> QED
  BY <1>2, LayerIs

\* Merging layers is idempotent, commutative and associative, because choosing
\* between two entries is.
LEMMA MergedAlgebra ==
  ASSUME NEW R, NEW K, NEW E, StrictOrder(R, E),
         NEW a \in Layer(K, E), NEW b \in Layer(K, E), NEW c \in Layer(K, E)
  PROVE  /\ Merged(R, a, a) = a
         /\ Merged(R, a, b) = Merged(R, b, a)
         /\ Merged(R, Merged(R, a, b), c) = Merged(R, a, Merged(R, b, c))
<1>1. Layered(a, K, E) /\ Layered(b, K, E) /\ Layered(c, K, E)
  BY LayerIs
<1>2. Merged(R, a, a) = a
  BY <1>1 DEF Merged, Layered, Winner
<1>3. Merged(R, a, b) = Merged(R, b, a)
  <2>1. \A k \in DOMAIN a \cup DOMAIN b : Merged(R, a, b)[k] = Merged(R, b, a)[k]
    BY <1>1, WinnerAlgebra DEF Merged, Layered
  <2> QED
    BY <2>1 DEF Merged
<1>4. Merged(R, Merged(R, a, b), c) = Merged(R, a, Merged(R, b, c))
  <2> DEFINE ab == Merged(R, a, b)
             bc == Merged(R, b, c)
  <2>1. DOMAIN ab = DOMAIN a \cup DOMAIN b /\ DOMAIN bc = DOMAIN b \cup DOMAIN c
    BY DEF Merged
  <2>2. \A k \in DOMAIN a \cup DOMAIN b \cup DOMAIN c :
          Merged(R, ab, c)[k] = Merged(R, a, bc)[k]
    <3> TAKE k \in DOMAIN a \cup DOMAIN b \cup DOMAIN c
    <3>1. /\ k \in DOMAIN a /\ k \in DOMAIN b => ab[k] = Winner(R, a[k], b[k])
          /\ k \in DOMAIN a /\ k \notin DOMAIN b => ab[k] = a[k]
          /\ k \notin DOMAIN a /\ k \in DOMAIN b => ab[k] = b[k]
      BY DEF Merged
    <3>2. /\ k \in DOMAIN b /\ k \in DOMAIN c => bc[k] = Winner(R, b[k], c[k])
          /\ k \in DOMAIN b /\ k \notin DOMAIN c => bc[k] = b[k]
          /\ k \notin DOMAIN b /\ k \in DOMAIN c => bc[k] = c[k]
      BY DEF Merged
    <3>3. Merged(R, ab, c)[k] =
            IF k \in DOMAIN ab /\ k \in DOMAIN c THEN Winner(R, ab[k], c[k])
            ELSE IF k \in DOMAIN ab THEN ab[k] ELSE c[k]
      BY <2>1 DEF Merged
    <3>4. Merged(R, a, bc)[k] =
            IF k \in DOMAIN a /\ k \in DOMAIN bc THEN Winner(R, a[k], bc[k])
            ELSE IF k \in DOMAIN a THEN a[k] ELSE bc[k]
      BY <2>1 DEF Merged
    <3>5. k \in DOMAIN a /\ k \in DOMAIN b /\ k \in DOMAIN c =>
            Winner(R, Winner(R, a[k], b[k]), c[k]) = Winner(R, a[k], Winner(R, b[k], c[k]))
      BY <1>1, WinnerAlgebra DEF Layered
    <3> HIDE DEF ab, bc
    <3> QED
      BY <2>1, <3>1, <3>2, <3>3, <3>4, <3>5
  <2>3. /\ DOMAIN Merged(R, ab, c) = DOMAIN a \cup DOMAIN b \cup DOMAIN c
        /\ DOMAIN Merged(R, a, bc) = DOMAIN a \cup DOMAIN b \cup DOMAIN c
    BY <2>1 DEF Merged
  <2> QED
    BY <2>2, <2>3 DEF Merged
<1> QED
  BY <1>2, <1>3, <1>4

-----------------------------------------------------------------------------
(* The orders of the three layers. *)

\* What the code compares, as relations.
FriendOrder == {p \in Entry \X Entry : NewerFriend(p[1], p[2])}
GlobalOrder == {p \in GlobalEntry \X GlobalEntry : NewerGlobal(p[1], p[2])}
MapOrder == {p \in OwnMap \X OwnMap : NewerMap(p[1], p[2])}

\* fstate.rs leaves no two different roster entries undecided.
LEMMA FriendsAreOrdered == StrictOrder(FriendOrder, Entry)
<1>1. ASSUME NEW x \in Entry, NEW y \in Entry
      PROVE  /\ NewerFriend(x, y) => ~NewerFriend(y, x)
             /\ x # y => NewerFriend(x, y) \/ NewerFriend(y, x)
             /\ \A z \in Entry : NewerFriend(x, y) /\ NewerFriend(y, z) => NewerFriend(x, z)
  <2>1. \A e \in Entry : e.updated \in Nat /\ e.trust \in Nat
    <3> TAKE e \in Entry
    <3>1. e.updated \in 0..MaxTime /\ e.trust \in Trust
      BY DEF Entry
    <3>2. e.updated \in Nat
      BY <3>1, StateAssumption
    <3>3. e.trust \in Nat
      BY <3>1, StateAssumption
    <3> QED
      BY <3>2, <3>3
  <2>2. NewerFriend(x, y) => ~NewerFriend(y, x)
    BY <2>1 DEF NewerFriend, RosterCanonGreater
  <2>3. x # y => NewerFriend(x, y) \/ NewerFriend(y, x)
    BY <2>1 DEF NewerFriend, RosterCanonGreater, Entry
  <2>4. ASSUME NEW z \in Entry, NewerFriend(x, y), NewerFriend(y, z) PROVE NewerFriend(x, z)
    BY <2>1, <2>4 DEF NewerFriend, RosterCanonGreater
  <2> QED
    BY <2>2, <2>3, <2>4
<1>2. \A x, y \in Entry : <<x, y>> \in FriendOrder <=> NewerFriend(x, y)
  BY DEF FriendOrder
<1> QED
  BY <1>1, <1>2 DEF StrictOrder

\* Nor two different entries of a fleet setting.
LEMMA GlobalsAreOrdered == StrictOrder(GlobalOrder, GlobalEntry)
<1>1. ASSUME NEW x \in GlobalEntry, NEW y \in GlobalEntry
      PROVE  /\ NewerGlobal(x, y) => ~NewerGlobal(y, x)
             /\ x # y => NewerGlobal(x, y) \/ NewerGlobal(y, x)
             /\ \A z \in GlobalEntry : NewerGlobal(x, y) /\ NewerGlobal(y, z) => NewerGlobal(x, z)
  <2>1. \A e \in GlobalEntry : e.updated \in Nat /\ e.value \in Nat
    <3> TAKE e \in GlobalEntry
    <3>1. e.updated \in 0..MaxTime /\ e.value \in Value
      BY DEF GlobalEntry
    <3>2. e.updated \in Nat
      BY <3>1, StateAssumption
    <3>3. e.value \in Nat
      BY <3>1, StateAssumption
    <3> QED
      BY <3>2, <3>3
  <2>2. NewerGlobal(x, y) => ~NewerGlobal(y, x)
    BY <2>1 DEF NewerGlobal
  <2>3. x # y => NewerGlobal(x, y) \/ NewerGlobal(y, x)
    BY <2>1 DEF NewerGlobal, GlobalEntry
  <2>4. ASSUME NEW z \in GlobalEntry, NewerGlobal(x, y), NewerGlobal(y, z) PROVE NewerGlobal(x, z)
    BY <2>1, <2>4 DEF NewerGlobal
  <2> QED
    BY <2>2, <2>3, <2>4
<1>2. \A x, y \in GlobalEntry : <<x, y>> \in GlobalOrder <=> NewerGlobal(x, y)
  BY DEF GlobalOrder
<1> QED
  BY <1>1, <1>2 DEF StrictOrder

\* Some keys, being numbers, have a least one.
LEMMA LeastNatural ==
  ASSUME NEW D \in SUBSET Nat, D # {}
  PROVE  \E k \in D : \A j \in D : k <= j
<1>1. OpToRel(<, Nat) = {p \in Nat \X Nat : p[1] < p[2]}
  BY DEF OpToRel
<1>2. IsWellFoundedOn({p \in Nat \X Nat : p[1] < p[2]}, Nat)
  BY <1>1, NatLessThanWellFounded, Zenon
<1>3. PICK k \in D : \A j \in D : ~(<<j, k>> \in {p \in Nat \X Nat : p[1] < p[2]})
  BY <1>2, WFMin
<1>4. \A j, m \in Nat : j < m => <<j, m>> \in {p \in Nat \X Nat : p[1] < p[2]}
  OBVIOUS
<1>5. \A j \in D : ~(j < k)
  BY <1>3, <1>4
<1> QED
  BY <1>5

\* Two maps in the order of their lists: the first key they differ on decides.
LEMMA MapsDifferFirst ==
  ASSUME NEW x \in MapContents, NEW y \in MapContents, x # y
  PROVE  \E k \in Differing(x, y) : \A j \in Differing(x, y) : k <= j
<1>1. /\ x = [k \in DOMAIN x |-> x[k]] /\ DOMAIN x \subseteq Nat
      /\ y = [k \in DOMAIN y |-> y[k]] /\ DOMAIN y \subseteq Nat
  BY StateAssumption DEF MapContents, Layer
<1>2. Differing(x, y) # {}
  BY <1>1 DEF Differing
<1>3. Differing(x, y) \subseteq Nat
  BY <1>1 DEF Differing
<1> QED
  BY <1>2, <1>3, LeastNatural

\* Comparing two maps by their lists is a strict total order: for two steps the
\* smaller of the two deciding keys decides.
LEMMA CanonOrder ==
  ASSUME NEW x \in MapContents, NEW y \in MapContents
  PROVE  /\ MapCanonGreater(x, y) => ~MapCanonGreater(y, x)
         /\ x # y => MapCanonGreater(x, y) \/ MapCanonGreater(y, x)
         /\ \A z \in MapContents :
              MapCanonGreater(x, y) /\ MapCanonGreater(y, z) => MapCanonGreater(x, z)
<1> DEFINE ok(f) == /\ f = [k \in DOMAIN f |-> f[k]] /\ DOMAIN f \subseteq Nat
                    /\ \A k \in DOMAIN f : f[k] \in Nat
<1>1. \A f \in MapContents : ok(f)
  BY StateAssumption DEF MapContents, Layer
<1>2. MapCanonGreater(x, y) => ~MapCanonGreater(y, x)
  BY <1>1 DEF MapCanonGreater, Differing
<1>3. ASSUME x # y PROVE MapCanonGreater(x, y) \/ MapCanonGreater(y, x)
  <2>1. PICK k \in Differing(x, y) : \A j \in Differing(x, y) : k <= j
    BY <1>3, MapsDifferFirst
  <2>2. Differing(y, x) = Differing(x, y)
    BY DEF Differing
  <2>3. CASE k \in DOMAIN x /\ k \in DOMAIN y
    BY <1>1, <2>1, <2>2, <2>3 DEF MapCanonGreater, Differing
  <2>4. CASE k \notin DOMAIN y
    BY <1>1, <2>1, <2>2, <2>4 DEF MapCanonGreater, Differing
  <2>5. CASE k \notin DOMAIN x
    BY <1>1, <2>1, <2>2, <2>5 DEF MapCanonGreater, Differing
  <2> QED
    BY <2>3, <2>4, <2>5
<1>4. ASSUME NEW z \in MapContents, MapCanonGreater(x, y), MapCanonGreater(y, z)
      PROVE  MapCanonGreater(x, z)
  <2>1. PICK k \in Differing(x, y) :
          /\ \A j \in Differing(x, y) : k <= j
          /\ \/ k \in DOMAIN x /\ k \in DOMAIN y /\ x[k] > y[k]
             \/ k \notin DOMAIN y /\ \A j \in DOMAIN y : j < k
             \/ k \notin DOMAIN x /\ \E j \in DOMAIN x : j > k
    BY <1>4 DEF MapCanonGreater
  <2>2. PICK m \in Differing(y, z) :
          /\ \A j \in Differing(y, z) : m <= j
          /\ \/ m \in DOMAIN y /\ m \in DOMAIN z /\ y[m] > z[m]
             \/ m \notin DOMAIN z /\ \A j \in DOMAIN z : j < m
             \/ m \notin DOMAIN y /\ \E j \in DOMAIN y : j > m
    BY <1>4 DEF MapCanonGreater
  <2>3. k \in Nat /\ m \in Nat
    BY <1>1 DEF Differing
  <2>4. CASE k < m
    BY <1>1, <2>1, <2>2, <2>3, <2>4 DEF MapCanonGreater, Differing
  <2>5. CASE m < k
    BY <1>1, <2>1, <2>2, <2>3, <2>5 DEF MapCanonGreater, Differing
  <2>6. CASE m = k
    <3>1. x # z
      BY <1>1, <2>1, <2>2, <2>6 DEF Differing
    <3>2. PICK n \in Differing(x, z) : \A j \in Differing(x, z) : n <= j
      BY <3>1, MapsDifferFirst
    <3> QED
      BY <1>1, <2>1, <2>2, <2>6, <3>2 DEF MapCanonGreater, Differing
  <2> QED
    BY <2>3, <2>4, <2>5, <2>6
<1> QED
  BY <1>2, <1>3, <1>4

\* Nor two different maps of a device.
LEMMA MapsAreOrdered == StrictOrder(MapOrder, OwnMap)
<1>1. ASSUME NEW x \in OwnMap, NEW y \in OwnMap
      PROVE  /\ NewerMap(x, y) => ~NewerMap(y, x)
             /\ x # y => NewerMap(x, y) \/ NewerMap(y, x)
             /\ \A z \in OwnMap : NewerMap(x, y) /\ NewerMap(y, z) => NewerMap(x, z)
  <2>1. \A m \in OwnMap : m.updated \in 0..MaxTime /\ m.entries \in MapContents
    BY DEF OwnMap
  <2>2. \A m \in OwnMap : m.updated \in Nat
    BY <2>1, StateAssumption
  <2>3. NewerMap(x, y) => ~NewerMap(y, x)
    BY <2>1, <2>2, CanonOrder DEF NewerMap
  <2>4. x # y => NewerMap(x, y) \/ NewerMap(y, x)
    <3>1. x # y => x.updated # y.updated \/ x.entries # y.entries
      BY DEF OwnMap
    <3> QED
      BY <2>1, <2>2, <3>1, CanonOrder DEF NewerMap
  <2>5. ASSUME NEW z \in OwnMap, NewerMap(x, y), NewerMap(y, z) PROVE NewerMap(x, z)
    BY <2>1, <2>2, <2>5, CanonOrder DEF NewerMap
  <2> QED
    BY <2>3, <2>4, <2>5
<1>2. \A x, y \in OwnMap : <<x, y>> \in MapOrder <=> NewerMap(x, y)
  BY DEF MapOrder
<1> QED
  BY <1>1, <1>2 DEF StrictOrder

\* Each merge of the code is the merge by its order.
LEMMA RostersMerge ==
  ASSUME NEW a \in Layer(Friend, Entry), NEW b \in Layer(Friend, Entry)
  PROVE  merge_rosters(a, b) = Merged(FriendOrder, a, b)
<1>1. Layered(a, Friend, Entry) /\ Layered(b, Friend, Entry)
  BY LayerIs
<1>2. \A k \in DOMAIN a \cap DOMAIN b :
        <<b[k], a[k]>> \in FriendOrder <=> NewerFriend(b[k], a[k])
  BY <1>1 DEF Layered, FriendOrder
<1> QED
  BY <1>2 DEF merge_rosters, merge_by_key, Merged, Winner

\* The same of the fleet settings.
LEMMA GlobalsMerge ==
  ASSUME NEW a \in Layer(Setting, GlobalEntry), NEW b \in Layer(Setting, GlobalEntry)
  PROVE  merge_global_settings(a, b) = Merged(GlobalOrder, a, b)
<1>1. Layered(a, Setting, GlobalEntry) /\ Layered(b, Setting, GlobalEntry)
  BY LayerIs
<1>2. \A k \in DOMAIN a \cap DOMAIN b :
        <<b[k], a[k]>> \in GlobalOrder <=> NewerGlobal(b[k], a[k])
  BY <1>1 DEF Layered, GlobalOrder
<1> QED
  BY <1>2 DEF merge_global_settings, merge_by_key, Merged, Winner

\* The same of the devices' maps.
LEMMA MapsMerge ==
  ASSUME NEW a \in Layer(Device, OwnMap), NEW b \in Layer(Device, OwnMap)
  PROVE  merge_device_settings(a, b) = Merged(MapOrder, a, b)
<1>1. Layered(a, Device, OwnMap) /\ Layered(b, Device, OwnMap)
  BY LayerIs
<1>2. \A k \in DOMAIN a \cap DOMAIN b :
        <<b[k], a[k]>> \in MapOrder <=> NewerMap(b[k], a[k])
  BY <1>1 DEF Layered, MapOrder
<1> QED
  BY <1>2 DEF merge_device_settings, merge_by_key, Merged, Winner

\* merge_fstate merges layer by layer, and gives a state.
LEMMA StateMerge ==
  ASSUME NEW a \in State, NEW b \in State
  PROVE  /\ merge_fstate(a, b) = [roster  |-> Merged(FriendOrder, a.roster, b.roster),
                                  globals |-> Merged(GlobalOrder, a.globals, b.globals),
                                  maps    |-> Merged(MapOrder, a.maps, b.maps)]
         /\ merge_fstate(a, b) \in State
<1>1. /\ a.roster \in Layer(Friend, Entry) /\ b.roster \in Layer(Friend, Entry)
      /\ a.globals \in Layer(Setting, GlobalEntry) /\ b.globals \in Layer(Setting, GlobalEntry)
      /\ a.maps \in Layer(Device, OwnMap) /\ b.maps \in Layer(Device, OwnMap)
  BY DEF State
<1>2. merge_fstate(a, b) = [roster  |-> Merged(FriendOrder, a.roster, b.roster),
                            globals |-> Merged(GlobalOrder, a.globals, b.globals),
                            maps    |-> Merged(MapOrder, a.maps, b.maps)]
  BY <1>1, RostersMerge, GlobalsMerge, MapsMerge DEF merge_fstate
<1>3. /\ Merged(FriendOrder, a.roster, b.roster) \in Layer(Friend, Entry)
      /\ Merged(GlobalOrder, a.globals, b.globals) \in Layer(Setting, GlobalEntry)
      /\ Merged(MapOrder, a.maps, b.maps) \in Layer(Device, OwnMap)
  BY <1>1, MergedType, FriendsAreOrdered, GlobalsAreOrdered, MapsAreOrdered
<1> QED
  BY <1>2, <1>3 DEF State

\* The merge of two states is idempotent, commutative and associative.
LEMMA StateAlgebra ==
  ASSUME NEW a \in State, NEW b \in State, NEW c \in State
  PROVE  /\ merge_fstate(a, a) = a
         /\ merge_fstate(a, b) = merge_fstate(b, a)
         /\ merge_fstate(merge_fstate(a, b), c) = merge_fstate(a, merge_fstate(b, c))
<1> DEFINE r == FriendOrder
           g == GlobalOrder
           m == MapOrder
<1>1. \A s \in State : /\ s = [roster |-> s.roster, globals |-> s.globals, maps |-> s.maps]
                       /\ s.roster \in Layer(Friend, Entry)
                       /\ s.globals \in Layer(Setting, GlobalEntry)
                       /\ s.maps \in Layer(Device, OwnMap)
  BY DEF State
<1>2. /\ Merged(r, a.roster, a.roster) = a.roster
      /\ Merged(r, a.roster, b.roster) = Merged(r, b.roster, a.roster)
      /\ Merged(r, Merged(r, a.roster, b.roster), c.roster)
           = Merged(r, a.roster, Merged(r, b.roster, c.roster))
  BY <1>1, MergedAlgebra, FriendsAreOrdered
<1>3. /\ Merged(g, a.globals, a.globals) = a.globals
      /\ Merged(g, a.globals, b.globals) = Merged(g, b.globals, a.globals)
      /\ Merged(g, Merged(g, a.globals, b.globals), c.globals)
           = Merged(g, a.globals, Merged(g, b.globals, c.globals))
  BY <1>1, MergedAlgebra, GlobalsAreOrdered
<1>4. /\ Merged(m, a.maps, a.maps) = a.maps
      /\ Merged(m, a.maps, b.maps) = Merged(m, b.maps, a.maps)
      /\ Merged(m, Merged(m, a.maps, b.maps), c.maps)
           = Merged(m, a.maps, Merged(m, b.maps, c.maps))
  BY <1>1, MergedAlgebra, MapsAreOrdered
<1>5. merge_fstate(a, a) = a
  BY <1>1, <1>2, <1>3, <1>4, StateMerge
<1>6. merge_fstate(a, b) = merge_fstate(b, a)
  <2>1. merge_fstate(a, b) = [roster  |-> Merged(r, a.roster, b.roster),
                              globals |-> Merged(g, a.globals, b.globals),
                              maps    |-> Merged(m, a.maps, b.maps)]
    BY StateMerge
  <2>2. merge_fstate(b, a) = [roster  |-> Merged(r, b.roster, a.roster),
                              globals |-> Merged(g, b.globals, a.globals),
                              maps    |-> Merged(m, b.maps, a.maps)]
    BY StateMerge
  <2> QED
    BY <1>2, <1>3, <1>4, <2>1, <2>2
<1>7. merge_fstate(merge_fstate(a, b), c) = merge_fstate(a, merge_fstate(b, c))
  <2> DEFINE ab == merge_fstate(a, b)
             bc == merge_fstate(b, c)
  <2>1. ab \in State /\ bc \in State
    BY StateMerge
  <2>2. /\ ab.roster = Merged(r, a.roster, b.roster) /\ bc.roster = Merged(r, b.roster, c.roster)
        /\ ab.globals = Merged(g, a.globals, b.globals) /\ bc.globals = Merged(g, b.globals, c.globals)
        /\ ab.maps = Merged(m, a.maps, b.maps) /\ bc.maps = Merged(m, b.maps, c.maps)
    <3>1. ab = [roster  |-> Merged(r, a.roster, b.roster),
                globals |-> Merged(g, a.globals, b.globals),
                maps    |-> Merged(m, a.maps, b.maps)]
      BY StateMerge
    <3>2. bc = [roster  |-> Merged(r, b.roster, c.roster),
                globals |-> Merged(g, b.globals, c.globals),
                maps    |-> Merged(m, b.maps, c.maps)]
      BY StateMerge
    <3> HIDE DEF ab, bc
    <3> QED
      BY <3>1, <3>2
  <2>3. merge_fstate(ab, c) = [roster  |-> Merged(r, ab.roster, c.roster),
                               globals |-> Merged(g, ab.globals, c.globals),
                               maps    |-> Merged(m, ab.maps, c.maps)]
    BY <2>1, StateMerge
  <2>4. merge_fstate(a, bc) = [roster  |-> Merged(r, a.roster, bc.roster),
                               globals |-> Merged(g, a.globals, bc.globals),
                               maps    |-> Merged(m, a.maps, bc.maps)]
    BY <2>1, StateMerge
  <2> HIDE DEF ab, bc
  <2>5. merge_fstate(ab, c) = merge_fstate(a, bc)
    BY <1>2, <1>3, <1>4, <2>2, <2>3, <2>4
  <2> QED
    BY <2>5 DEF ab, bc
<1> QED
  BY <1>5, <1>6, <1>7

-----------------------------------------------------------------------------
(* The document and back. *)

\* The roster reads back from its rows, consent by consent.
LEMMA RosterWire ==
  ASSUME NEW a \in Layer(Friend, Entry)
  PROVE  RosterEntries(RosterRows(a)) = a
<1>1. Layered(a, Friend, Entry)
  BY LayerIs
<1> DEFINE rows == RosterRows(a)
           back == RosterEntries(rows)
<1>2. /\ DOMAIN rows = DOMAIN a
      /\ \A f \in DOMAIN a : rows[f] = [a[f] EXCEPT !.consent = {a[f].consent}]
  BY DEF RosterRows
<1>3. /\ DOMAIN back = DOMAIN a
      /\ \A f \in DOMAIN a : back[f] = [rows[f] EXCEPT !.consent = FALSE \notin rows[f].consent]
  BY <1>2 DEF RosterEntries
<1>4. ASSUME NEW f \in DOMAIN a PROVE back[f] = a[f]
  <2>1. a[f] \in Entry
    BY <1>1 DEF Layered
  <2>2. rows[f] = [updated |-> a[f].updated, tombstone |-> a[f].tombstone, trust |-> a[f].trust,
                   consent |-> {a[f].consent}]
    <3>1. a[f] = [updated |-> a[f].updated, tombstone |-> a[f].tombstone, trust |-> a[f].trust,
                  consent |-> a[f].consent]
      BY <2>1 DEF Entry
    <3> QED
      BY <1>2, <3>1
  <2>3. back[f] = [updated |-> a[f].updated, tombstone |-> a[f].tombstone, trust |-> a[f].trust,
                   consent |-> FALSE \notin {a[f].consent}]
    <3> DEFINE c == FALSE \notin rows[f].consent
    <3>1. back[f] = [rows[f] EXCEPT !.consent = c]
      BY <1>3
    <3>2. c = (FALSE \notin {a[f].consent})
      BY <2>2
    <3> HIDE DEF c, back, rows
    <3>3. [rows[f] EXCEPT !.consent = c]
            = [updated |-> a[f].updated, tombstone |-> a[f].tombstone, trust |-> a[f].trust, consent |-> c]
      BY <2>2
    <3> QED
      BY <3>1, <3>2, <3>3
  <2>4. (FALSE \notin {a[f].consent}) = a[f].consent
    <3>1. a[f].consent \in BOOLEAN
      BY <2>1 DEF Entry
    <3> QED
      BY <3>1
  <2> QED
    BY <2>1, <2>3, <2>4 DEF Entry
<1>5. back = [f \in DOMAIN a |-> back[f]]
  BY <1>2 DEF RosterEntries
<1> HIDE DEF back, rows
<1>6. back = a
  BY <1>1, <1>4, <1>5 DEF Layered
<1> QED
  BY <1>6 DEF back, rows

\* The rows of a device's map.
RowsOf(d, m) ==
  IF DOMAIN m.entries = {}
  THEN {[device |-> d, map_updated |-> m.updated, entry |-> NoEntry]}
  ELSE {[device |-> d, map_updated |-> m.updated, entry |-> [key |-> k, value |-> m.entries[k]]]
          : k \in DOMAIN m.entries}

\* DeviceRows writes these rows: of the maps of a state the empty one is known
\* by its domain.
LEMMA RowsAre ==
  ASSUME NEW maps \in Layer(Device, OwnMap)
  PROVE  DeviceRows(maps) = UNION {RowsOf(d, maps[d]) : d \in DOMAIN maps}
<1>1. Layered(maps, Device, OwnMap)
  BY LayerIs
<1>2. ASSUME NEW d \in DOMAIN maps
      PROVE  maps[d].entries = Nothing <=> DOMAIN maps[d].entries = {}
  <2>1. maps[d].entries \in MapContents
    BY <1>1 DEF Layered, OwnMap
  <2>2. PICK S \in SUBSET Setting : maps[d].entries \in [S -> Value]
    BY <2>1 DEF MapContents, Layer
  <2> QED
    BY <2>2 DEF Nothing
<1> QED
  BY <1>2 DEF DeviceRows, RowsOf

\* The maps read back from their rows, an empty map from the row of its clock.
LEMMA MapsWire ==
  ASSUME NEW maps \in Layer(Device, OwnMap)
  PROVE  DeviceMaps(DeviceRows(maps)) = maps
<1> DEFINE rows == DeviceRows(maps)
           of(d) == {r \in rows : r.device = d}
           named(d) == {r.entry : r \in of(d)} \ {NoEntry}
           back == DeviceMaps(rows)
<1>1. Layered(maps, Device, OwnMap)
  BY LayerIs
<1>2. \A d \in DOMAIN maps : /\ RowsOf(d, maps[d]) # {}
                             /\ \A r \in RowsOf(d, maps[d]) :
                                  r.device = d /\ r.map_updated = maps[d].updated
  <2> TAKE d \in DOMAIN maps
  <2>1. CASE DOMAIN maps[d].entries = {}
    BY <2>1 DEF RowsOf
  <2>2. CASE DOMAIN maps[d].entries # {}
    <3> DEFINE row(k) == [device |-> d, map_updated |-> maps[d].updated,
                          entry |-> [key |-> k, value |-> maps[d].entries[k]]]
    <3>1. RowsOf(d, maps[d]) = {row(k) : k \in DOMAIN maps[d].entries}
      BY <2>2 DEF RowsOf
    <3>2. \A k : row(k).device = d /\ row(k).map_updated = maps[d].updated
      OBVIOUS
    <3> HIDE DEF row
    <3> QED
      BY <2>2, <3>1, <3>2
  <2> QED
    BY <2>1, <2>2
<1>3. \A d \in DOMAIN maps : of(d) = RowsOf(d, maps[d])
  BY <1>2, RowsAre
<1>4. {r.device : r \in rows} = DOMAIN maps
  BY <1>2, RowsAre
<1> HIDE DEF rows
<1>5. back = [d \in DOMAIN maps |->
                [updated |-> Max({r.map_updated : r \in of(d)}),
                 entries |-> [k \in {e.key : e \in named(d)} |->
                                (CHOOSE e \in named(d) : e.key = k).value]]]
  BY <1>4 DEF DeviceMaps
<1>6. ASSUME NEW d \in DOMAIN maps
      PROVE  maps[d] = [updated |-> Max({r.map_updated : r \in of(d)}),
                        entries |-> [k \in {e.key : e \in named(d)} |->
                                       (CHOOSE e \in named(d) : e.key = k).value]]
  <2> DEFINE u == maps[d].updated
             f == maps[d].entries
  <2>1. /\ maps[d] = [updated |-> u, entries |-> f] /\ u \in 0..MaxTime /\ f \in MapContents
    BY <1>1 DEF Layered, OwnMap
  <2>2. PICK S \in SUBSET Setting : f \in [S -> Value]
    BY <2>1 DEF MapContents, Layer
  <2>3. {r.map_updated : r \in of(d)} = {u}
    BY <1>2, <1>3
  <2>4. Max({u}) = u
    <3>1. u \in Int
      BY <2>1, StateAssumption
    <3> HIDE DEF u
    <3>2. \A x \in {u} : x = u /\ x >= x
      BY <3>1
    <3> QED
      BY <3>2 DEF Max
  <2>5. named(d) = {[key |-> k, value |-> f[k]] : k \in DOMAIN f}
    <3>1. CASE DOMAIN f = {}
      BY <1>3, <3>1 DEF RowsOf
    <3>2. CASE DOMAIN f # {}
      <4>1. \A k \in DOMAIN f : [key |-> k, value |-> f[k]] # NoEntry
        BY <2>2, StateAssumption DEF NoEntry
      <4>2. {r.entry : r \in of(d)} = {[key |-> k, value |-> f[k]] : k \in DOMAIN f}
        <5> DEFINE pair(k) == [key |-> k, value |-> f[k]]
                   row(k) == [device |-> d, map_updated |-> u, entry |-> pair(k)]
        <5>1. of(d) = {row(k) : k \in DOMAIN f}
          BY <1>3, <3>2 DEF RowsOf
        <5>2. \A k : row(k).entry = pair(k)
          OBVIOUS
        <5> HIDE DEF of, row, pair
        <5>3. {r.entry : r \in of(d)} = {pair(k) : k \in DOMAIN f}
          BY <5>1, <5>2
        <5> QED
          BY <5>3 DEF pair
      <4> QED
        BY <4>1, <4>2
    <3> QED
      BY <3>1, <3>2
  <2>6. {e.key : e \in named(d)} = DOMAIN f
    <3> DEFINE pair(k) == [key |-> k, value |-> f[k]]
    <3>1. named(d) = {pair(k) : k \in DOMAIN f}
      BY <2>5
    <3>2. \A k : pair(k).key = k
      OBVIOUS
    <3> HIDE DEF named, pair
    <3> QED
      BY <3>1, <3>2
  <2>7. ASSUME NEW k \in DOMAIN f
        PROVE  (CHOOSE e \in named(d) : e.key = k).value = f[k]
    <3>1. \A e \in named(d) : e.key = k => e = [key |-> k, value |-> f[k]]
      BY <2>5
    <3>2. [key |-> k, value |-> f[k]] \in named(d)
      BY <2>5
    <3> HIDE DEF named
    <3> DEFINE chosen == CHOOSE e \in named(d) : e.key = k
    <3>3. chosen = [key |-> k, value |-> f[k]]
      BY <3>1, <3>2
    <3> HIDE DEF chosen
    <3>4. chosen.value = f[k]
      BY <3>3
    <3> QED
      BY <3>4 DEF chosen
  <2>8. f = [k \in {e.key : e \in named(d)} |-> (CHOOSE e \in named(d) : e.key = k).value]
    BY <2>2, <2>6, <2>7
  <2> QED
    BY <2>1, <2>3, <2>4, <2>8
<1>7. back = maps
  BY <1>1, <1>5, <1>6 DEF Layered
<1> QED
  BY <1>7 DEF rows

\* What is stored reads back as what was held.
LEMMA StateWire ==
  ASSUME NEW st \in State
  PROVE  fstate_from_bytes(fstate_to_bytes(st)) = Read(st)
<1>1. /\ st = [roster |-> st.roster, globals |-> st.globals, maps |-> st.maps]
      /\ st.roster \in Layer(Friend, Entry)
      /\ st.maps \in Layer(Device, OwnMap)
  BY DEF State
<1>2. fstate_from_bytes(fstate_to_bytes(st))
        = Read([roster |-> RosterEntries(RosterRows(st.roster)), globals |-> st.globals,
                maps |-> DeviceMaps(DeviceRows(st.maps))])
  BY DEF fstate_from_bytes, fstate_to_bytes, SettingsReadable, VersionMatches, Section
<1> QED
  BY <1>1, <1>2, RosterWire, MapsWire

\* A newer build reads both its own documents and those of this one.
LEMMA NewerWire ==
  ASSUME NEW st \in State
  PROVE  /\ newer_from_bytes(fstate_to_bytes(st)) = Read(st)
         /\ newer_from_bytes(newer_to_bytes(st)) = Read(st)
<1> DEFINE doc == fstate_to_bytes(st)
           newer == newer_to_bytes(st)
           roster == Section(RosterRows(st.roster))
           devices == Section(DeviceRows(st.maps))
           globals(form) == [form |-> form, rows |-> st.globals]
           sections(form) == [kind |-> "document", roster |-> roster, globals |-> globals(form), devices |-> devices]
<1>1. doc = sections("v7")
  BY DEF fstate_to_bytes, Section
<1>2. newer = [sections("v7") EXCEPT !.globals.form = "v8"]
  BY <1>1 DEF newer_to_bytes
<1> HIDE DEF doc, newer, roster, devices
<1>3. newer = sections("v8")
  BY <1>2
<1>4. doc.kind = "document" /\ doc.globals.form = "v7"
  BY <1>1
<1>5. newer.kind = "document" /\ newer.globals.form = "v8" /\ [newer EXCEPT !.globals.form = "v7"] = doc
  BY <1>1, <1>3
<1>6. fstate_from_bytes(doc) = Read(st)
  BY StateWire DEF doc
<1>7. newer_from_bytes(doc) = Read(st)
  BY <1>4, <1>6 DEF newer_from_bytes
<1>8. newer_from_bytes(newer) = Read(st)
  BY <1>5, <1>6 DEF newer_from_bytes
<1> QED
  BY <1>7, <1>8 DEF doc, newer

-----------------------------------------------------------------------------
(* What a merge keeps. *)

\* No entry of a is newer than that of b.
Below(R, a, b) ==
  \A k \in DOMAIN a : k \in DOMAIN b /\ (a[k] = b[k] \/ <<b[k], a[k]>> \in R)

\* Layer a has the entry that b has under k.
Has(a, b, k) == k \in DOMAIN a /\ a[k] = b[k]

\* A merge is not older than what it merges.
LEMMA BelowMerged ==
  ASSUME NEW R, NEW K, NEW E, StrictOrder(R, E), NEW a \in Layer(K, E), NEW b \in Layer(K, E)
  PROVE  Below(R, a, Merged(R, a, b)) /\ Below(R, b, Merged(R, a, b))
<1>1. Layered(a, K, E) /\ Layered(b, K, E)
  BY LayerIs
<1> QED
  BY <1>1 DEF Layered, Below, Merged, Winner, StrictOrder

\* Two layers that are not ahead of a third do not get ahead of it by merging,
\* and what either has of it the merge has.
LEMMA BelowBoth ==
  ASSUME NEW R, NEW K, NEW E, StrictOrder(R, E),
         NEW a \in Layer(K, E), NEW b \in Layer(K, E), NEW c \in Layer(K, E),
         Below(R, a, c), Below(R, b, c)
  PROVE  /\ Below(R, Merged(R, a, b), c)
         /\ \A k \in DOMAIN c : Has(a, c, k) \/ Has(b, c, k) => Has(Merged(R, a, b), c, k)
<1>1. Layered(a, K, E) /\ Layered(b, K, E) /\ Layered(c, K, E)
  BY LayerIs
<1>2. Below(R, Merged(R, a, b), c)
  BY <1>1 DEF Layered, Below, Merged, Winner, StrictOrder
<1>3. \A k \in DOMAIN c : Has(a, c, k) \/ Has(b, c, k) => Has(Merged(R, a, b), c, k)
  BY <1>1 DEF Layered, Below, Merged, Winner, StrictOrder, Has
<1> QED
  BY <1>2, <1>3

\* Not being ahead is transitive.
LEMMA BelowTransitive ==
  ASSUME NEW R, NEW K, NEW E, StrictOrder(R, E),
         NEW a \in Layer(K, E), NEW b \in Layer(K, E), NEW c \in Layer(K, E),
         Below(R, a, b), Below(R, b, c)
  PROVE  Below(R, a, c)
<1>1. Layered(a, K, E) /\ Layered(b, K, E) /\ Layered(c, K, E)
  BY LayerIs
<1> QED
  BY <1>1 DEF Layered, Below, StrictOrder

\* A write on top of an older entry: what the best layer becomes is in the
\* layer written to, or was in the best one and not in that layer.
LEMMA WriteIsKept ==
  ASSUME NEW R, NEW K, NEW E, StrictOrder(R, E),
         NEW a \in Layer(K, E), NEW c \in Layer(K, E), NEW j \in K, NEW e \in E,
         j \in DOMAIN a => <<e, a[j]>> \in R
  PROVE  LET b == With(a, j, e)
             m == Merged(R, c, b)
         IN  \A k \in DOMAIN m :
               \/ Has(b, m, k)
               \/ k \in DOMAIN c /\ m[k] = c[k] /\ ~Has(a, c, k)
<1> DEFINE b == With(a, j, e)
           m == Merged(R, c, b)
<1>1. Layered(a, K, E) /\ Layered(c, K, E)
  BY LayerIs
<1>2. /\ DOMAIN b = DOMAIN a \cup {j} /\ b[j] = e
      /\ \A k \in DOMAIN a \ {j} : b[k] = a[k]
  BY DEF With
<1>3. /\ DOMAIN m = DOMAIN c \cup DOMAIN b
      /\ \A k \in DOMAIN m :
           m[k] = IF k \in DOMAIN c /\ k \in DOMAIN b THEN Winner(R, c[k], b[k])
                  ELSE IF k \in DOMAIN c THEN c[k] ELSE b[k]
  BY DEF Merged
<1> HIDE DEF b, m
<1>4. ASSUME NEW k \in DOMAIN m, ~Has(b, m, k)
      PROVE  k \in DOMAIN c /\ m[k] = c[k] /\ ~Has(a, c, k)
  BY <1>1, <1>2, <1>3, <1>4 DEF Has, Winner, Layered, StrictOrder
<1>5. \A k \in DOMAIN m : Has(b, m, k) \/ (k \in DOMAIN c /\ m[k] = c[k] /\ ~Has(a, c, k))
  BY <1>4
<1> QED
  BY <1>5 DEF b, m

\* Merging what is not ahead changes nothing.
LEMMA MergeBelow ==
  ASSUME NEW R, NEW K, NEW E, StrictOrder(R, E),
         NEW a \in Layer(K, E), NEW c \in Layer(K, E), Below(R, a, c)
  PROVE  Merged(R, c, a) = c
<1>1. Layered(a, K, E) /\ Layered(c, K, E)
  BY LayerIs
<1> DEFINE m == Merged(R, c, a)
<1>2. DOMAIN m = DOMAIN c /\ m = [k \in DOMAIN m |-> m[k]]
  BY DEF Below, Merged
<1>3. \A k \in DOMAIN c : m[k] = c[k]
  BY <1>1 DEF Layered, Below, Merged, Winner, StrictOrder
<1>4. c = [k \in DOMAIN c |-> c[k]]
  BY <1>1 DEF Layered
<1> QED
  BY <1>2, <1>3, <1>4

-----------------------------------------------------------------------------
(* The three layers of a state, as one. *)
Part == {"roster", "globals", "maps"}
KeysOf == [roster |-> Friend, globals |-> Setting, maps |-> Device]
EntriesOf == [roster |-> Entry, globals |-> GlobalEntry, maps |-> OwnMap]
OrderOf == [roster |-> FriendOrder, globals |-> GlobalOrder, maps |-> MapOrder]

\* A state is three layers.
LEMMA StatesAreLayered ==
  ASSUME NEW st
  PROVE  st \in State <=>
           /\ st = [roster |-> st.roster, globals |-> st.globals, maps |-> st.maps]
           /\ \A p \in Part : st[p] \in Layer(KeysOf[p], EntriesOf[p])
BY DEF State, Part, KeysOf, EntriesOf

\* Every layer has a strict total order.
LEMMA PartsAreOrdered == \A p \in Part : StrictOrder(OrderOf[p], EntriesOf[p])
BY FriendsAreOrdered, GlobalsAreOrdered, MapsAreOrdered DEF Part, OrderOf, EntriesOf

\* A merge of states merges each layer by its order.
LEMMA PartsMerge ==
  ASSUME NEW a \in State, NEW b \in State, NEW p \in Part
  PROVE  merge_fstate(a, b)[p] = Merged(OrderOf[p], a[p], b[p])
<1>1. merge_fstate(a, b) = [roster  |-> Merged(FriendOrder, a.roster, b.roster),
                            globals |-> Merged(GlobalOrder, a.globals, b.globals),
                            maps    |-> Merged(MapOrder, a.maps, b.maps)]
  BY StateMerge
<1> QED
  BY <1>1 DEF Part, OrderOf

\* Entries of every layer are stamped.
LEMMA EntriesAreStamped ==
  ASSUME NEW p \in Part, NEW e \in EntriesOf[p]
  PROVE  /\ e.updated \in Nat
         /\ "updated" \in DOMAIN e
         /\ \A f \in EntriesOf[p] : e.updated > f.updated => <<e, f>> \in OrderOf[p]
<1>1. CASE p = "roster"
  <2>1. \A f \in Entry : f.updated \in 0..MaxTime /\ "updated" \in DOMAIN f
    BY DEF Entry
  <2>2. \A f \in Entry : e.updated > f.updated => <<e, f>> \in FriendOrder
    BY <1>1 DEF FriendOrder, NewerFriend, EntriesOf
  <2> QED
    BY <1>1, <2>1, <2>2, StateAssumption DEF EntriesOf, OrderOf
<1>2. CASE p = "globals"
  <2>1. \A f \in GlobalEntry : f.updated \in 0..MaxTime /\ "updated" \in DOMAIN f
    BY DEF GlobalEntry
  <2>2. \A f \in GlobalEntry : e.updated > f.updated => <<e, f>> \in GlobalOrder
    BY <1>2 DEF GlobalOrder, NewerGlobal, EntriesOf
  <2> QED
    BY <1>2, <2>1, <2>2, StateAssumption DEF EntriesOf, OrderOf
<1>3. CASE p = "maps"
  <2>1. \A f \in OwnMap : f.updated \in 0..MaxTime /\ "updated" \in DOMAIN f
    BY DEF OwnMap
  <2>2. \A f \in OwnMap : e.updated > f.updated => <<e, f>> \in MapOrder
    BY <1>3 DEF MapOrder, NewerMap, EntriesOf
  <2> QED
    BY <1>3, <2>1, <2>2, StateAssumption DEF EntriesOf, OrderOf
<1> QED
  BY <1>1, <1>2, <1>3 DEF Part

-----------------------------------------------------------------------------
(* Types. *)

\* The empty state is one.
LEMMA EmptyIsState == EmptyState \in State
<1>1. \A K, E : Nothing \in Layer(K, E)
  <2> TAKE K, E
  <2>1. Nothing \in [{} -> E]
    BY DEF Nothing
  <2> QED
    BY <2>1 DEF Layer
<1> QED
  BY <1>1 DEF EmptyState, State

\* A document this build reads, the newer one reads the same.
LEMMA BuildsAgree ==
  ASSUME NEW doc, fstate_from_bytes(doc).ok
  PROVE  newer_from_bytes(doc) = fstate_from_bytes(doc)
<1>1. ~(doc.kind = "document" /\ doc.globals.form = "v8")
  BY DEF fstate_from_bytes, SettingsReadable, VersionMatches, Unreadable
<1> QED
  BY <1>1 DEF newer_from_bytes

\* A pull that succeeds yields what is in the slot, as the newest build reads it.
LEMMA PulledIsInSlot ==
  ASSUME NEW d, pull_fstate(d).ok
  PROVE  pull_fstate(d).state = InSlot
<1>1. CASE slot.doc.kind = "none"
  BY <1>1 DEF pull_fstate, InSlot, Read
<1>2. CASE slot.doc.kind # "none"
  <2>1. slot.key = holds[d]
    BY <1>2 DEF pull_fstate, Unreadable
  <2>2. pull_fstate(d) = Parses(d, slot.doc)
    BY <1>2, <2>1 DEF pull_fstate
  <2>3. Parses(d, slot.doc) = newer_from_bytes(slot.doc)
    BY <2>2, BuildsAgree DEF Parses
  <2> QED
    BY <1>2, <2>2, <2>3 DEF InSlot
<1> QED
  BY <1>1, <1>2

\* What a push stores reads as the state its device holds.
LEMMA PushedIsStored ==
  ASSUME NEW d \in Device, local[d] \in State, Push(d)
  PROVE  InSlot' = local[d]
<1>1. slot'.doc = Document(d) /\ Document(d) \in {fstate_to_bytes(local[d]), newer_to_bytes(local[d])}
  BY DEF Push, Sealed, Document
<1>2. newer_from_bytes(slot'.doc).state = local[d]
  BY <1>1, NewerWire DEF Read
<1>3. slot'.doc.kind # "none"
  BY <1>1 DEF fstate_to_bytes, newer_to_bytes
<1> QED
  BY <1>2, <1>3 DEF InSlot

\* An entry more leaves a layer a layer.
LEMMA WithLayer ==
  ASSUME NEW K, NEW E, NEW a \in Layer(K, E), NEW k \in K, NEW e \in E
  PROVE  With(a, k, e) \in Layer(K, E)
<1>1. Layered(a, K, E)
  BY LayerIs
<1>2. Layered(With(a, k, e), K, E)
  BY <1>1 DEF Layered, With
<1> QED
  BY <1>2, LayerIs

\* What an edit does: an entry, typed and newer than the one it replaces, goes
\* into one layer of one device's state.
Writes(d, p, k, e) ==
  /\ k \in DOMAIN local[d][p] => e.updated > local[d][p][k].updated
  /\ local' = [local EXCEPT ![d] = [local[d] EXCEPT ![p] = With(local[d][p], k, e)]]
  /\ best' = merge_fstate(best, local'[d])
  /\ clock' \in Nat /\ edits' \in Nat
  /\ UNCHANGED <<slot, call, fleetKey, holds, upgraded, late>>

\* An edit of the model is such a write: its stamp is in range and newer than
\* the entry it replaces.
LEMMA EditsWrite ==
  ASSUME StateTypeOK, NEW d \in Device, NEW p \in Part, NEW k \in KeysOf[p], NEW e,
         \A now \in 0..MaxTime : [e EXCEPT !.updated = now] \in EntriesOf[p],
         Edits(d, p, k, e)
  PROVE  \E f \in EntriesOf[p] : Writes(d, p, k, f)
<1>1. PICK now \in {clock, clock + 1} :
        /\ 0 < now /\ now <= MaxTime /\ clock' = now
        /\ k \in DOMAIN local[d][p] => local[d][p][k].updated < now
        /\ local' = [local EXCEPT ![d][p] = With(@, k, [e EXCEPT !.updated = now])]
  BY DEF Edits
<1> DEFINE f == [e EXCEPT !.updated = now]
<1>2. now \in 0..MaxTime /\ clock' \in Nat
  BY <1>1, StateAssumption DEF StateTypeOK
<1>3. f \in EntriesOf[p]
  BY <1>2
<1>4. f.updated = now
  <2>1. "updated" \in DOMAIN f
    BY <1>3, EntriesAreStamped
  <2> QED
    BY <2>1
<1>5. edits' \in Nat
  BY StateAssumption DEF Edits, StateTypeOK
<1>6. k \in DOMAIN local[d][p] => f.updated > local[d][p][k].updated
  <2> HIDE DEF f
  <2>1. \A g \in EntriesOf[p] : g.updated \in Nat
    BY EntriesAreStamped
  <2>2. Layered(local[d][p], KeysOf[p], EntriesOf[p])
    BY StatesAreLayered, LayerIs DEF StateTypeOK
  <2>3. k \in DOMAIN local[d][p] => local[d][p][k].updated \in Nat
    BY <2>1, <2>2 DEF Layered
  <2> QED
    BY <1>1, <1>2, <1>4, <2>3
<1>7. local' = [local EXCEPT ![d] = [local[d] EXCEPT ![p] = With(local[d][p], k, f)]]
  BY <1>1 DEF StateTypeOK
<1> HIDE DEF f
<1> QED
  BY <1>2, <1>3, <1>5, <1>6, <1>7 DEF Writes, Edits

\* Every edit of the application is one.
LEMMA EditsOfWrite ==
  ASSUME StateTypeOK, NEW d \in Device, EditsOf(d)
  PROVE  \E p \in Part : \E k \in KeysOf[p] : \E f \in EntriesOf[p] : Writes(d, p, k, f)
<1>1. /\ \A s \in State : /\ Layered(s.roster, Friend, Entry)
                          /\ Layered(s.globals, Setting, GlobalEntry)
      /\ local[d] \in State
  BY LayerIs DEF State, StateTypeOK
<1>2. ASSUME NEW f \in Friend, NEW e \in Entry, Edits(d, "roster", f, e)
      PROVE  \E g \in Entry : Writes(d, "roster", f, g)
  <2>1. \A now \in 0..MaxTime : [e EXCEPT !.updated = now] \in Entry
    BY DEF Entry
  <2> QED
    BY <1>2, <2>1, EditsWrite DEF Part, KeysOf, EntriesOf
<1>3. ASSUME NEW k \in Setting, NEW e \in GlobalEntry, Edits(d, "globals", k, e)
      PROVE  \E g \in GlobalEntry : Writes(d, "globals", k, g)
  <2>1. \A now \in 0..MaxTime : [e EXCEPT !.updated = now] \in GlobalEntry
    BY DEF GlobalEntry
  <2> QED
    BY <1>3, <2>1, EditsWrite DEF Part, KeysOf, EntriesOf
<1>4. ASSUME NEW e \in OwnMap, Edits(d, "maps", d, e)
      PROVE  \E g \in OwnMap : Writes(d, "maps", d, g)
  <2>1. \A now \in 0..MaxTime : [e EXCEPT !.updated = now] \in OwnMap
    BY DEF OwnMap
  <2> QED
    BY <1>4, <2>1, EditsWrite DEF Part, KeysOf, EntriesOf
<1>5. \A f : Known(d, f) => local[d].roster[f] \in Entry
  BY <1>1 DEF Known, Layered
<1>6. 0 \in 0..MaxTime
  BY StateAssumption
<1>7. ASSUME NEW f \in Friend, Befriend(d, f) \/ Unfriend(d, f) \/ Knock(d, f)
      PROVE  \E e \in Entry : Edits(d, "roster", f, e)
  <2>1. [updated |-> 0, tombstone |-> FALSE, trust |-> 0, consent |-> FALSE] \in Entry
    BY <1>6, StateAssumption DEF Entry
  <2>2. Known(d, f) => /\ [local[d].roster[f] EXCEPT !.tombstone = TRUE] \in Entry
                       /\ [local[d].roster[f] EXCEPT !.consent = TRUE] \in Entry
    BY <1>5 DEF Entry
  <2> QED
    BY <1>7, <2>1, <2>2 DEF Befriend, Unfriend, Knock
<1>8. ASSUME NEW f \in Friend, NEW level \in Trust, Promote(d, f, level)
      PROVE  \E e \in Entry : Edits(d, "roster", f, e)
  <2>1. [local[d].roster[f] EXCEPT !.trust = level] \in Entry
    BY <1>5, <1>8 DEF Entry, Promote
  <2> QED
    BY <1>8, <2>1 DEF Promote
<1>9. ASSUME NEW k \in Setting, NEW v \in Value, SetGlobal(d, k, v)
      PROVE  \E e \in GlobalEntry : Edits(d, "globals", k, e)
  <2>1. [value |-> v, updated |-> 0, tombstone |-> FALSE] \in GlobalEntry
    BY <1>6 DEF GlobalEntry
  <2> QED
    BY <1>9, <2>1 DEF SetGlobal
<1>10. ASSUME NEW k \in Setting, ClearGlobal(d, k)
       PROVE  \E e \in GlobalEntry : Edits(d, "globals", k, e)
  <2>1. local[d].globals[k] \in GlobalEntry
    BY <1>1, <1>10 DEF ClearGlobal, Layered
  <2>2. [local[d].globals[k] EXCEPT !.tombstone = TRUE] \in GlobalEntry
    BY <2>1 DEF GlobalEntry
  <2> QED
    BY <1>10, <2>2 DEF ClearGlobal
<1>11. ASSUME NEW entries \in MapContents, SetOwn(d, entries)
       PROVE  \E e \in OwnMap : Edits(d, "maps", d, e)
  <2>1. [updated |-> 0, entries |-> entries] \in OwnMap
    BY <1>6 DEF OwnMap
  <2> QED
    BY <1>11, <2>1 DEF SetOwn
<1>12. \/ \E f \in Friend, e \in Entry : Writes(d, "roster", f, e)
       \/ \E k \in Setting, e \in GlobalEntry : Writes(d, "globals", k, e)
       \/ \E e \in OwnMap : Writes(d, "maps", d, e)
  BY <1>2, <1>3, <1>4, <1>7, <1>8, <1>9, <1>10, <1>11 DEF EditsOf
<1>13. /\ Friend = KeysOf["roster"] /\ Setting = KeysOf["globals"] /\ Device = KeysOf["maps"]
       /\ Entry = EntriesOf["roster"] /\ GlobalEntry = EntriesOf["globals"]
       /\ OwnMap = EntriesOf["maps"]
       /\ {"roster", "globals", "maps"} = Part
  BY DEF KeysOf, EntriesOf, Part
<1> HIDE DEF Part
<1> QED
  BY <1>12, <1>13

\* The calls a device can be in while the published key is k.
CallUpTo(k) == [at : {"idle", "push", "mint", "post"}, key : 0..k]

\* Whatever is stored at the start, the types hold.
LEMMA InitTypes == StateInit => StateTypeOK
<1> SUFFICES ASSUME StateInit PROVE StateTypeOK
  OBVIOUS
<1>1. PICK doc \in Stored : slot = Sealed(doc, 0)
  BY DEF StateInit
<1>2. slot.doc = doc /\ slot.key = 0 /\ DOMAIN slot = {"doc", "key"}
  BY <1>1 DEF Sealed
<1>3. InSlot \in State
  BY <1>2, StoredAssumption, EmptyIsState DEF InSlot
<1>4. best \in State /\ local \in [Device -> State]
  BY <1>3, EmptyIsState DEF StateInit
<1>5. /\ call \in [Device -> CallUpTo(0)]
      /\ holds \in [Device -> 0..0] /\ fleetKey = 0 /\ slot.key \in 0..0
  BY <1>2 DEF StateInit, Idle, CallUpTo
<1>6. fleetKey \in 0..MaxKey /\ edits \in Nat /\ clock \in Nat
  BY StateAssumption DEF StateInit
<1>7. upgraded \subseteq MayUpgrade /\ late \subseteq {d \in Device : call[d] # Idle}
  BY DEF StateInit
<1> QED
  BY <1>2, <1>3, <1>4, <1>5, <1>6, <1>7 DEF StateTypeOK, CallUpTo

\* An edit keeps the state of its device a state.
LEMMA WritesState ==
  ASSUME StateTypeOK, NEW d \in Device, NEW p \in Part, NEW k \in KeysOf[p], NEW e \in EntriesOf[p],
         Writes(d, p, k, e)
  PROVE  /\ local' \in [Device -> State]
         /\ \A q \in Part \ {p} : local'[d][q] = local[d][q]
         /\ local'[d][p] = With(local[d][p], k, e)
         /\ \A x \in Device \ {d} : local'[x] = local[x]
<1> DEFINE st == local[d]
           new == [st EXCEPT ![p] = With(st[p], k, e)]
<1>1. st \in State /\ local' = [local EXCEPT ![d] = new]
  BY DEF StateTypeOK, Writes
<1>2. With(st[p], k, e) \in Layer(KeysOf[p], EntriesOf[p])
  BY <1>1, StatesAreLayered, WithLayer
<1>3. /\ new[p] = With(st[p], k, e)
      /\ \A q \in Part \ {p} : new[q] = st[q]
      /\ new = [roster |-> new.roster, globals |-> new.globals, maps |-> new.maps]
  BY <1>1 DEF State, Part
<1>4. new \in State
  BY <1>1, <1>2, <1>3, StatesAreLayered
<1> HIDE DEF new
<1> QED
  BY <1>1, <1>3, <1>4 DEF StateTypeOK

\* Every step keeps the types: pulls by the type of a merge, pushes because the
\* document reads back, edits because each is a typed write.
LEMMA NextTypes == StateTypeOK /\ [StateNext]_stateVars => StateTypeOK'
<1> SUFFICES ASSUME StateTypeOK, [StateNext]_stateVars PROVE StateTypeOK'
  OBVIOUS
<1>0. /\ clock \in Nat /\ best \in State /\ local \in [Device -> State]
      /\ DOMAIN slot = {"doc", "key"} /\ slot.key \in 0..fleetKey /\ InSlot \in State
      /\ call \in [Device -> CallUpTo(fleetKey)]
      /\ fleetKey \in 0..MaxKey /\ holds \in [Device -> 0..fleetKey] /\ edits \in Nat
      /\ upgraded \subseteq MayUpgrade /\ late \subseteq {d \in Device : call[d] # Idle}
  BY DEF StateTypeOK, CallUpTo
<1>1. slot' = slot => InSlot' = InSlot
  BY DEF InSlot
<1>2. fleetKey \in Nat /\ 0 \in 0..fleetKey
  BY <1>0, StateAssumption
<1>3. Idle \in CallUpTo(fleetKey)
  BY <1>2 DEF Idle, CallUpTo
<1>4. ASSUME NEW d \in Device, NEW purpose \in {"push", "mint"}, Pull(d, purpose) PROVE StateTypeOK'
  <2>1. local' \in [Device -> State]
    BY <1>0, <1>4, PulledIsInSlot, StateMerge DEF Pull
  <2>2. [at |-> purpose, key |-> holds[d]] \in CallUpTo(fleetKey) /\ [at |-> purpose, key |-> holds[d]] # Idle
    BY <1>0 DEF CallUpTo, Idle
  <2>3. call' \in [Device -> CallUpTo(fleetKey)]
    BY <1>0, <1>4, <2>2 DEF Pull
  <2>4. \A e \in Device : call[e] # Idle => call'[e] # Idle
    BY <1>0, <1>4, <2>2 DEF Pull
  <2> QED
    BY <1>0, <1>1, <1>4, <2>1, <2>3, <2>4 DEF Pull, StateTypeOK, CallUpTo
<1>5. ASSUME NEW d \in Device, Mint(d) PROVE StateTypeOK'
  <2>1. fleetKey' \in 0..MaxKey /\ fleetKey' \in 0..fleetKey'
    BY <1>0, <1>2, <1>5, StateAssumption DEF Mint
  <2>2. 0..fleetKey \subseteq 0..fleetKey'
    BY <1>2, <1>5 DEF Mint
  <2>3. holds' \in [Device -> 0..fleetKey']
    BY <1>0, <1>5, <2>1, <2>2 DEF Mint
  <2>4. [at |-> "push", key |-> fleetKey'] \in CallUpTo(fleetKey') /\ [at |-> "push", key |-> fleetKey'] # Idle
    BY <2>1 DEF CallUpTo, Idle
  <2>5. \A c \in CallUpTo(fleetKey) : c \in CallUpTo(fleetKey')
    BY <2>2 DEF CallUpTo
  <2>6. call' = [call EXCEPT ![d] = [at |-> "push", key |-> fleetKey']]
    BY <1>5 DEF Mint
  <2>7. call' \in [Device -> CallUpTo(fleetKey')]
    BY <1>0, <2>4, <2>5, <2>6
  <2>8. \A e \in Device : call[e] # Idle => call'[e] # Idle
    BY <1>0, <2>4, <2>6
  <2> QED
    BY <1>0, <1>1, <1>5, <2>1, <2>2, <2>3, <2>7, <2>8 DEF Mint, StateTypeOK, CallUpTo
<1>6. ASSUME NEW d \in Device, Ends(d) PROVE StateTypeOK'
  <2>1. call' \in [Device -> CallUpTo(fleetKey)]
    BY <1>0, <1>3, <1>6 DEF Ends
  <2>2. late' \subseteq {e \in Device : call'[e] # Idle}
    BY <1>0, <1>6 DEF Ends
  <2> QED
    BY <1>0, <1>1, <1>6, <2>1, <2>2 DEF Ends, StateTypeOK, CallUpTo
<1>7. ASSUME NEW d \in Device, Push(d) PROVE StateTypeOK'
  <2>1. call' \in [Device -> CallUpTo(fleetKey)]
    BY <1>0, <1>3, <1>7 DEF Push
  <2>2. slot'.key = call[d].key /\ DOMAIN slot' = {"doc", "key"}
    BY <1>7 DEF Push, Sealed
  <2>3. call[d].key \in 0..fleetKey
    BY <1>0 DEF CallUpTo
  <2>4. InSlot' = local[d]
    BY <1>0, <1>7, PushedIsStored
  <2>5. late' \subseteq {e \in Device : call'[e] # Idle}
    BY <1>0, <1>7 DEF Push
  <2> QED
    BY <1>0, <1>7, <2>1, <2>2, <2>3, <2>4, <2>5 DEF Push, StateTypeOK, CallUpTo
<1>8. ASSUME NEW d \in Device, LearnKey(d) PROVE StateTypeOK'
  <2>1. holds' \in [Device -> 0..fleetKey]
    BY <1>0, <1>2, <1>8 DEF LearnKey
  <2> QED
    BY <1>0, <1>1, <1>8, <2>1 DEF LearnKey, StateTypeOK, CallUpTo
<1>9. ASSUME NEW d \in Device, EditsOf(d) PROVE StateTypeOK'
  <2>0. PICK p \in Part : \E k \in KeysOf[p] : \E e \in EntriesOf[p] : Writes(d, p, k, e)
    BY <1>9, EditsOfWrite
  <2>1. PICK k \in KeysOf[p] : \E e \in EntriesOf[p] : Writes(d, p, k, e)
    BY <2>0
  <2>4. PICK e \in EntriesOf[p] : Writes(d, p, k, e)
    BY <2>1
  <2>2. local' \in [Device -> State]
    BY <2>4, WritesState
  <2>3. best' \in State
    BY <1>0, <2>4, <2>2, StateMerge DEF Writes
  <2> QED
    BY <1>0, <1>1, <2>4, <2>2, <2>3 DEF Writes, StateTypeOK, CallUpTo
<1>10. ASSUME NEW d \in Device, ReadsRevision(d) PROVE StateTypeOK'
  <2>1. [at |-> "post", key |-> fleetKey] \in CallUpTo(fleetKey) /\ [at |-> "post", key |-> fleetKey] # Idle
    BY <1>2 DEF CallUpTo, Idle
  <2>2. call' \in [Device -> CallUpTo(fleetKey)]
    BY <1>0, <1>10, <2>1 DEF ReadsRevision
  <2>3. \A e \in Device : call[e] # Idle => call'[e] # Idle
    BY <1>0, <1>10, <2>1 DEF ReadsRevision
  <2> QED
    BY <1>0, <1>1, <1>10, <2>2, <2>3 DEF ReadsRevision, StateTypeOK, CallUpTo
<1>11. ASSUME NEW d \in Device, Upgrade(d) PROVE StateTypeOK'
  BY <1>0, <1>1, <1>11 DEF Upgrade, StateTypeOK, CallUpTo
<1>12. CASE UNCHANGED stateVars
  BY <1>0, <1>1, <1>12 DEF stateVars, StateTypeOK, CallUpTo
<1> QED
  BY <1>4, <1>5, <1>6, <1>7, <1>8, <1>9, <1>10, <1>11, <1>12 DEF StateNext, Syncs, MintRefused, GivesUp

\* Every variable has its type, and what is stored reads as a state.
THEOREM StateTypes == StateSpec => []StateTypeOK
BY InitTypes, NextTypes, PTL DEF StateSpec

\* The merge is order independent on everything a device can hold or read, ties
\* of the clock included (merge_fstate).
THEOREM MergesConverge == StateSpec => []MergeIsACRDT
<1>1. StateTypeOK => MergeIsACRDT
  <2> SUFFICES ASSUME StateTypeOK PROVE MergeIsACRDT
    OBVIOUS
  <2>1. \A a \in {local[d] : d \in Device} \cup {InSlot} : a \in State
    BY DEF StateTypeOK
  <2> QED
    BY <2>1, StateAlgebra DEF MergeIsACRDT
<1> QED
  BY <1>1, StateTypes, PTL

\* Every state a device may push is read back unchanged (fstate_to_bytes and
\* fstate_from_bytes).
THEOREM WireKeepsTheState == StateSpec => []StateSurvivesTheWire
<1>1. StateTypeOK => StateSurvivesTheWire
  BY StateWire DEF StateTypeOK, StateSurvivesTheWire
<1> QED
  BY <1>1, StateTypes, PTL

-----------------------------------------------------------------------------
(* No update is lost. *)

\* Nobody has synchronised yet: what was stored at the start can be pulled.
Fresh ==
  /\ fleetKey = 0 /\ slot.key = 0
  /\ \A d \in Device : holds[d] = 0 /\ call[d] = Idle

\* No state of the fleet is ahead of the best one.
Bounded ==
  \A p \in Part :
    /\ \A d \in Device : Below(OrderOf[p], local[d][p], best[p])
    /\ Below(OrderOf[p], InSlot[p], best[p])

\* Some device has the best entry; at the start the slot may be the only one.
Kept ==
  \A p \in Part : \A k \in DOMAIN best[p] :
    \/ \E d \in Device : Has(local[d][p], best[p], k)
    \/ Fresh /\ Has(InSlot[p], best[p], k)

\* Inductive: the types let the layers be compared, the bound keeps a pull from
\* replacing a best entry, and both are needed to show that it stays held.
LossInv == StateTypeOK /\ Bounded /\ Kept

\* The layers the invariant compares are layers.
LEMMA TypedParts ==
  ASSUME StateTypeOK, NEW p \in Part
  PROVE  /\ best[p] \in Layer(KeysOf[p], EntriesOf[p])
         /\ InSlot[p] \in Layer(KeysOf[p], EntriesOf[p])
         /\ \A d \in Device : local[d][p] \in Layer(KeysOf[p], EntriesOf[p])
BY StatesAreLayered DEF StateTypeOK

\* At the start the best entries are those of the slot, and nobody has any.
LEMMA InitKept == StateInit => Bounded /\ Kept
<1> SUFFICES ASSUME StateInit PROVE Bounded /\ Kept
  OBVIOUS
<1>1. PICK doc \in Stored : slot = Sealed(doc, 0)
  BY DEF StateInit
<1>2. slot.doc = doc /\ slot.key = 0
  BY <1>1 DEF Sealed
<1>3. best = InSlot
  BY DEF StateInit
<1>4. Fresh
  BY <1>2 DEF Fresh, StateInit
<1>5. \A p \in Part, d \in Device : DOMAIN local[d][p] = {}
  BY DEF StateInit, EmptyState, Nothing, Part
<1>6. Bounded
  BY <1>3, <1>5 DEF Bounded, Below
<1>7. Kept
  BY <1>3, <1>4 DEF Kept, Has
<1> QED
  BY <1>6, <1>7

\* A pull brings no device ahead of the best, and from the first document takes
\* over what only the slot had.
LEMMA PullKeeps ==
  ASSUME LossInv, NEW d \in Device, NEW purpose \in {"push", "mint"}, Pull(d, purpose)
  PROVE  Bounded' /\ Kept'
<1> DEFINE got == pull_fstate(d).state
<1>1. StateTypeOK /\ Bounded /\ Kept
  BY DEF LossInv
<1>2. /\ got \in State /\ local[d] \in State /\ best \in State
      /\ local \in [Device -> State] /\ InSlot' = InSlot /\ best' = best
  BY <1>1, PulledIsInSlot DEF StateTypeOK, Pull, InSlot
<1>3. got = InSlot
  BY PulledIsInSlot DEF Pull
<1>5. /\ local'[d] = merge_fstate(local[d], got)
      /\ \A e \in Device \ {d} : local'[e] = local[e]
  BY <1>2 DEF Pull
<1> HIDE DEF got
<1>6. ASSUME NEW p \in Part
      PROVE  /\ Below(OrderOf[p], local'[d][p], best[p])
             /\ \A k \in DOMAIN best[p] :
                  Has(local[d][p], best[p], k) \/ Has(got[p], best[p], k) => Has(local'[d][p], best[p], k)
  <2>1. /\ local[d][p] \in Layer(KeysOf[p], EntriesOf[p])
        /\ got[p] \in Layer(KeysOf[p], EntriesOf[p])
        /\ best[p] \in Layer(KeysOf[p], EntriesOf[p])
    BY <1>2, StatesAreLayered
  <2>2. Below(OrderOf[p], local[d][p], best[p]) /\ Below(OrderOf[p], got[p], best[p])
    BY <1>1, <1>3 DEF Bounded
  <2>3. local'[d][p] = Merged(OrderOf[p], local[d][p], got[p])
    BY <1>2, <1>5, PartsMerge
  <2>4. StrictOrder(OrderOf[p], EntriesOf[p])
    BY PartsAreOrdered
  <2> QED
    BY <2>1, <2>2, <2>3, <2>4, BelowBoth
<1>7. Bounded'
  BY <1>1, <1>2, <1>5, <1>6 DEF Bounded
<1>8. ASSUME NEW p \in Part, NEW k \in DOMAIN best[p]
      PROVE  \E e \in Device : Has(local'[e][p], best[p], k)
  <2>1. CASE \E e \in Device : Has(local[e][p], best[p], k)
    BY <1>5, <1>6, <2>1
  <2>2. CASE Fresh /\ Has(InSlot[p], best[p], k)
    BY <1>3, <1>6, <2>2
  <2> QED
    BY <1>1, <2>1, <2>2 DEF Kept
<1>9. Kept'
  BY <1>2, <1>8 DEF Kept
<1> QED
  BY <1>7, <1>9

\* A push overwrites the slot, and the devices still hold the best entries.
LEMMA PushKeeps ==
  ASSUME LossInv, NEW d \in Device, Push(d)
  PROVE  Bounded' /\ Kept'
<1>1. StateTypeOK /\ Bounded /\ Kept /\ local' = local /\ best' = best
  BY DEF LossInv, Push
<1>2. InSlot' = local[d]
  BY <1>1, PushedIsStored DEF StateTypeOK
<1>3. ~Fresh
  BY DEF Push, Fresh, Idle
<1>4. Bounded'
  BY <1>1, <1>2 DEF Bounded
<1>5. Kept'
  BY <1>1, <1>3 DEF Kept
<1> QED
  BY <1>4, <1>5

\* A write is newer than what its device held, so the best entry it does not
\* replace is held by another device, and the one it makes by this one.
LEMMA WritesKeep ==
  ASSUME LossInv, NEW d \in Device, NEW p \in Part, NEW j \in KeysOf[p], NEW f \in EntriesOf[p],
         Writes(d, p, j, f)
  PROVE  Bounded' /\ Kept'
<1>1. StateTypeOK /\ Bounded /\ Kept /\ InSlot' = InSlot /\ best' = merge_fstate(best, local'[d])
  BY DEF LossInv, Writes, InSlot
<1>2. Fresh' <=> Fresh
  BY DEF Writes, Fresh
<1>3. /\ local' \in [Device -> State] /\ best \in State
      /\ \A x \in Device \ {d} : local'[x] = local[x]
      /\ \A q \in Part \ {p} : local'[d][q] = local[d][q]
      /\ local'[d][p] = With(local[d][p], j, f)
  BY <1>1, WritesState DEF StateTypeOK
<1>4. ASSUME NEW q \in Part
      PROVE  /\ StrictOrder(OrderOf[q], EntriesOf[q])
             /\ best[q] \in Layer(KeysOf[q], EntriesOf[q])
             /\ InSlot[q] \in Layer(KeysOf[q], EntriesOf[q])
             /\ \A x \in Device : local[x][q] \in Layer(KeysOf[q], EntriesOf[q])
             /\ \A x \in Device : local'[x][q] \in Layer(KeysOf[q], EntriesOf[q])
             /\ best'[q] \in Layer(KeysOf[q], EntriesOf[q])
             /\ best'[q] = Merged(OrderOf[q], best[q], local'[d][q])
  <2>1. best' \in State
    BY <1>1, <1>3, StateMerge
  <2> QED
    BY <1>1, <1>3, <2>1, TypedParts, StatesAreLayered, PartsAreOrdered, PartsMerge
<1>5. ASSUME NEW q \in Part
      PROVE  Below(OrderOf[q], best[q], best'[q]) /\ Below(OrderOf[q], local'[d][q], best'[q])
  BY <1>4, BelowMerged
<1>6. Bounded'
  <2> SUFFICES ASSUME NEW q \in Part
               PROVE  /\ \A x \in Device : Below(OrderOf[q], local'[x][q], best'[q])
                      /\ Below(OrderOf[q], InSlot[q], best'[q])
    BY <1>1 DEF Bounded
  <2>1. Below(OrderOf[q], InSlot[q], best'[q])
    BY <1>1, <1>4, <1>5, BelowTransitive DEF Bounded
  <2>2. \A x \in Device \ {d} : Below(OrderOf[q], local'[x][q], best'[q])
    BY <1>1, <1>3, <1>4, <1>5, BelowTransitive DEF Bounded
  <2> QED
    BY <1>5, <2>1, <2>2
<1>7. ASSUME NEW q \in Part, NEW k \in DOMAIN best'[q]
      PROVE  \/ Has(local'[d][q], best'[q], k)
             \/ k \in DOMAIN best[q] /\ best'[q][k] = best[q][k] /\ ~Has(local[d][q], best[q], k)
  <2>1. CASE q = p
    <3>1. j \in DOMAIN local[d][p] => <<f, local[d][p][j]>> \in OrderOf[p]
      <4>1. Layered(local[d][p], KeysOf[p], EntriesOf[p])
        BY <1>4, LayerIs
      <4> QED
        BY <4>1, EntriesAreStamped DEF Writes, Layered
    <3> QED
      BY <1>3, <1>4, <2>1, <3>1, WriteIsKept
  <2>2. CASE q # p
    <3>1. local'[d][q] = local[d][q] /\ Below(OrderOf[q], local[d][q], best[q])
      BY <1>1, <1>3, <2>2 DEF Bounded
    <3>2. best'[q] = best[q]
      BY <1>4, <3>1, MergeBelow
    <3> QED
      BY <3>1, <3>2
  <2> QED
    BY <2>1, <2>2
<1>8. Kept'
  <2> SUFFICES ASSUME NEW q \in Part, NEW k \in DOMAIN best'[q]
               PROVE  \/ \E x \in Device : Has(local'[x][q], best'[q], k)
                      \/ Fresh /\ Has(InSlot[q], best'[q], k)
    BY <1>1, <1>2 DEF Kept
  <2>1. CASE Has(local'[d][q], best'[q], k)
    BY <2>1
  <2>2. CASE k \in DOMAIN best[q] /\ best'[q][k] = best[q][k] /\ ~Has(local[d][q], best[q], k)
    <3>1. \/ \E x \in Device : Has(local[x][q], best[q], k)
          \/ Fresh /\ Has(InSlot[q], best[q], k)
      BY <1>1, <2>2 DEF Kept
    <3> QED
      BY <1>3, <2>2, <3>1 DEF Has
  <2> QED
    BY <1>7, <2>1, <2>2
<1> QED
  BY <1>6, <1>8

\* So no step loses the newest write of an entry.
LEMMA NextKeeps == LossInv /\ [StateNext]_stateVars => LossInv'
<1> SUFFICES ASSUME LossInv, [StateNext]_stateVars PROVE Bounded' /\ Kept'
  BY NextTypes DEF LossInv
<1>0. StateTypeOK /\ Bounded /\ Kept
  BY DEF LossInv
<1>1. ASSUME NEW d \in Device, NEW purpose \in {"push", "mint"}, Pull(d, purpose) PROVE Bounded' /\ Kept'
  BY <1>1, PullKeeps
<1>2. ASSUME NEW d \in Device, Push(d) PROVE Bounded' /\ Kept'
  BY <1>2, PushKeeps
<1>3. ASSUME NEW d \in Device, EditsOf(d) PROVE Bounded' /\ Kept'
  <2>1. PICK p \in Part : \E k \in KeysOf[p] : \E e \in EntriesOf[p] : Writes(d, p, k, e)
    BY <1>0, <1>3, EditsOfWrite
  <2> QED
    BY <2>1, WritesKeep
<1>4. ASSUME NEW d \in Device, ReadsRevision(d) \/ Mint(d) \/ MintRefused(d) \/ GivesUp(d) \/ LearnKey(d)
      PROVE  Bounded' /\ Kept'
  <2>1. local' = local /\ best' = best /\ InSlot' = InSlot
    BY <1>4 DEF ReadsRevision, Mint, MintRefused, GivesUp, Ends, LearnKey, InSlot
  <2>2. ~Fresh
    BY <1>4 DEF ReadsRevision, Mint, MintRefused, GivesUp, LearnKey, Fresh, Idle
  <2> QED
    BY <1>0, <2>1, <2>2 DEF Bounded, Kept
<1>5. ASSUME NEW d \in Device, Upgrade(d) \/ UNCHANGED stateVars PROVE Bounded' /\ Kept'
  <2>1. local' = local /\ best' = best /\ InSlot' = InSlot /\ (Fresh' <=> Fresh)
    BY <1>5 DEF Upgrade, stateVars, InSlot, Fresh
  <2> QED
    BY <1>0, <2>1 DEF Bounded, Kept
<1> QED
  BY <1>1, <1>2, <1>3, <1>4, <1>5, StateAssumption DEF StateNext, Syncs

\* Blind pushes, new keys and stopping devices notwithstanding, the newest write
\* of every entry is held, or stored under a key a device holds (push_fstate).
THEOREM UpdatesAreKept == StateSpec => []NoUpdateIsLost
<1>1. StateInit => LossInv
  BY InitTypes, InitKept DEF LossInv
<1>2. LossInv => NoUpdateIsLost
  <2> SUFFICES ASSUME LossInv PROVE NoUpdateIsLost
    OBVIOUS
  <2>1. ASSUME NEW p \in Part, NEW k \in DOMAIN best[p]
        PROVE  \E st \in Held : k \in DOMAIN st[p] /\ st[p][k] = best[p][k]
    <3>1. CASE \E d \in Device : Has(local[d][p], best[p], k)
      BY <3>1 DEF Has, Held
    <3>2. CASE Fresh /\ Has(InSlot[p], best[p], k)
      BY <3>2, StateAssumption DEF Has, Held, Fresh
    <3> QED
      BY <2>1, <3>1, <3>2 DEF LossInv, Kept
  <2>2. "roster" \in Part /\ "globals" \in Part /\ "maps" \in Part
    BY DEF Part
  <2> QED
    BY <2>1, <2>2 DEF NoUpdateIsLost
<1> QED
  BY <1>1, <1>2, NextKeeps, PTL DEF StateSpec

-----------------------------------------------------------------------------
(* What cannot be read and could be seen is not overwritten.  A device of  *)
(* this build that is in a call while such a document is stored pulled     *)
(* before it came; only the push of a newer build can have stored it, and  *)
(* that made the call late.                                                *)

ForeignMakesLate ==
  Foreign(slot.doc) => \A d \in Device \ upgraded : call[d] # Idle => d \in late

\* This build does not pull what is foreign to it.
LEMMA ForeignIsNotPulled ==
  ASSUME Foreign(slot.doc), NEW d, d \notin upgraded
  PROVE  ~pull_fstate(d).ok
<1>1. slot.doc.kind \in {"broken", "document"}
  BY DEF Foreign
<1>2. CASE slot.key # holds[d]
  BY <1>1, <1>2 DEF pull_fstate, Unreadable
<1>3. CASE slot.key = holds[d] /\ slot.doc.kind = "broken"
  BY <1>3 DEF pull_fstate, Parses, fstate_from_bytes, Unreadable
<1>4. CASE slot.key = holds[d] /\ slot.doc.kind = "document"
  <2>1. ~(SettingsReadable(slot.doc.globals) /\ SettingsReadable(slot.doc.devices))
    BY <1>4 DEF Foreign, SettingsReadable, VersionMatches
  <2> QED
    BY <1>4, <2>1 DEF pull_fstate, Parses, fstate_from_bytes, Unreadable
<1> QED
  BY <1>1, <1>2, <1>3, <1>4

\* Nor does it store anything foreign.
LEMMA PushedIsNotForeign ==
  ASSUME NEW d, d \notin upgraded, NEW key
  PROVE  ~Foreign(Sealed(Document(d), key).doc)
BY DEF Foreign, Sealed, Document, fstate_to_bytes, Section

\* Every step keeps the invariant, and only a push of a newer build or a late
\* one replaces what is foreign.
LEMMA ForeignStep ==
  ASSUME StateTypeOK, ForeignMakesLate, [StateNext]_stateVars
  PROVE  /\ ForeignMakesLate'
         /\ Foreign(slot.doc) /\ slot' # slot => \E d \in upgraded \cup late : Push(d)
<1> DEFINE Stays == Foreign(slot.doc) /\ slot' # slot => \E d \in upgraded \cup late : Push(d)
<1>0. DOMAIN call = Device /\ upgraded \subseteq Device /\ late \subseteq Device
  BY StateAssumption DEF StateTypeOK
<1>2. ASSUME NEW d \in Device, NEW purpose, Pull(d, purpose) PROVE ForeignMakesLate' /\ Stays
  <2>1. slot' = slot /\ upgraded' = upgraded /\ late' = late /\ \A e \in Device \ {d} : call'[e] = call[e]
    BY <1>0, <1>2 DEF Pull
  <2>2. Foreign(slot.doc) => d \in upgraded
    BY <1>2, ForeignIsNotPulled DEF Pull
  <2> QED
    BY <2>1, <2>2 DEF ForeignMakesLate
<1>3. ASSUME NEW d \in Device, Push(d) PROVE ForeignMakesLate' /\ Stays
  <2>1. /\ call[d] # Idle /\ slot' = Sealed(Document(d), call[d].key) /\ upgraded' = upgraded
        /\ call'[d] = Idle /\ \A e \in Device \ {d} : call'[e] = call[e]
    BY <1>0, <1>3 DEF Push, Idle
  <2>2. CASE d \in upgraded
    <3>1. late' = {x \in Device \ {d} : call[x] # Idle}
      BY <1>3, <2>2 DEF Push
    <3>2. ForeignMakesLate'
      BY <2>1, <3>1 DEF ForeignMakesLate
    <3> QED
      BY <1>3, <2>2, <3>2
  <2>3. CASE d \notin upgraded
    <3>1. ~Foreign(slot'.doc)
      BY <2>1, <2>3, PushedIsNotForeign
    <3>2. Foreign(slot.doc) => d \in late
      BY <2>1, <2>3 DEF ForeignMakesLate
    <3> QED
      BY <1>3, <3>1, <3>2 DEF ForeignMakesLate
  <2> QED
    BY <2>2, <2>3
<1>4. ASSUME NEW d \in Device, ReadsRevision(d) \/ Mint(d) PROVE ForeignMakesLate' /\ Stays
  <2>1. /\ call[d] # Idle /\ slot' = slot /\ upgraded' = upgraded /\ late' = late
        /\ \A e \in Device \ {d} : call'[e] = call[e]
    BY <1>0, <1>4 DEF ReadsRevision, Mint, Idle
  <2> QED
    BY <2>1 DEF ForeignMakesLate
<1>5. ASSUME NEW d \in Device, Ends(d) PROVE ForeignMakesLate' /\ Stays
  <2>1. /\ call'[d] = Idle /\ slot' = slot /\ upgraded' = upgraded /\ late' = late \ {d}
        /\ \A e \in Device \ {d} : call'[e] = call[e]
    BY <1>0, <1>5 DEF Ends
  <2> QED
    BY <2>1 DEF ForeignMakesLate
<1>6. ASSUME NEW d \in Device, LearnKey(d) \/ Upgrade(d) PROVE ForeignMakesLate' /\ Stays
  <2>1. slot' = slot /\ upgraded \subseteq upgraded' /\ late' = late /\ call' = call
    BY <1>6 DEF LearnKey, Upgrade
  <2> QED
    BY <2>1 DEF ForeignMakesLate
<1>7. ASSUME NEW d \in Device, EditsOf(d) PROVE ForeignMakesLate' /\ Stays
  <2>1. slot' = slot /\ upgraded' = upgraded /\ late' = late /\ call' = call
    BY <1>7 DEF EditsOf, Befriend, Unfriend, Knock, Promote, SetGlobal, ClearGlobal, SetOwn, Edits
  <2> QED
    BY <2>1 DEF ForeignMakesLate
<1>8. ASSUME UNCHANGED stateVars PROVE ForeignMakesLate' /\ Stays
  BY <1>8 DEF stateVars, ForeignMakesLate
<1> QED
  BY <1>2, <1>3, <1>4, <1>5, <1>6, <1>7, <1>8 DEF StateNext, Syncs, MintRefused, GivesUp

\* Settings this build cannot read are stored over by a newer build, or in a call
\* that had pulled before they came, and in no other way, however pulls, pushes,
\* mints and upgrades of several devices interleave (pull_fstate, push_fstate).
THEOREM SeenForeignIsKept == StateSpec => SeenForeignStays
<1>1. StateInit => ForeignMakesLate
  BY DEF StateInit, ForeignMakesLate
<1>2. StateTypeOK /\ ForeignMakesLate /\ [StateNext]_stateVars => ForeignMakesLate'
  BY ForeignStep
<1>3. StateTypeOK /\ ForeignMakesLate /\ [StateNext]_stateVars
        => [Foreign(slot.doc) /\ slot' # slot => \E d \in upgraded \cup late : Push(d)]_stateVars
  BY ForeignStep
<1> QED
  BY <1>1, <1>2, <1>3, StateTypes, PTL DEF StateSpec, SeenForeignStays
=============================================================================

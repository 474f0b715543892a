--------------------------- MODULE TraversalProofs ---------------------------
(***************************************************************************)
(* The theorems of Traversal, for any networks, observers and bounds: an   *)
(* adopted address was corroborated since the state was cleared, and a     *)
(* peer that asks for its own subnet aims at no private address of another.*)
(***************************************************************************)
EXTENDS Traversal, FiniteSetTheorems, TLAPS

\* Where the node is, what it is told and what is published of it.
PlacesAreReal ==
  /\ net \in Net /\ binding \in Nat /\ moves \in Nat
  /\ binding <= moves /\ moves <= MaxMoves /\ group \in BOOLEAN
  /\ echo \in [Observer -> Addresses \cup {None, RELAY_ADDR}]
  /\ slot \in [{4, 6} -> Addresses \cup {None}]
  /\ \A f \in {4, 6} : slot[f] # None => slot[f].family = f
  /\ reflexive \in Addresses \cup {None}
  /\ policy \in LanPolicy
  /\ known \in [public : Addresses \cup {None}, lan : {LocalV4(n) : n \in Net} \cup {None}]

\* An entry for an address, once, of strangers that claimed it since the state was
\* cleared.
Entry == [addr : Addresses, voters : SUBSET (Observer \ Trusted)]
Listed(list) == \A i, j \in DOMAIN list : list[i].addr = list[j].addr => i = j
Backed(list, cs) == \A i \in DOMAIN list : \A o \in list[i].voters : <<list[i].addr, o>> \in cs
VotesAreClaims ==
  /\ votes \in Seq(Entry) /\ Len(votes) <= MAX_PENDING
  /\ Listed(votes) /\ Backed(votes, claims)

\* A path is kept no longer than it may be.
PathAges ==
  /\ path = [remote |-> path.remote, age |-> path.age, silent |-> path.silent]
  /\ path.age \in 0..PATH_TTL /\ path.silent \in Nat

TraversalInv == PlacesAreReal /\ VotesAreClaims /\ PathAges
-----------------------------------------------------------------------------
(* The list of votes. *)

\* Cutting out a position moves up what is behind it.
LEMMA CutsOut ==
  ASSUME NEW E, NEW s \in Seq(E), NEW p \in DOMAIN s
  PROVE  LET w == RemoveAt(s, p)
         IN  /\ w \in Seq(E) /\ Len(w) = Len(s) - 1
             /\ \A i \in DOMAIN w : w[i] = s[IF i < p THEN i ELSE i + 1]
<1> DEFINE u == SubSeq(s, 1, p - 1)
           v == SubSeq(s, p + 1, Len(s))
<1>1. p \in 1..Len(s) /\ Len(s) \in Nat
  OBVIOUS
<1>2. u \in Seq(E) /\ Len(u) = p - 1 /\ \A i \in 1..(p - 1) : u[i] = s[i]
  BY <1>1
<1>3. v \in Seq(E) /\ Len(v) = Len(s) - p /\ \A i \in 1..(Len(s) - p) : v[i] = s[p + i]
  BY <1>1
<1> HIDE DEF u, v
<1>4. u \o v \in Seq(E) /\ Len(u \o v) = Len(s) - 1
  BY <1>1, <1>2, <1>3
<1>5. ASSUME NEW i \in 1..(Len(s) - 1) PROVE (u \o v)[i] = s[IF i < p THEN i ELSE i + 1]
  <2>1. CASE i < p
    BY <1>1, <1>2, <1>3, <2>1
  <2>2. CASE i >= p
    <3>1. (u \o v)[i] = v[i - Len(u)]
      BY <1>1, <1>2, <1>3, <2>2
    <3>2. i - Len(u) \in 1..(Len(s) - p) /\ p + (i - Len(u)) = i + 1
      BY <1>1, <1>2, <2>2
    <3> QED
      BY <1>1, <1>3, <2>2, <3>1, <3>2
  <2>3. i < p \/ i >= p
    BY <1>1
  <2> QED
    BY <2>1, <2>2, <2>3, Zenon
<1>6. RemoveAt(s, p) = u \o v
  BY DEF RemoveAt, u, v
<1>7. DOMAIN (u \o v) = 1..(Len(s) - 1)
  BY <1>4
<1> QED
  BY <1>4, <1>5, <1>6, <1>7

\* A list without an address is a list of what is left.
LEMMA WithoutKeeps ==
  ASSUME NEW list \in Seq(Entry), NEW a, NEW cs, Listed(list), Backed(list, cs)
  PROVE  LET w == Without(list, a)
         IN  w \in Seq(Entry) /\ Len(w) <= Len(list) /\ Listed(w) /\ Backed(w, cs)
<1> DEFINE at == {i \in DOMAIN list : list[i].addr = a}
<1>1. CASE at = {}
  BY <1>1 DEF Without
<1>2. CASE at # {}
  <2>1. PICK p \in DOMAIN list : Without(list, a) = RemoveAt(list, p)
    BY <1>2 DEF Without
  <2> DEFINE w == RemoveAt(list, p)
  <2>2. /\ w \in Seq(Entry) /\ Len(w) = Len(list) - 1
        /\ \A i \in DOMAIN w : w[i] = list[IF i < p THEN i ELSE i + 1]
    BY CutsOut
  <2> HIDE DEF w
  <2>3. Len(list) \in Nat /\ p \in 1..Len(list) /\ DOMAIN list = 1..Len(list) /\ DOMAIN w = 1..(Len(list) - 1)
    BY <2>2
  <2>4. \A i \in DOMAIN w : (IF i < p THEN i ELSE i + 1) \in DOMAIN list
    BY <2>3
  <2>5. Listed(w)
    BY <2>2, <2>3, <2>4 DEF Listed
  <2>6. Backed(w, cs)
    BY <2>2, <2>4 DEF Backed
  <2> QED
    BY <2>1, <2>2, <2>3, <2>5, <2>6 DEF w
<1> QED
  BY <1>1, <1>2

\* Marking a voter in every entry of an address leaves the list otherwise as it is.
LEMMA MarkKeeps ==
  ASSUME NEW listed \in Seq(Entry), NEW a, NEW from \in Observer \ Trusted, NEW cs,
         Listed(listed), Backed(listed, cs)
  PROVE  LET w == [i \in DOMAIN listed |->
                     IF listed[i].addr = a THEN [listed[i] EXCEPT !.voters = @ \cup {from}] ELSE listed[i]]
         IN  /\ w \in Seq(Entry) /\ Len(w) = Len(listed) /\ Listed(w)
             /\ Backed(w, cs \cup {<<a, from>>})
<1> DEFINE w == [i \in DOMAIN listed |->
                   IF listed[i].addr = a THEN [listed[i] EXCEPT !.voters = @ \cup {from}] ELSE listed[i]]
<1>1. ASSUME NEW i \in DOMAIN listed
      PROVE  /\ w[i] \in Entry /\ w[i].addr = listed[i].addr
             /\ \A o \in w[i].voters : o \in listed[i].voters \/ (o = from /\ listed[i].addr = a)
  <2>1. listed[i] \in Entry
    OBVIOUS
  <2>2. CASE listed[i].addr = a
    <3>1. w[i] = [addr |-> listed[i].addr, voters |-> listed[i].voters \cup {from}]
      BY <2>1, <2>2 DEF Entry
    <3> QED
      BY <2>1, <2>2, <3>1 DEF Entry
  <2>3. CASE listed[i].addr # a
    BY <2>1, <2>3
  <2> QED
    BY <2>2, <2>3
<1>2. DOMAIN w = DOMAIN listed /\ DOMAIN listed = 1..Len(listed) /\ Len(listed) \in Nat
  OBVIOUS
<1> HIDE DEF w
<1>3. w \in Seq(Entry) /\ Len(w) = Len(listed)
  <2>1. w = [i \in 1..Len(listed) |-> w[i]]
    BY <1>2 DEF w
  <2>2. \A i \in 1..Len(listed) : w[i] \in Entry
    BY <1>1, <1>2
  <2> QED
    BY <1>2, <2>1, <2>2
<1>4. Listed(w)
  BY <1>1, <1>2 DEF Listed
<1>5. Backed(w, cs \cup {<<a, from>>})
  BY <1>1, <1>2 DEF Backed
<1> QED
  BY <1>3, <1>4, <1>5 DEF w

\* A tally lists an address once, keeps to the bound, and counts claims only.
LEMMA TallyKeeps ==
  ASSUME VotesAreClaims, NEW a \in Addresses, NEW from \in Observer \ Trusted
  PROVE  LET t == Tally(a, from)
         IN  /\ t \in Seq(Entry) /\ Len(t) <= MAX_PENDING
             /\ Listed(t) /\ Backed(t, claims \cup {<<a, from>>})
<1> DEFINE kept == IF Len(votes) >= MAX_PENDING THEN Tail(votes) ELSE votes
           new == [addr |-> a, voters |-> {}]
           listed == IF \E i \in DOMAIN votes : votes[i].addr = a THEN votes ELSE Append(kept, new)
<1>1. votes \in Seq(Entry) /\ Len(votes) \in Nat /\ Len(votes) <= MAX_PENDING /\ new \in Entry
      /\ DOMAIN votes = 1..Len(votes) /\ MAX_PENDING \in Nat \ {0}
  BY TraversalAssumption DEF VotesAreClaims, Entry
<1>2. /\ listed \in Seq(Entry) /\ Len(listed) <= MAX_PENDING
      /\ Listed(listed) /\ Backed(listed, claims)
  <2>1. CASE \E i \in DOMAIN votes : votes[i].addr = a
    BY <2>1 DEF VotesAreClaims
  <2>2. CASE ~\E i \in DOMAIN votes : votes[i].addr = a
    <3> DEFINE k == IF Len(votes) >= MAX_PENDING THEN 1 ELSE 0
    <3>1. /\ k \in {0, 1} /\ kept \in Seq(Entry) /\ Len(kept) = Len(votes) - k /\ Len(kept) < MAX_PENDING
          /\ \A i \in 1..Len(kept) : kept[i] = votes[i + k]
      <4>1. CASE Len(votes) >= MAX_PENDING
        <5>1. votes # <<>> /\ Len(votes) = MAX_PENDING /\ k = 1 /\ kept = Tail(votes)
          <6>1. Len(votes) = MAX_PENDING /\ MAX_PENDING > 0
            <7>1. Len(votes) \in Int /\ MAX_PENDING \in Int /\ MAX_PENDING > 0 /\ Len(votes) <= MAX_PENDING
              BY <1>1, TraversalAssumption
            <7> QED
              BY <4>1, <7>1
          <6>2. votes # <<>>
            BY <1>1, <6>1
          <6> QED
            BY <4>1, <6>1, <6>2
        <5>2. /\ Tail(votes) \in Seq(Entry) /\ Len(Tail(votes)) = Len(votes) - 1
              /\ \A i \in 1..(Len(votes) - 1) : Tail(votes)[i] = votes[i + 1]
          BY <1>1, <5>1
        <5> HIDE DEF kept, k
        <5> QED
          BY <1>1, <4>1, <5>1, <5>2
      <4>2. CASE ~(Len(votes) >= MAX_PENDING)
        <5>1. k = 0 /\ kept = votes
          BY <4>2
        <5>2. \A i \in 1..Len(votes) : votes[i + 0] = votes[i]
          BY <1>1
        <5> HIDE DEF kept, k
        <5> QED
          BY <1>1, <4>2, <5>1, <5>2
      <4> QED
        BY <4>1, <4>2
    <3> HIDE DEF k
    <3> HIDE DEF kept
    <3>2. /\ listed = Append(kept, new) /\ Len(kept) \in Nat
          /\ listed \in Seq(Entry) /\ Len(listed) = Len(kept) + 1
          /\ DOMAIN listed = 1..(Len(kept) + 1)
          /\ listed[Len(kept) + 1] = new
          /\ \A i \in 1..Len(kept) : listed[i] = votes[i + k] /\ i + k \in DOMAIN votes
      BY <1>1, <2>2, <3>1
    <3> HIDE DEF listed
    <3>3. Listed(listed)
      <4>1. \A i \in 1..Len(kept) : listed[i].addr # a
        BY <2>2, <3>2
      <4>2. \A i \in DOMAIN listed : i \in 1..Len(kept) \/ i = Len(kept) + 1
        BY <3>2
      <4>3. \A i, j \in 1..Len(kept) : listed[i].addr = listed[j].addr => i = j
        <5> SUFFICES ASSUME NEW i \in 1..Len(kept), NEW j \in 1..Len(kept), listed[i].addr = listed[j].addr
                     PROVE  i = j
          OBVIOUS
        <5>1. k \in Int /\ i \in Int /\ j \in Int /\ Listed(votes)
          BY <3>1 DEF VotesAreClaims
        <5>2. i + k = j + k
          BY <3>2, <5>1 DEF Listed
        <5> QED
          BY <5>1, <5>2
      <4>4. listed[Len(kept) + 1].addr = a
        BY <3>2
      <4> HIDE DEF new
      <4> QED
        BY <4>1, <4>2, <4>3, <4>4 DEF Listed
    <3>4. Backed(listed, claims)
      <4>1. \A i \in DOMAIN listed : i \in 1..Len(kept) \/ i = Len(kept) + 1
        BY <3>2
      <4>2. \A i \in 1..Len(kept) : \A o \in listed[i].voters : <<listed[i].addr, o>> \in claims
        BY <3>2 DEF VotesAreClaims, Backed
      <4>3. listed[Len(kept) + 1].voters = {}
        BY <3>2
      <4> HIDE DEF new
      <4> QED
        BY <4>1, <4>2, <4>3 DEF Backed
    <3> QED
      BY <1>1, <3>1, <3>2, <3>3, <3>4
  <2> QED
    BY <2>1, <2>2
<1> HIDE DEF listed
<1>3. Tally(a, from) = [i \in DOMAIN listed |->
                   IF listed[i].addr = a THEN [listed[i] EXCEPT !.voters = @ \cup {from}] ELSE listed[i]]
  BY DEF Tally, listed
<1> DEFINE t == [i \in DOMAIN listed |->
                   IF listed[i].addr = a THEN [listed[i] EXCEPT !.voters = @ \cup {from}] ELSE listed[i]]
<1>4. t \in Seq(Entry) /\ Len(t) = Len(listed) /\ Listed(t) /\ Backed(t, claims \cup {<<a, from>>})
  BY <1>2, MarkKeeps
<1> HIDE DEF t
<1>5. Tally(a, from) = t
  BY <1>3 DEF t
<1> QED
  BY <1>2, <1>4, <1>5
-----------------------------------------------------------------------------
(* Addresses. *)

\* What is seen of the node is a real address of one of its networks.
LEMMA AddressesAreReal ==
  ASSUME NEW a \in Addresses
  PROVE  /\ a.family \in {4, 6} /\ a.scope \in {"public", "lan"}
         /\ a # None /\ ~is_bogus_addr(a) /\ a # RELAY_ADDR
<1>1. CASE \E n \in Net, b \in 0..MaxMoves : a = PublicOf(n, b)
  BY <1>1, TraversalAssumption DEF PublicOf, Address, None, RELAY_ADDR, is_bogus_addr
<1>2. CASE \E n \in Net : a = LanOf(n)
  BY <1>2, TraversalAssumption DEF LanOf, Address, None, RELAY_ADDR, is_bogus_addr
<1> QED
  BY <1>1, <1>2 DEF Addresses

LEMMA TheRelayIsBogus == is_bogus_addr(RELAY_ADDR) /\ RELAY_ADDR # None
BY DEF is_bogus_addr, RELAY_ADDR, Address, None

\* Observers see real addresses, or the relay's.
LEMMA SeenIsReal ==
  ASSUME PlacesAreReal, NEW o \in Observer, NEW a \in Sees(o)
  PROVE  a \in Addresses \cup {RELAY_ADDR}
<1>1. net \in Net /\ binding \in 0..MaxMoves
  BY TraversalAssumption DEF PlacesAreReal
<1>2. LanOf(net) \in Addresses /\ PublicOf(net, binding) \in Addresses
  BY <1>1 DEF Addresses
<1> QED
  BY <1>2 DEF Sees

-----------------------------------------------------------------------------
(* What an echo does. *)

\* The word of a contact, or claims of enough strangers.
Corroborated(a, o, cs) ==
  o \in Trusted \/ Cardinality({w \in Observer : <<a, w>> \in cs}) >= QUORUM

\* A quorum in a tally is a quorum of claims.
LEMMA QuorumsAreClaims ==
  ASSUME NEW t \in Seq(Entry), NEW cs, Backed(t, cs), NEW a, HasQuorum(t, a)
  PROVE  Cardinality({w \in Observer : <<a, w>> \in cs}) >= QUORUM
<1> DEFINE W == {w \in Observer : <<a, w>> \in cs}
<1>1. PICK i \in DOMAIN t : t[i].addr = a /\ Cardinality(t[i].voters) >= QUORUM
  BY DEF HasQuorum
<1>2. t[i] \in Entry
  OBVIOUS
<1>3. t[i].voters \subseteq W
  BY <1>1, <1>2 DEF Backed, Entry
<1>4. IsFiniteSet(W)
  BY TraversalAssumption, FS_Subset
<1>5. Cardinality(t[i].voters) <= Cardinality(W) /\ IsFiniteSet(t[i].voters)
  BY <1>3, <1>4, FS_Subset
<1>6. Cardinality(W) \in Int /\ Cardinality(t[i].voters) \in Int /\ QUORUM \in Int
  BY <1>4, <1>5, FS_CardinalityType, TraversalAssumption
<1> HIDE DEF W
<1>7. Cardinality(W) >= QUORUM
  BY <1>1, <1>5, <1>6
<1> QED
  BY <1>7 DEF W

\* An echo leaves the slots alone, or fills the one of its family with an address
\* that is corroborated; the votes stay claims.
LEMMA HearEffect ==
  ASSUME PlacesAreReal, VotesAreClaims, NEW o \in Observer, Hear(o)
  PROVE  /\ VotesAreClaims'
         /\ \/ UNCHANGED <<slot, reflexive>>
            \/ /\ echo[o] \in Addresses /\ reflexive' = echo[o]
               /\ slot' = [slot EXCEPT ![echo[o].family] = echo[o]]
               /\ Corroborated(echo[o], o, claims')
<1> DEFINE a == echo[o]
           tally == IF o \in Trusted THEN votes ELSE Tally(a, o)
<1>1. a \in Addresses \cup {RELAY_ADDR} /\ record(a, o)
      /\ claims' = IF o \in Trusted \/ is_bogus_addr(a) THEN claims ELSE claims \cup {<<a, o>>}
  BY DEF Hear, PlacesAreReal
<1>2. CASE is_bogus_addr(a)
  <2>1. UNCHANGED <<votes, slot, reflexive, claims>>
    BY <1>1, <1>2 DEF record, Ignores
  <2> QED
    BY <2>1 DEF VotesAreClaims
<1>3. CASE ~is_bogus_addr(a)
  <2>1. a \in Addresses
    BY <1>1, <1>3, TheRelayIsBogus
  <2>2. /\ tally \in Seq(Entry) /\ Len(tally) <= MAX_PENDING
        /\ Listed(tally) /\ Backed(tally, claims')
    <3>1. CASE o \in Trusted
      BY <1>1, <3>1 DEF VotesAreClaims
    <3>2. CASE o \notin Trusted
      BY <1>1, <1>3, <2>1, <3>2, TallyKeeps
    <3> QED
      BY <3>1, <3>2
  <2>3. \/ Ignores(tally)
        \/ Adopts(a, tally) /\ (o \in Trusted \/ HasQuorum(tally, a))
    BY <1>1, <1>3 DEF record
  <2> HIDE DEF tally
  <2>4. CASE Ignores(tally)
    BY <2>2, <2>4 DEF Ignores, VotesAreClaims
  <2>5. CASE Adopts(a, tally) /\ (o \in Trusted \/ HasQuorum(tally, a))
    <3>1. PICK w, cs : w = Without(tally, a) /\ cs = claims'
      OBVIOUS
    <3>2. w \in Seq(Entry) /\ Len(w) <= Len(tally) /\ Listed(w) /\ Backed(w, cs)
      BY <2>2, <3>1, WithoutKeeps
    <3>3. votes' = w /\ slot' = [slot EXCEPT ![a.family] = a] /\ reflexive' = a
      BY <2>5, <3>1 DEF Adopts
    <3>4. Len(w) <= MAX_PENDING
      <4>1. Len(w) \in Int /\ Len(tally) \in Int /\ MAX_PENDING \in Int
        BY <2>2, <3>2, TraversalAssumption
      <4> QED
        BY <2>2, <3>2, <4>1
    <3>5. VotesAreClaims'
      BY <3>1, <3>2, <3>3, <3>4 DEF VotesAreClaims
    <3>6. Corroborated(a, o, claims')
      BY <2>2, <2>5, QuorumsAreClaims DEF Corroborated
    <3> QED
      BY <2>1, <3>3, <3>5, <3>6
  <2> QED
    BY <2>3, <2>4, <2>5
<1> QED
  BY <1>2, <1>3

\* An address that fills the slot of its family leaves the slots well formed.
LEMMA SlotsStayReal ==
  ASSUME PlacesAreReal, NEW a \in Addresses
  PROVE  LET s == [slot EXCEPT ![a.family] = a]
         IN  /\ s \in [{4, 6} -> Addresses \cup {None}]
             /\ \A f \in {4, 6} : s[f] # None => s[f].family = f
             /\ \A f \in {4, 6} : s[f] # slot[f] => s[f] = a
<1>1. a.family \in {4, 6}
  BY AddressesAreReal
<1> QED
  BY <1>1 DEF PlacesAreReal

LEMMA HearKeeps ==
  ASSUME TraversalInv, NEW o \in Observer, Hear(o)
  PROVE  TraversalInv'
<1> USE DEF TraversalInv
<1>1. UNCHANGED <<placeVars, peerVars>> /\ echo' = [echo EXCEPT ![o] = None]
  BY DEF Hear
<1>2. echo' \in [Observer -> Addresses \cup {None, RELAY_ADDR}]
  BY <1>1 DEF PlacesAreReal
<1>3. /\ slot' \in [{4, 6} -> Addresses \cup {None}]
      /\ \A f \in {4, 6} : slot'[f] # None => slot'[f].family = f
      /\ reflexive' \in Addresses \cup {None}
  BY HearEffect, SlotsStayReal DEF PlacesAreReal
<1>4. Addresses' = Addresses
  BY DEF Addresses, PublicOf, LanOf, Address
<1>5. PlacesAreReal'
  BY <1>1, <1>2, <1>3 DEF PlacesAreReal, placeVars, peerVars
<1> QED
  BY <1>1, <1>5, HearEffect DEF PathAges, peerVars
-----------------------------------------------------------------------------
(* Candidates. *)

\* A set that lists each address once.
Distinct(set) == \A c, e \in set : c.addr = e.addr => c = e

\* A candidate that is added is listed, or an entry for its address gives way or
\* stays: nothing else comes in, and each address stays listed once.
LEMMA AddKeeps ==
  ASSUME NEW set, NEW c, IsFiniteSet(set), Distinct(set)
  PROVE  /\ add(set, c) \subseteq set \cup {c}
         /\ IsFiniteSet(add(set, c)) /\ Distinct(add(set, c))
<1>1. add(set, c) \subseteq set \cup {c}
  BY DEF add
<1>2. IsFiniteSet(add(set, c))
  BY <1>1, FS_AddElement, FS_Subset
<1>3. Distinct(add(set, c))
  <2>1. CASE \E e \in set : e.addr = c.addr
    BY <2>1 DEF add, Distinct
  <2>2. CASE ~\E e \in set : e.addr = c.addr
    BY <2>2 DEF add, Distinct
  <2> QED
    BY <2>1, <2>2
<1> QED
  BY <1>1, <1>2, <1>3

\* What the peer aims at.
Aimable(c) ==
  /\ is_private_ipv4(c.addr) =>
       c.kind = "HostV4Lan" /\ (policy = AnyUsable \/ peer_lan_reachable(c.addr, policy.our_v4))
  /\ c.addr.scope # "unspecified"

\* A set of such candidates, each address once.
Good(set) == (\A c \in set : Aimable(c)) /\ IsFiniteSet(set) /\ Distinct(set)

LEMMA AddIsGood ==
  ASSUME NEW set, Good(set), NEW c, Aimable(c)
  PROVE  Good(add(set, c))
BY AddKeeps DEF Good

\* A LAN address joins under the policy only.
LEMMA AddsLanIsGood ==
  ASSUME NEW set, Good(set), NEW a
  PROVE  Good(AddsLan(set, a))
<1>1. CASE ~(a # None /\ admits(a))
  BY <1>1 DEF AddsLan
<1>2. CASE a # None /\ admits(a)
  <2>1. Aimable(Candidate(a, "HostV4Lan"))
    BY <1>2 DEF Aimable, Candidate, admits, is_usable_lan_ipv4
  <2> QED
    BY <1>2, <2>1, AddIsGood DEF AddsLan
<1> QED
  BY <1>1, <1>2

\* What the public column holds joins as what it is.
LEMMA AddsPublicIsGood ==
  ASSUME NEW set, Good(set), NEW a \in Addresses \cup {None}
  PROVE  Good(AddsPublic(set, a))
<1>1. CASE a = None \/ is_bogus_addr(a)
  BY <1>1 DEF AddsPublic
<1>2. CASE ~(a = None \/ is_bogus_addr(a)) /\ is_private_ipv4(a)
  BY <1>2, AddsLanIsGood DEF AddsPublic
<1>3. CASE ~(a = None \/ is_bogus_addr(a)) /\ ~is_private_ipv4(a)
  <2>1. Aimable(Candidate(a, public_kind(a)))
    BY <1>3 DEF Aimable, Candidate, is_bogus_addr
  <2> QED
    BY <1>3, <2>1, AddIsGood DEF AddsPublic
<1> QED
  BY <1>1, <1>2, <1>3

\* A Wi-Fi Direct address is of no LAN.
LEMMA AddsP2pIsGood ==
  ASSUME NEW set, Good(set), NEW p2p \in {P2p, None}
  PROVE  Good(AddsP2p(set, p2p))
<1>1. CASE p2p = None
  BY <1>1 DEF AddsP2p
<1>2. CASE p2p # None
  <2>1. Aimable(Candidate(p2p, "HostV4P2p"))
    BY <1>2 DEF Aimable, Candidate, P2p, Address, is_private_ipv4
  <2> QED
    BY <1>2, <2>1, AddIsGood DEF AddsP2p
<1> QED
  BY <1>1, <1>2

\* Every candidate is aimable, and each address listed once.
LEMMA CandidatesAreAimable ==
  ASSUME PlacesAreReal
  PROVE  /\ \A c \in Candidates : Aimable(c)
         /\ IsFiniteSet(Candidates) /\ Distinct(Candidates)
<1> DEFINE first == AddsPublic({}, known.public)
           second == AddsLan(first, known.lan)
           p2p == IF group THEN P2p ELSE None
<1>1. Good({})
  BY FS_EmptySet DEF Good, Distinct
<1>2. Good(first)
  BY <1>1, AddsPublicIsGood DEF PlacesAreReal
<1>3. Good(second)
  BY <1>2, AddsLanIsGood
<1>4. Good(AddsP2p(second, p2p))
  BY <1>3, AddsP2pIsGood
<1> QED
  BY <1>4 DEF Good, Candidates, gather_peer_candidates

-----------------------------------------------------------------------------
(* The inductive invariant. *)

\* Clearing forgets slots, votes and claims together.
LEMMA ClearKeeps ==
  ASSUME TraversalInv, clear
  PROVE  /\ VotesAreClaims' /\ reflexive' = None
         /\ slot' = [f \in {4, 6} |-> None]
<1>1. votes' = <<>> /\ reflexive' = None /\ slot' = [f \in {4, 6} |-> None]
  BY DEF clear
<1>2. <<>> \in Seq(Entry) /\ Len(<<>>) = 0 /\ 0 <= MAX_PENDING /\ DOMAIN <<>> = {}
  BY TraversalAssumption
<1> QED
  BY <1>1, <1>2 DEF VotesAreClaims, Listed, Backed

LEMMA TraversalStep ==
  ASSUME TraversalInv, [TraversalNext]_traversalVars
  PROVE  TraversalInv'
<1> USE DEF TraversalInv
<1> USE TraversalAssumption
<1>0. CASE UNCHANGED traversalVars
  BY <1>0 DEF traversalVars, placeVars, nodeVars, peerVars, PlacesAreReal, VotesAreClaims, PathAges
<1>1. ASSUME NEW o \in Observer, Echo(o) PROVE TraversalInv'
  <2>1. PICK a \in Sees(o) : echo' = [echo EXCEPT ![o] = a]
    BY <1>1 DEF Echo
  <2>2. a \in Addresses \cup {None, RELAY_ADDR}
    BY SeenIsReal
  <2>3. echo' \in [Observer -> Addresses \cup {None, RELAY_ADDR}]
    BY <2>1, <2>2 DEF PlacesAreReal
  <2>4. UNCHANGED <<placeVars, nodeVars, peerVars>>
    BY <1>1 DEF Echo
  <2> QED
    BY <2>3, <2>4 DEF placeVars, nodeVars, peerVars, PlacesAreReal, VotesAreClaims, PathAges
<1>2. ASSUME NEW o \in Observer, Hear(o) PROVE TraversalInv'
  BY <1>2, HearKeeps
<1>3. ASSUME NEW o \in Observer, EchoLost(o) PROVE TraversalInv'
  <2>1. echo' = [echo EXCEPT ![o] = None] /\ UNCHANGED <<placeVars, nodeVars, peerVars>>
    BY <1>3 DEF EchoLost
  <2>2. echo' \in [Observer -> Addresses \cup {None, RELAY_ADDR}]
    BY <2>1 DEF PlacesAreReal
  <2> QED
    BY <2>1, <2>2 DEF placeVars, nodeVars, peerVars, PlacesAreReal, VotesAreClaims, PathAges
<1>4. ASSUME NEW n \in Net, Move(n) PROVE TraversalInv'
  <2>1. /\ moves < MaxMoves /\ moves' = moves + 1 /\ net' = n /\ binding' = binding + 1
        /\ UNCHANGED <<echo, peerVars, group>>
    BY <1>4 DEF Move, Changes
  <2>2. VotesAreClaims' /\ reflexive' = None /\ slot' = [f \in {4, 6} |-> None]
    BY <1>4, ClearKeeps DEF Move
  <2>3. moves' \in Nat /\ binding' \in Nat /\ binding' <= moves' /\ moves' <= MaxMoves
    BY <2>1 DEF PlacesAreReal
  <2>4. /\ slot' \in [{4, 6} -> Addresses \cup {None}]
        /\ \A f \in {4, 6} : slot'[f] = None
    BY <2>2
  <2> QED
    BY <2>1, <2>2, <2>3, <2>4 DEF peerVars, PlacesAreReal, PathAges
<1>5. CASE Rebind
  <2>1. /\ moves < MaxMoves /\ moves' = moves + 1 /\ binding' = binding + 1
        /\ UNCHANGED <<net, group, nodeVars, echo, peerVars>>
    BY <1>5 DEF Rebind, Changes
  <2>2. moves' \in Nat /\ binding' \in Nat /\ binding' <= moves' /\ moves' <= MaxMoves
    BY <2>1 DEF PlacesAreReal
  <2> QED
    BY <2>1, <2>2 DEF nodeVars, peerVars, PlacesAreReal, VotesAreClaims, PathAges
<1>6. CASE GroupChanges
  <2>1. /\ moves < MaxMoves /\ moves' = moves + 1 /\ group' = ~group
        /\ UNCHANGED <<net, binding, nodeVars, echo, peerVars>>
    BY <1>6 DEF GroupChanges, Changes
  <2>2. moves' \in Nat /\ binding <= moves' /\ moves' <= MaxMoves
    BY <2>1 DEF PlacesAreReal
  <2>3. group' \in BOOLEAN
    BY <2>1
  <2> QED
    BY <2>1, <2>2, <2>3 DEF nodeVars, peerVars, PlacesAreReal, VotesAreClaims, PathAges
<1>7. CASE ReadRecord
  <2>1. /\ known' = [public |-> reflexive, lan |-> LocalV4(net)]
        /\ UNCHANGED <<placeVars, echo, nodeVars, policy, path>>
    BY <1>7 DEF ReadRecord
  <2>2. known' \in [public : Addresses \cup {None}, lan : {LocalV4(n) : n \in Net} \cup {None}]
    BY <2>1 DEF PlacesAreReal
  <2> QED
    BY <2>1, <2>2 DEF placeVars, nodeVars, PlacesAreReal, VotesAreClaims, PathAges
<1>8. CASE Punch
  <2>1. PICK a \in best_pair(Candidates) : path' = [remote |-> a, age |-> 0, silent |-> 0]
    BY <1>8 DEF Punch
  <2>2. UNCHANGED <<placeVars, echo, nodeVars, policy, known>>
    BY <1>8 DEF Punch
  <2>3. PathAges'
    BY <2>1 DEF PathAges
  <2> QED
    BY <2>2, <2>3 DEF placeVars, nodeVars, PlacesAreReal, VotesAreClaims
<1>9. CASE Keepalive
  <2>1. path' = [path EXCEPT !.silent = 0] /\ UNCHANGED <<placeVars, echo, nodeVars, policy, known>>
    BY <1>9 DEF Keepalive
  <2>2. PathAges'
    BY <2>1 DEF PathAges
  <2> QED
    BY <2>1, <2>2 DEF placeVars, nodeVars, PlacesAreReal, VotesAreClaims
<1>10. CASE Tick
  <2>1. /\ path' = [path EXCEPT !.age = @ + 1, !.silent = @ + 1]
        /\ UNCHANGED <<placeVars, echo, nodeVars, policy, known>>
    BY <1>10 DEF Tick
  <2>2. path.age < PATH_TTL
    BY <1>10 DEF Tick, cached_remote, is_still_valid
  <2>3. PathAges'
    <3>1. path' = [remote |-> path.remote, age |-> path.age + 1, silent |-> path.silent + 1]
      BY <2>1 DEF PathAges
    <3>2. path.age + 1 \in 0..PATH_TTL /\ path.silent + 1 \in Nat
      BY <2>2 DEF PathAges
    <3> QED
      BY <3>1, <3>2 DEF PathAges
  <2> QED
    BY <2>1, <2>3 DEF placeVars, nodeVars, PlacesAreReal, VotesAreClaims
<1> QED
  BY <1>0, <1>1, <1>2, <1>3, <1>4, <1>5, <1>6, <1>7, <1>8, <1>9, <1>10 DEF TraversalNext

LEMMA TraversalStarts ==
  ASSUME TraversalInit
  PROVE  TraversalInv
<1>1. PlacesAreReal
  <2>1. net \in Net /\ binding = 0 /\ moves = 0 /\ MaxMoves \in Nat
    BY TraversalAssumption DEF TraversalInit
  <2>2. binding \in Nat /\ moves \in Nat /\ binding <= moves /\ moves <= MaxMoves
    BY <2>1
  <2>3. group \in BOOLEAN
    BY DEF TraversalInit
  <2>4. /\ echo \in [Observer -> Addresses \cup {None, RELAY_ADDR}]
        /\ slot \in [{4, 6} -> Addresses \cup {None}] /\ \A f \in {4, 6} : slot[f] = None
        /\ reflexive \in Addresses \cup {None} /\ policy \in LanPolicy
        /\ known \in [public : Addresses \cup {None}, lan : {LocalV4(n) : n \in Net} \cup {None}]
    BY DEF TraversalInit
  <2> QED
    BY <2>1, <2>2, <2>3, <2>4 DEF PlacesAreReal
<1>2. <<>> \in Seq(Entry) /\ Len(<<>>) = 0 /\ 0 <= MAX_PENDING /\ DOMAIN <<>> = {}
  BY TraversalAssumption
<1>3. VotesAreClaims
  BY <1>2 DEF TraversalInit, VotesAreClaims, Listed, Backed
<1>4. PathAges
  BY TraversalAssumption DEF TraversalInit, PathAges, NoPath
<1> QED
  BY <1>1, <1>3, <1>4 DEF TraversalInv

THEOREM TraversalIsSound == TraversalSpec => []TraversalInv
<1> QED
  BY TraversalStarts, TraversalStep, PTL DEF TraversalSpec

-----------------------------------------------------------------------------
(* What follows from it. *)

\* Whatever was adopted and published, and wherever the node is by then, no
\* private address passes for a public one, a peer that gathers under SameSubnetAs
\* aims at no private address of another subnet, at none if it knows no LAN of its
\* own, and no peer at a sentinel (gather_peer_candidates).
THEOREM ForeignLansAreLeftAlone == TraversalSpec => []NobodyAimsAtAForeignLan
<1>1. TraversalInv => NobodyAimsAtAForeignLan
  BY CandidatesAreAimable DEF TraversalInv, NobodyAimsAtAForeignLan, Aimable
<1> QED
  BY <1>1, TraversalIsSound, PTL

\* A step corroborates what it adopts.
Corroborates ==
  \A f \in {4, 6} :
    slot'[f] \notin {slot[f], None} =>
      \/ \E o \in Trusted : echo[o] = slot'[f] /\ echo'[o] = None
      \/ Cardinality({o \in Observer : <<slot'[f], o>> \in claims'}) >= QUORUM

LEMMA StepsCorroborate ==
  ASSUME TraversalInv, [TraversalNext]_traversalVars
  PROVE  Corroborates
<1>1. CASE UNCHANGED slot
  BY <1>1 DEF Corroborates
<1>2. CASE slot' = [f \in {4, 6} |-> None]
  BY <1>2 DEF Corroborates
<1>3. ASSUME NEW o \in Observer, Hear(o) PROVE Corroborates
  <2>1. SUFFICES ASSUME echo[o] \in Addresses, slot' = [slot EXCEPT ![echo[o].family] = echo[o]],
                        Corroborated(echo[o], o, claims')
                 PROVE  Corroborates
    BY <1>1, <1>3, HearEffect DEF TraversalInv
  <2>2. \A f \in {4, 6} : slot'[f] # slot[f] => slot'[f] = echo[o]
    BY <2>1, SlotsStayReal DEF TraversalInv
  <2>3. echo'[o] = None
    BY <1>3 DEF Hear, TraversalInv, PlacesAreReal
  <2> QED
    BY <2>1, <2>2, <2>3 DEF Corroborated, Corroborates
<1>4. ASSUME NEW n \in Net, Move(n) PROVE slot' = [f \in {4, 6} |-> None]
  BY <1>4 DEF Move, clear
<1>5. ASSUME ~\E o \in Observer : Hear(o), ~\E n \in Net : Move(n) PROVE UNCHANGED slot
  BY <1>5 DEF TraversalNext, traversalVars, nodeVars, Echo, EchoLost, Rebind, GroupChanges,
     ReadRecord, Punch, Keepalive, Tick
<1> QED
  BY <1>1, <1>2, <1>3, <1>4, <1>5

\* An address is adopted on the word of a contact or of a quorum of strangers, all
\* since the interface last changed (ReflexiveState::record, clear).
THEOREM AdoptedMeansCorroborated == TraversalSpec => AdoptionIsCorroborated
<1>1. TraversalInv /\ [TraversalNext]_traversalVars => Corroborates
  BY StepsCorroborate
<1> QED
  BY <1>1, TraversalIsSound, PTL DEF TraversalSpec, AdoptionIsCorroborated, Corroborates

\* Every variable has its type: the list of votes is bounded and without
\* duplicates, a path is not older than it may be.
THEOREM TraversalTypes == TraversalSpec => []TraversalTypeOK
<1>1. ASSUME TraversalInv PROVE TraversalTypeOK
  <2>1. Cardinality({c.addr : c \in Candidates}) = Cardinality(Candidates)
    <3> DEFINE f == [c \in Candidates |-> c.addr]
               A == {c.addr : c \in Candidates}
    <3>1. IsFiniteSet(Candidates) /\ Distinct(Candidates)
      BY <1>1, CandidatesAreAimable DEF TraversalInv
    <3>2. f \in Bijection(Candidates, A)
      BY <3>1 DEF Bijection, Injection, Surjection, IsInjective, Distinct
    <3> QED
      BY <3>1, <3>2, FS_Bijection DEF ExistsBijection
  <2>2. /\ net \in Net /\ binding \in 0..MaxMoves /\ moves \in 0..MaxMoves /\ group \in BOOLEAN
        /\ path.age \in 0..PATH_TTL /\ Len(votes) <= MAX_PENDING /\ policy \in LanPolicy
    BY <1>1, TraversalAssumption DEF TraversalInv, PlacesAreReal, PathAges, VotesAreClaims
  <2>3. \A f \in {4, 6} : slot[f] = None \/ (slot[f] \in Addresses /\ slot[f].family = f)
    BY <1>1 DEF TraversalInv, PlacesAreReal
  <2>4. /\ \A i \in DOMAIN votes :
             votes[i].addr \in Addresses /\ votes[i].voters \subseteq Observer \ Trusted
        /\ \A i, j \in DOMAIN votes : votes[i].addr = votes[j].addr => i = j
    <3>1. \A i \in DOMAIN votes : votes[i] \in Entry
      BY <1>1 DEF TraversalInv, VotesAreClaims
    <3> QED
      BY <1>1, <3>1 DEF TraversalInv, VotesAreClaims, Entry, Listed
  <2> QED
    BY <2>1, <2>2, <2>3, <2>4 DEF TraversalTypeOK
<1> QED
  BY <1>1, TraversalIsSound, PTL
=============================================================================

------------------------- MODULE FleetFoundingProofs -------------------------
(***************************************************************************)
(* Theorems of FleetFounding, for any devices, readers and clocks, and any *)
(* number of claims and operations.                                        *)
(*                                                                         *)
(* A founder stands because of what may still be written (SureStand): from *)
(* the moment it was told, every post under way is built on its chain, and *)
(* a genesis is not admitted over it.  A pin moves only as vouched because *)
(* a record that folds is one a device made (PinsStand).  The past stands  *)
(* and the verdict is true by the shape of chains alone.                   *)
(***************************************************************************)
EXTENDS FleetFounding, FiniteSetTheorems, SequenceTheorems, TLAPS

Name == Device \cup {"none"}
OperationSet == [kind : {"none", "genesis", "v0", "add", "remove", "lock", "unlock"},
                 device : Name, by : Name, time : Nat, number : Nat]
ChainSet == Seq(OperationSet)

FoundingTypeOK ==
  /\ stored \in ChainSet
  /\ post \in [Device -> ChainSet]
  /\ adopted \in [Reader -> ChainSet]
  /\ DOMAIN pin = Reader
  /\ generations \in Nat

\* What is stored folds, or is of before; what is under way folds.
ChainsFold ==
  /\ Folds(stored) \/ stored \in {NoChain, DeadChain}
  /\ \A d \in Device : post[d] = NoChain \/ Folds(post[d])

\* A chain of a generation that names a device.
Keeps(c, genesis, d) == Folds(c) /\ Genesis(c) = genesis /\ d \in Named(c)

\* What is stored and all that may be written over it keeps a device that was
\* told it is in, while its generation lasts.
SureStand ==
  \A told \in sure :
    \/ told[2] \in freed
    \/ /\ Keeps(stored, told[2], told[1])
       /\ \A e \in Device : post[e] = NoChain \/ Keeps(post[e], told[2], told[1])

\* A reader's chain is of the generation it trusts; a record whose chain folds
\* leads to another generation, and devices vouched for it.
PinsStand ==
  /\ \A p \in Reader : adopted[p] # NoChain => Folds(adopted[p]) /\ Genesis(adopted[p]) = pin[p]
  /\ Folds(succession.old) =>
       /\ succession.new # Genesis(succession.old)
       /\ \A d \in succession.eggs :
            d \in Device /\ <<Genesis(succession.old), succession.new, d>> \in vouched

FoundingInv == FoundingTypeOK /\ ChainsFold /\ SureStand /\ PinsStand

-----------------------------------------------------------------------------
(* Chains. *)

LEMMA PrefixOfItself ==
  ASSUME NEW c \in ChainSet
  PROVE  extends(c, c)
BY DEF extends, IsPrefix, ChainSet

\* What a prefix has to do with the chain that extends it.
LEMMA PrefixElements ==
  ASSUME NEW c \in ChainSet, NEW longer \in ChainSet, extends(longer, c)
  PROVE  /\ Len(c) \in Nat /\ Len(longer) \in Nat /\ Len(c) <= Len(longer)
         /\ \A i \in 1..Len(c) : longer[i] = c[i]
         /\ Len(c) = Len(longer) => c = longer
<1>1. Len(c) \in Nat /\ Len(longer) \in Nat /\ Len(c) <= Len(longer)
  BY DEF extends, IsPrefix, ChainSet
<1>2. SubSeq(c, 1, Len(c)) = SubSeq(longer, 1, Len(c))
  BY DEF extends, IsPrefix
<1>3. ASSUME NEW i \in 1..Len(c) PROVE longer[i] = c[i]
  <2>1. SubSeq(c, 1, Len(c))[i] = c[i]
    BY <1>1 DEF ChainSet
  <2>2. SubSeq(longer, 1, Len(c))[i] = longer[i]
    BY <1>1 DEF ChainSet
  <2> QED
    BY <1>2, <2>1, <2>2
<1>4. ASSUME Len(c) = Len(longer) PROVE c = longer
  BY <1>3, <1>4 DEF ChainSet
<1> QED
  BY <1>1, <1>3, <1>4

\* An operation appended to a chain.
LEMMA AppendKeeps ==
  ASSUME NEW c \in ChainSet, Folds(c), NEW o \in OperationSet
  PROVE  /\ Append(c, o) \in ChainSet
         /\ Folds(Append(c, o))
         /\ Genesis(Append(c, o)) = Genesis(c)
         /\ Named(c) \subseteq Named(Append(c, o))
<1>1. /\ Append(c, o) \in ChainSet
      /\ Len(Append(c, o)) = Len(c) + 1
      /\ \A i \in 1..Len(c) : Append(c, o)[i] = c[i]
  BY DEF ChainSet
<1>2. Len(c) \in Nat /\ Len(c) # 0 /\ DOMAIN c = 1..Len(c)
  BY DEF Folds, ChainSet
<1>3. Append(c, o)[1] = c[1] /\ Append(c, o) # <<>>
  BY <1>1, <1>2
<1>4. DOMAIN Append(c, o) = 1..Len(c) + 1
  BY <1>1, <1>2 DEF ChainSet
<1>5. Named(c) \subseteq Named(Append(c, o))
  BY <1>1, <1>2, <1>4 DEF Named
<1> QED
  BY <1>1, <1>3, <1>5 DEF Folds, Genesis

\* What a replica serves is a chain.
LEMMA ServedIsAChain ==
  ASSUME stored \in ChainSet, NEW served \in Served
  PROVE  served \in ChainSet
<1>1. PICK n \in DOMAIN stored : served = SubSeq(stored, 1, n)
  BY DEF Served
<1>2. n \in 1..Len(stored) /\ Len(stored) \in Nat
  BY DEF ChainSet
<1> QED
  BY <1>1, <1>2, SubSeqProperties DEF ChainSet

LEMMA StampIsATime ==
  ASSUME NEW c \in ChainSet, NEW now \in Nat
  PROVE  stamp_after(c, now) \in Nat
<1>1. c # <<>> => Len(c) \in 1..Len(c)
  BY DEF ChainSet
<1>2. c # <<>> => c[Len(c)] \in OperationSet
  BY <1>1, ElementOfSeq DEF ChainSet
<1> QED
  BY <1>2 DEF stamp_after, OperationSet

-----------------------------------------------------------------------------
(* Every step keeps the invariant. *)

LEMMA FoundingInvInit == FoundingInit => FoundingInv
<1> SUFFICES ASSUME FoundingInit PROVE FoundingInv
  OBVIOUS
<1>1. DeadChain \in ChainSet /\ NoChain \in ChainSet /\ ~Folds(NoChain)
  BY DEF DeadChain, NoChain, Operation, ChainSet, OperationSet, Name, Folds
<1>2. FoundingTypeOK
  BY <1>1 DEF FoundingInit, FoundingTypeOK
<1>3. ChainsFold /\ SureStand
  BY DEF FoundingInit, ChainsFold, SureStand
<1>4. PinsStand
  BY <1>1 DEF FoundingInit, PinsStand, NoRecord
<1> QED
  BY <1>2, <1>3, <1>4 DEF FoundingInv

\* Posts that are lost, or are never made, disturb nothing.
LEMMA PostsGiveWay ==
  ASSUME FoundingInv, UNCHANGED <<stored, freed, sure, generations, readerVars, successionVars>>,
         post' \in [Device -> ChainSet],
         \A d \in Device : post'[d] \in {post[d], NoChain}
  PROVE  FoundingInv'
<1>1. FoundingTypeOK' /\ ChainsFold'
  BY DEF FoundingInv, FoundingTypeOK, ChainsFold, readerVars
<1>2. SureStand' /\ PinsStand'
  BY DEF FoundingInv, SureStand, PinsStand, readerVars, successionVars
<1> QED
  BY <1>1, <1>2 DEF FoundingInv

\* A device that is told Ok while no post is under way will stand.
LEMMA AnswersAreKept ==
  ASSUME FoundingInv, NEW d \in Device, NEW word, Answers(d, word),
         word = "ok" => Folds(stored) /\ d \in Members(stored),
         UNCHANGED <<slotVars, generations, readerVars, successionVars>>
  PROVE  FoundingInv'
<1>1. UNCHANGED <<stored, post, freed, generations, adopted, pin, succession, vouched>>
  BY DEF slotVars, readerVars, successionVars
<1>2. FoundingTypeOK' /\ ChainsFold' /\ PinsStand'
  BY <1>1 DEF FoundingInv, FoundingTypeOK, ChainsFold, PinsStand
<1>3. ASSUME sure' = sure PROVE SureStand'
  BY <1>1, <1>3 DEF FoundingInv, SureStand
<1>4. ASSUME word = "ok", Quiet, sure' = sure \cup {<<d, Genesis(stored)>>} PROVE SureStand'
  <2>1. Keeps(stored, Genesis(stored), d)
    BY <1>4 DEF Keeps, Members
  <2>2. \A e \in Device : post[e] = NoChain
    BY <1>4 DEF Quiet
  <2> QED
    BY <1>1, <1>4, <2>1, <2>2 DEF FoundingInv, SureStand
<1>5. SureStand'
  BY <1>3, <1>4 DEF Answers
<1> QED
  BY <1>2, <1>5 DEF FoundingInv

LEMMA EnsuresKeeps ==
  ASSUME FoundingInv, NEW d \in Device, Ensures(d)
  PROVE  FoundingInv'
<1>0. FoundingTypeOK /\ ChainsFold /\ SureStand /\ PinsStand /\ NoChain \in ChainSet
  BY DEF FoundingInv, NoChain, ChainSet
<1>1. ASSUME UNCHANGED <<slotVars, sure, generations, readerVars, successionVars>> PROVE FoundingInv'
  BY <1>0, <1>1, PostsGiveWay DEF slotVars, FoundingTypeOK
<1>2. ASSUME Judges(d), Folds(stored), UNCHANGED <<slotVars, generations, readerVars, successionVars>>
      PROVE  FoundingInv'
  BY <1>2, AnswersAreKept DEF Judges
<1>3. CASE Looks(d)
  BY <1>1, <1>2, <1>3 DEF Looks
<1>4. CASE Founds(d)
  <2> DEFINE c == <<FreshGenesis(d, Clock[d], generations + 1)>>
  <2>1. /\ ~Folds(stored)
        /\ post' = [post EXCEPT ![d] = c]
        /\ UNCHANGED <<stored, freed, sure, adopted, pin, succession, vouched>>
    BY <1>4 DEF Founds, Claimable, readerVars, successionVars
  <2>2. c \in ChainSet /\ Folds(c)
    <3>1. generations + 1 \in Nat /\ Clock[d] \in Nat
      BY <1>0, FoundingAssumption DEF FoundingTypeOK
    <3>2. FreshGenesis(d, Clock[d], generations + 1) \in OperationSet
      BY <3>1 DEF FreshGenesis, Operation, OperationSet, Name
    <3>3. FreshGenesis(d, Clock[d], generations + 1).kind = "genesis"
      BY DEF FreshGenesis, Operation
    <3> QED
      BY <3>2, <3>3 DEF ChainSet, Folds
  <2> HIDE DEF c
  <2>3. FoundingTypeOK'
    BY <1>0, <1>4, <2>1, <2>2 DEF FoundingTypeOK, Founds
  <2>4. ChainsFold' /\ PinsStand'
    BY <1>0, <2>1, <2>2 DEF FoundingTypeOK, ChainsFold, PinsStand
  <2>5. SureStand'
    BY <1>0, <2>1 DEF SureStand, Keeps
  <2> QED
    BY <2>3, <2>4, <2>5 DEF FoundingInv
<1>5. CASE Rejected(d)
  BY <1>1, <1>5 DEF Rejected
<1>6. CASE GivesUpWaiting(d)
  BY <1>0, <1>6, PostsGiveWay DEF GivesUpWaiting, FoundingTypeOK
<1>7. CASE Refetches(d)
  BY <1>2, <1>7, AnswersAreKept DEF Refetches
<1> QED
  BY <1>3, <1>4, <1>5, <1>6, <1>7 DEF Ensures

LEMMA ChangesKeep ==
  ASSUME FoundingInv, NEW d \in Device, Changes(d)
  PROVE  FoundingInv'
<1>0. FoundingTypeOK /\ ChainsFold /\ SureStand /\ PinsStand
  BY DEF FoundingInv
<1>1. PICK kind \in {"add", "remove", "lock", "unlock"}, e \in Device : Appends(d, kind, e)
  BY DEF Changes, Add, Depart, ConsentedRemove, Lock, Unlock
<1> DEFINE o == Operation(kind, e, d, stamp_after(stored, Clock[d]))
           c == Append(stored, o)
<1>2. /\ Folds(stored)
      /\ post' = [post EXCEPT ![d] = c]
      /\ UNCHANGED <<stored, freed, generations, sure, adopted, pin, succession, vouched>>
  BY <1>1 DEF Appends, ensureVars, readerVars, successionVars
<1>3. o \in OperationSet
  <2>1. stamp_after(stored, Clock[d]) \in Nat
    BY <1>0, FoundingAssumption, StampIsATime DEF FoundingTypeOK
  <2> QED
    BY <2>1 DEF Operation, OperationSet, Name
<1> HIDE DEF o
<1>4. /\ c \in ChainSet /\ Folds(c) /\ Genesis(c) = Genesis(stored)
      /\ Named(stored) \subseteq Named(c)
  BY <1>0, <1>2, <1>3, AppendKeeps DEF FoundingTypeOK
<1> HIDE DEF c
<1>5. FoundingTypeOK' /\ ChainsFold' /\ PinsStand'
  BY <1>0, <1>2, <1>4 DEF FoundingTypeOK, ChainsFold, PinsStand
<1>6. SureStand'
  <2>1. \A e2 \in Device : post'[e2] = post[e2] \/ post'[e2] = c
    BY <1>0, <1>2 DEF FoundingTypeOK
  <2> QED
    BY <1>0, <1>2, <1>4, <2>1 DEF SureStand, Keeps
<1> QED
  BY <1>5, <1>6 DEF FoundingInv

LEMMA FoundingInvStep == FoundingInv /\ [FoundingNext]_foundingVars => FoundingInv'
<1> SUFFICES ASSUME FoundingInv, [FoundingNext]_foundingVars PROVE FoundingInv'
  OBVIOUS
<1>0. FoundingTypeOK /\ ChainsFold /\ SureStand /\ PinsStand /\ NoChain \in ChainSet
  BY DEF FoundingInv, NoChain, ChainSet
<1>1. ASSUME NEW d \in Device, Lands(d) PROVE FoundingInv'
  <2>1. /\ post[d] # NoChain /\ stored' = post[d] /\ post' = [post EXCEPT ![d] = NoChain]
        /\ UNCHANGED <<freed, generations, sure, adopted, pin, succession, vouched>>
    BY <1>1 DEF Lands, readerVars, successionVars
  <2>2. FoundingTypeOK' /\ ChainsFold' /\ PinsStand'
    BY <1>0, <2>1 DEF FoundingTypeOK, ChainsFold, PinsStand
  <2>3. \A e \in Device : post'[e] = post[e] \/ post'[e] = NoChain
    BY <1>0, <2>1 DEF FoundingTypeOK
  <2>4. SureStand'
    BY <1>0, <2>1, <2>3 DEF SureStand
  <2> QED
    BY <2>2, <2>4 DEF FoundingInv
<1>2. CASE Frees
  <2>1. /\ Folds(stored) /\ stored' = NoChain /\ freed' = freed \cup {stored[1]}
        /\ UNCHANGED <<post, generations, sure, adopted, pin, succession, vouched>>
    BY <1>2 DEF Frees, ensureVars, readerVars, successionVars
  <2>2. FoundingTypeOK' /\ ChainsFold' /\ PinsStand'
    BY <1>0, <2>1 DEF FoundingTypeOK, ChainsFold, PinsStand
  <2>3. SureStand'
    BY <1>0, <2>1 DEF SureStand, Keeps, Genesis, Folds
  <2> QED
    BY <2>2, <2>3 DEF FoundingInv
<1>3. ASSUME NEW d \in Device, PublishesSuccessor(d) PROVE FoundingInv'
  <2>1. /\ Genesis(adopted[d]) # Genesis(stored)
        /\ succession' = [old |-> adopted[d], new |-> Genesis(stored), eggs |-> {d}]
        /\ vouched' = vouched \cup {<<Genesis(adopted[d]), Genesis(stored), d>>}
        /\ UNCHANGED <<stored, post, freed, generations, sure, adopted, pin>>
    BY <1>3 DEF PublishesSuccessor, slotVars, ensureVars, readerVars
  <2>2. FoundingTypeOK' /\ ChainsFold' /\ SureStand'
    BY <1>0, <2>1 DEF FoundingTypeOK, ChainsFold, SureStand
  <2>3. PinsStand'
    BY <1>0, <2>1 DEF PinsStand
  <2> QED
    BY <2>2, <2>3 DEF FoundingInv
<1>4. ASSUME NEW p \in Reader, NEW served \in Served, Reads(p, served) PROVE FoundingInv'
  <2>1. /\ Folds(served)
        /\ adopted' = [adopted EXCEPT ![p] = served]
        /\ pin' = [pin EXCEPT ![p] = Genesis(served)]
        /\ UNCHANGED <<stored, post, freed, generations, sure, succession, vouched>>
    BY <1>4 DEF Reads, slotVars, ensureVars, successionVars
  <2>2. served \in ChainSet
    BY <1>0, ServedIsAChain DEF FoundingTypeOK
  <2>3. FoundingTypeOK' /\ ChainsFold' /\ SureStand'
    BY <1>0, <2>1, <2>2 DEF FoundingTypeOK, ChainsFold, SureStand
  <2>4. PinsStand'
    BY <1>0, <2>1 DEF PinsStand, FoundingTypeOK
  <2> QED
    BY <2>3, <2>4 DEF FoundingInv
<1>5. ASSUME NEW p \in Reader, Migrates(p) PROVE FoundingInv'
  <2>1. /\ adopted' = [adopted EXCEPT ![p] = NoChain]
        /\ pin' = [pin EXCEPT ![p] = succession.new]
        /\ UNCHANGED <<stored, post, freed, generations, sure, succession, vouched>>
    BY <1>5 DEF Migrates, slotVars, ensureVars, successionVars
  <2>2. FoundingTypeOK' /\ ChainsFold' /\ SureStand'
    BY <1>0, <2>1 DEF FoundingTypeOK, ChainsFold, SureStand
  <2>3. PinsStand'
    BY <1>0, <2>1 DEF PinsStand, FoundingTypeOK
  <2> QED
    BY <2>2, <2>3 DEF FoundingInv
<1>6. ASSUME UNCHANGED foundingVars PROVE FoundingInv'
  BY <1>0, <1>6 DEF foundingVars, FoundingInv, FoundingTypeOK, ChainsFold, SureStand, PinsStand
<1> QED
  BY <1>1, <1>2, <1>3, <1>4, <1>5, <1>6, EnsuresKeeps, ChangesKeep DEF FoundingNext

LEMMA FoundingInvariance == FoundingSpec => []FoundingInv
BY FoundingInvInit, FoundingInvStep, PTL DEF FoundingSpec

-----------------------------------------------------------------------------
(* The theorems. *)

\* A device that was told it is in the fleet, while no post was under way, is
\* named by the chain of that generation for as long as the name is not freed.
THEOREM FoundersAreIn == FoundingSpec => []FoundersStand
<1>1. FoundingInv => FoundersStand
  BY DEF FoundingInv, SureStand, Keeps, FoundersStand
<1> QED
  BY <1>1, FoundingInvariance, PTL

\* A pin moves to another generation only on the word of a device that belonged
\* to the one it trusted, and a reader's chain only grows.
THEOREM PinsMoveWhenVouched == FoundingSpec => PinsAreVouched
<1> DEFINE Vouched(p) ==
       /\ pin[p] # NoGenesis /\ pin'[p] # pin[p] =>
            \E d \in Device : <<pin[p], pin'[p], d>> \in vouched /\ d \in Members(succession.old)
       /\ adopted[p] # NoChain /\ pin'[p] = pin[p] => extends(adopted'[p], adopted[p])
       /\ adopted'[p] # NoChain => Genesis(adopted'[p]) = pin'[p]
<1>1. ASSUME FoundingInv, FoundingInv', [FoundingNext]_foundingVars, NEW p \in Reader
      PROVE  Vouched(p)
  <2>0. FoundingTypeOK /\ PinsStand /\ PinsStand'
    BY <1>1 DEF FoundingInv
  <2>1. adopted'[p] # NoChain => Genesis(adopted'[p]) = pin'[p]
    BY <2>0 DEF PinsStand
  <2>2. adopted[p] \in ChainSet /\ extends(adopted[p], adopted[p])
    BY <2>0, PrefixOfItself DEF FoundingTypeOK
  <2>3. CASE adopted'[p] = adopted[p] /\ pin'[p] = pin[p]
    BY <2>1, <2>2, <2>3
  <2>4. CASE \E served \in Served : Reads(p, served)
    <3>1. PICK served \in Served : Reads(p, served)
      BY <2>4
    <3>2. /\ pin[p] \in {NoGenesis, Genesis(served)}
          /\ adopted'[p] = served /\ pin'[p] = Genesis(served)
          /\ adoption(served, adopted[p]) \in {"First", "Extended", "Unchanged"}
      BY <2>0, <3>1 DEF Reads, FoundingTypeOK, lands
    <3>3. adopted[p] # NoChain => extends(served, adopted[p])
      BY <2>2, <3>2 DEF adoption
    <3> QED
      BY <2>1, <3>2, <3>3
  <2>5. CASE Migrates(p)
    <3>1. /\ Folds(succession.old) /\ Genesis(succession.old) = pin[p]
          /\ \E d \in succession.eggs : d \in Members(succession.old)
          /\ adopted'[p] = NoChain /\ pin'[p] = succession.new
      BY <2>0, <2>5 DEF Migrates, verify_for_pin, FoundingTypeOK
    <3>2. /\ pin'[p] # pin[p]
          /\ \E d \in Device : <<pin[p], pin'[p], d>> \in vouched /\ d \in Members(succession.old)
      BY <2>0, <3>1 DEF PinsStand
    <3> QED
      BY <3>1, <3>2
  <2>6. ASSUME NEW q \in Reader, q # p,
               Migrates(q) \/ \E served \in Served : Reads(q, served)
        PROVE  adopted'[p] = adopted[p] /\ pin'[p] = pin[p]
    BY <2>0, <2>6 DEF Migrates, Reads, FoundingTypeOK
  <2>7. ASSUME NEW d \in Device,
               Ensures(d) \/ Lands(d) \/ Changes(d) \/ PublishesSuccessor(d)
        PROVE  adopted'[p] = adopted[p] /\ pin'[p] = pin[p]
    BY <2>7 DEF Ensures, Looks, Founds, Rejected, GivesUpWaiting, Refetches, Lands, Changes, Add,
       Depart, ConsentedRemove, Lock, Unlock, Appends, PublishesSuccessor, readerVars
  <2>8. Frees \/ UNCHANGED foundingVars => adopted'[p] = adopted[p] /\ pin'[p] = pin[p]
    BY DEF Frees, readerVars, foundingVars
  <2> HIDE DEF Vouched
  <2> QED
    BY <1>1, <2>3, <2>4, <2>5, <2>6, <2>7, <2>8 DEF FoundingNext
<1>2. FoundingInv /\ FoundingInv' /\ [FoundingNext]_foundingVars
        => [\A p \in Reader : Vouched(p)]_foundingVars
  BY <1>1
<1> QED
  BY <1>2, FoundingInvariance, PTL DEF FoundingSpec, PinsAreVouched

\* Of what is served and held, the chain the seed answers with is the best,
\* when nobody holds more than a copy of it that lags.
LEMMA SeedIsBest ==
  ASSUME stored \in ChainSet, Folds(stored), NEW ours, stored \in ours,
         \A c \in ours : c \in ChainSet /\ extends(stored, c)
  PROVE  stored = CHOOSE c \in ours : \A o \in ours :
                    Len(o) < Len(c) \/ (Len(o) = Len(c) /\ (c = stored \/ o # stored))
<1> DEFINE Best(c) ==
      \A o \in ours : Len(o) < Len(c) \/ (Len(o) = Len(c) /\ (c = stored \/ o # stored))
<1>1. \A c \in ours : Len(c) \in Nat /\ Len(stored) \in Nat /\ Len(c) <= Len(stored)
  BY PrefixElements
<1>2. Best(stored)
  BY <1>1
<1>3. ASSUME NEW c \in ours, Best(c) PROVE c = stored
  BY <1>1, <1>3
<1> QED
  BY <1>2, <1>3

\* When the seed answers with what is stored and nobody holds more than a copy
\* of it that lags, the verdict is the truth; its silence never frees a name.
THEOREM VerdictsAreTrue == FoundingSpec => []VerdictIsTrue
<1>1. ASSUME FoundingInv PROVE VerdictIsTrue
  <2> SUFFICES ASSUME NEW d \in Device, NEW held \in SUBSET Reader
      PROVE LET chains == {adopted[p] : p \in held}
                truth == IF ~Folds(stored) THEN IF stored = DeadChain THEN "Unverifiable" ELSE "Fresh"
                         ELSE IF d \in Members(stored) THEN "Member" ELSE "JoinOurs"
                answers == IF stored = NoChain THEN {NotFound, SeedChain(NoChain)}
                           ELSE {SeedChain(stored)}
            IN  /\ (\A c \in chains : Lags(c)) =>
                     \A a \in answers : attest_verdict(d, chains, a) = truth
                /\ attest_verdict(d, chains, Unreachable) # "Fresh"
    BY DEF VerdictIsTrue
  <2> DEFINE chains == {adopted[p] : p \in held}
             answers == IF stored = NoChain THEN {NotFound, SeedChain(NoChain)}
                        ELSE {SeedChain(stored)}
             truth == IF ~Folds(stored) THEN IF stored = DeadChain THEN "Unverifiable" ELSE "Fresh"
                      ELSE IF d \in Members(stored) THEN "Member" ELSE "JoinOurs"
  <2>0. /\ stored \in ChainSet /\ (Folds(stored) \/ stored \in {NoChain, DeadChain})
        /\ \A c \in chains : c \in ChainSet
        /\ ~Folds(NoChain) /\ ~Folds(DeadChain) /\ NoChain # DeadChain
    BY <1>1 DEF FoundingInv, FoundingTypeOK, ChainsFold, Folds, NoChain, DeadChain, Operation
  <2>1. attest_verdict(d, chains, Unreachable) # "Fresh"
    BY DEF attest_verdict, Unreachable
  <2>2. ASSUME \A c \in chains : Lags(c), NEW a \in answers
        PROVE  attest_verdict(d, chains, a) = truth
    <3> HIDE DEF chains
    <3> DEFINE seen == chains \cup {a.chain}
               ours == {c \in seen : Folds(c)}
    <3>1. a.chain = stored /\ a.said # "unreachable"
      BY <2>2 DEF NotFound, SeedChain
    <3>2. CASE ~Folds(stored)
      <4>1. \A c \in chains : c = NoChain
        BY <2>2, <3>2 DEF Lags
      <4>2. ours = {}
        BY <2>0, <3>1, <3>2, <4>1
      <4>3. DeadChain \in seen <=> stored = DeadChain
        BY <2>0, <3>1, <4>1
      <4> QED
        BY <3>1, <3>2, <4>2, <4>3 DEF attest_verdict
    <3>3. CASE Folds(stored)
      <4>1. stored \in ours /\ \A c \in ours : c \in ChainSet
        BY <2>0, <3>1, <3>3
      <4>2. ASSUME NEW c \in ours PROVE extends(stored, c)
        <5>1. c # NoChain
          BY <2>0, <4>2
        <5> QED
          BY <2>0, <2>2, <3>1, <4>2, <5>1, PrefixOfItself DEF Lags
      <4> HIDE DEF ours
      <4>3. stored = CHOOSE c \in ours : \A o \in ours :
                       Len(o) < Len(c) \/ (Len(o) = Len(c) /\ (c = a.chain \/ o # a.chain))
        BY <2>0, <3>1, <3>3, <4>1, <4>2, SeedIsBest
      <4>4. ours # {}
        BY <4>1
      <4> USE DEF ours
      <4>5. attest_verdict(d, chains, a) = IF d \in Members(stored) THEN "Member" ELSE "JoinOurs"
        BY <4>3, <4>4 DEF attest_verdict
      <4> QED
        BY <3>3, <4>5
    <3> QED
      BY <3>2, <3>3
  <2> HIDE DEF chains, answers, truth
  <2>3. (\A c \in chains : Lags(c)) => \A a \in answers : attest_verdict(d, chains, a) = truth
    BY <2>2
  <2> QED
    BY <2>1, <2>3 DEF chains, answers, truth
<1> QED
  BY <1>1, FoundingInvariance, PTL

\* The operations stamped up to an instant, as far as the first one after it.
Until(c, t) == {i \in DOMAIN c : \A j \in 1..i : c[j].time <= t}

\* Up to an instant before the last stamp of a chain, that chain and one that
\* extends it hold the same operations.
LEMMA SamePast ==
  ASSUME NEW c \in ChainSet, c # NoChain, NEW longer \in ChainSet, extends(longer, c),
         NEW t \in Nat, t < c[Len(c)].time
  PROVE  /\ Until(longer, t) = Until(c, t)
         /\ SubSeq(longer, 1, Cardinality(Until(c, t))) = SubSeq(c, 1, Cardinality(Until(c, t)))
<1> DEFINE n == Cardinality(Until(c, t))
<1>1. /\ Len(c) \in Nat /\ Len(longer) \in Nat /\ Len(c) <= Len(longer)
      /\ \A i \in 1..Len(c) : longer[i] = c[i]
      /\ DOMAIN c = 1..Len(c) /\ DOMAIN longer = 1..Len(longer)
  BY PrefixElements DEF ChainSet
<1>2. Len(c) \in 1..Len(c) /\ c[Len(c)].time \in Nat
  <2>1. Len(c) \in 1..Len(c)
    BY <1>1 DEF NoChain, ChainSet
  <2>2. c[Len(c)] \in OperationSet
    BY <2>1, ElementOfSeq DEF ChainSet
  <2> QED
    BY <2>1, <2>2 DEF OperationSet
<1>3. ASSUME NEW i \in Until(longer, t) PROVE i \in Until(c, t)
  <2>1. i \in 1..Len(longer) /\ \A j \in 1..i : longer[j].time <= t
    BY <1>1, <1>3 DEF Until
  <2>2. i < Len(c)
    <3> SUFFICES ASSUME ~(i < Len(c)) PROVE FALSE
      OBVIOUS
    <3>1. Len(c) \in 1..i
      BY <1>1, <1>2, <2>1
    <3>2. c[Len(c)].time <= t
      BY <1>1, <1>2, <2>1, <3>1
    <3> QED
      BY <1>2, <3>2
  <2>3. i \in 1..Len(c) /\ \A j \in 1..i : j \in 1..Len(c)
    BY <1>1, <2>1, <2>2
  <2> QED
    BY <1>1, <2>1, <2>3 DEF Until
<1>4. ASSUME NEW i \in Until(c, t) PROVE i \in Until(longer, t)
  <2>1. i \in 1..Len(c) /\ \A j \in 1..i : c[j].time <= t
    BY <1>1, <1>4 DEF Until
  <2>2. i \in 1..Len(longer) /\ \A j \in 1..i : j \in 1..Len(c)
    BY <1>1, <2>1
  <2> QED
    BY <1>1, <2>1, <2>2 DEF Until
<1>5. Until(longer, t) = Until(c, t)
  BY <1>3, <1>4
<1>6. n \in Nat /\ n <= Len(c)
  <2>1. Until(c, t) \in SUBSET (1..Len(c))
    BY <1>1 DEF Until
  <2>2. IsFiniteSet(1..Len(c)) /\ Cardinality(1..Len(c)) = Len(c)
    <3>1. Len(c) \in Int /\ 1 \in Int /\ ~(1 > Len(c)) /\ Len(c) - 1 + 1 = Len(c)
      BY <1>1, <1>2
    <3> QED
      BY <3>1, FS_Interval
  <2>3. IsFiniteSet(Until(c, t)) /\ n <= Len(c)
    BY <2>1, <2>2, FS_Subset
  <2> QED
    BY <2>3, FS_CardinalityType
<1> HIDE DEF n
<1>7. SubSeq(longer, 1, n) = SubSeq(c, 1, n)
  <2>1. SubSeq(longer, 1, n) = [i \in 1..n |-> longer[i]]
    BY <1>1, <1>6
  <2>2. SubSeq(c, 1, n) = [i \in 1..n |-> c[i]]
    BY <1>1, <1>6
  <2> QED
    BY <1>1, <1>6, <2>1, <2>2
<1> QED
  BY <1>5, <1>7 DEF n

\* Who was a member at an instant that is past is not changed by operations
\* appended since, but for a device that was or is locked out, however the
\* clocks of the members differ.
THEOREM ThePastStands == FoundingSpec => HistoryStands
<1> DEFINE Stands(p) ==
       (adopted[p] # NoChain /\ extends(adopted'[p], adopted[p])) =>
         \A d \in Device, t \in 0..(adopted[p][Len(adopted[p])].time - 1) :
           d \in locked_out(adopted[p]) \cup locked_out(adopted'[p])
             \/ was_member_at(adopted'[p], d, t) = was_member_at(adopted[p], d, t)
<1>1. ASSUME FoundingInv, FoundingInv', NEW p \in Reader PROVE Stands(p)
  <2> DEFINE c == adopted[p]
             longer == adopted'[p]
  <2>1. c \in ChainSet /\ longer \in ChainSet
    BY <1>1 DEF FoundingInv, FoundingTypeOK
  <2> SUFFICES ASSUME c # NoChain, extends(longer, c),
                      NEW d \in Device, NEW t \in 0..(c[Len(c)].time - 1),
                      d \notin locked_out(c), d \notin locked_out(longer)
               PROVE  was_member_at(longer, d, t) = was_member_at(c, d, t)
    BY DEF c, longer
  <2>2. Len(c) \in 1..Len(c) /\ c[Len(c)].time \in Nat
    <3>1. Len(c) \in 1..Len(c)
      BY <2>1 DEF NoChain, ChainSet
    <3>2. c[Len(c)] \in OperationSet
      BY <2>1, <3>1, ElementOfSeq DEF ChainSet
    <3> QED
      BY <3>1, <3>2 DEF OperationSet
  <2>3. t \in Nat /\ t < c[Len(c)].time
    BY <2>2
  <2> HIDE DEF c, longer
  <2>4. Folds(longer) <=> Folds(c)
    <3>1. Len(c) \in Nat /\ 1 \in 1..Len(c) /\ Len(longer) \in Nat /\ Len(c) <= Len(longer)
      BY <2>1, <2>2, PrefixElements
    <3>2. longer[1] = c[1] /\ longer # <<>> /\ c # <<>>
      BY <2>1, <3>1, PrefixElements DEF ChainSet
    <3> QED
      BY <3>2 DEF Folds
  <2>5. /\ Until(longer, t) = Until(c, t)
        /\ SubSeq(longer, 1, Cardinality(Until(c, t))) = SubSeq(c, 1, Cardinality(Until(c, t)))
    BY <2>1, <2>3, SamePast
  <2> DEFINE now == Folds(longer) /\ d \in Members(SubSeq(longer, 1, Cardinality(Until(longer, t))))
             before == Folds(c) /\ d \in Members(SubSeq(c, 1, Cardinality(Until(c, t))))
  <2>6. was_member_at(longer, d, t) = now /\ was_member_at(c, d, t) = before
    BY DEF was_member_at, Until
  <2>7. SubSeq(longer, 1, Cardinality(Until(longer, t))) = SubSeq(c, 1, Cardinality(Until(c, t)))
    BY <2>5
  <2>8. now = before
    BY <2>4, <2>7
  <2> HIDE DEF now, before
  <2> QED
    BY <2>6, <2>8
<1>2. FoundingInv /\ FoundingInv' => [\A p \in Reader : Stands(p)]_foundingVars
  BY <1>1
<1> QED
  BY <1>2, FoundingInvariance, PTL DEF HistoryStands
=============================================================================

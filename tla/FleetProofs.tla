----------------------------- MODULE FleetProofs -----------------------------
(***************************************************************************)
(* Theorems of FleetChain, for any set of devices, any schemes and any     *)
(* distribution of keys among the devices, and of FleetClient, for any     *)
(* number of clients, calls and attempts.                                  *)
(*                                                                         *)
(* The chain.  Whoever signs an op is live before and after it (only a     *)
(* departure without consent removes its own signer), and its eggs cover   *)
(* the floor as it was, so its declared schemes do.  What the op adds to   *)
(* the floor is declared by every live member, the signer among them, so   *)
(* the signer can sign the next op too.  "Can sign" needs more than the    *)
(* declaration: the device must hold the keys, which is ProvenBundles, and *)
(* holds because a bundle enters the chain only with eggs under all of it. *)
(*                                                                         *)
(* The clients.  They touch the chain in one action only, Lands.  What a   *)
(* call carries is well formed (CallsAreFormed), hence the op it lands is  *)
(* one of FleetChain's (StepsAreOps), hence the invariant of the chain     *)
(* holds here as well; and no op a client lands is a departure without     *)
(* consent, so the exception of SomeoneCanSign is void.  What a call is    *)
(* answered follows from what the chain held when it last looked.          *)
(***************************************************************************)
EXTENDS FleetClient, TLAPS

\* Nobody's entry names a scheme the device has no key for.
ProvenBundles == \A d \in Device : covers(Capable[d], bundle[d])

\* A device outside the fleet that has an entry has left it once, and is
\* recorded in `behind` until it declares again.
LeaversAreBehind == \A d \in Device \ (members \cup behind) : bundle[d] = {}

IInv ==
  /\ TypeOK
  /\ ProvenBundles
  /\ LeaversAreBehind
  /\ SteadyMembersCanSign
  /\ SomeoneCanSign

-----------------------------------------------------------------------------
\* A live member whose declaration covers the floor before a step can sign
\* after it, as the ratchet adds only what every live member declares.
LEMMA RatchetKeepsUp ==
  ASSUME TypeOK', ProvenBundles', Ratchet,
         NEW d \in (members \ locked)',
         covers(declared_mask(bundle', d), floor)
  PROVE  CanSign(d)'
<1>1. d \in Device /\ Base \subseteq Capable[d]
  BY ChainAssumption DEF TypeOK
<1>2. covers(Capable[d], declared_mask(bundle', d))
  BY <1>1 DEF ProvenBundles, declared_mask, covers
<1>3. covers(declared_mask(bundle', d), LiveMask(members', locked', bundle'))
  BY DEF covers, LiveMask
<1>4. covers(declared_mask(bundle', d), floor')
  BY <1>3 DEF covers, Ratchet
<1> QED
  BY <1>2, <1>4 DEF CanSign, covers

\* The floor stays a mask of known schemes whatever the step.
LEMMA RatchetKeepsType ==
  ASSUME floor \in Mask, Ratchet
  PROVE  floor' \in Mask
BY DEF Mask, Ratchet, LiveMask

\* The eggs of an admitted op cover the floor, and so do the keys they are
\* verified under.
LEMMA AdmittedCovers ==
  ASSUME NEW s, NEW sigs, NEW keys, Admitted(s, sigs, keys)
  PROVE  s \notin locked /\ covers(keys, floor)
BY DEF Admitted, covers, verify_sigs

\* A device that was steady and whose entry the step left alone stays able.
LEMMA UntouchedKeepUp ==
  ASSUME SteadyMembersCanSign, TypeOK', ProvenBundles', Ratchet,
         NEW d \in (members \ locked) \ behind,
         d \in (members \ locked)', bundle'[d] = bundle[d]
  PROVE  CanSign(d)'
<1>1. covers(declared_mask(bundle, d), floor)
  BY DEF SteadyMembersCanSign, CanSign, covers
<1>2. declared_mask(bundle', d) = declared_mask(bundle, d)
  BY DEF declared_mask
<1> QED
  BY <1>1, <1>2, RatchetKeepsUp

\* One device able to sign is all SomeoneCanSign asks.
LEMMA AbleSuffices ==
  ASSUME NEW s \in Device, CanSign(s)'
  PROVE  SomeoneCanSign'
BY DEF SomeoneCanSign

LEMMA InitIInv == Init => IInv
<1> SUFFICES ASSUME Init PROVE IInv
  OBVIOUS
<1>1. TypeOK
  <2>1. floor \in Mask
    BY ChainAssumption DEF Init, Mask
  <2>2. last_ckpt_k \in 0..MaxCheckpoint
    BY ChainAssumption DEF Init
  <2>3. bundle \in [Device -> {{}} \cup Mask]
    BY DEF Init
  <2> QED
    BY <2>1, <2>2, <2>3 DEF Init, TypeOK
<1>2. ProvenBundles /\ LeaversAreBehind
  BY DEF Init, ProvenBundles, LeaversAreBehind, covers
<1>3. SteadyMembersCanSign /\ SomeoneCanSign
  BY DEF Init, SteadyMembersCanSign, SomeoneCanSign
<1> QED
  BY <1>1, <1>2, <1>3 DEF IInv

-----------------------------------------------------------------------------
(* One lemma per op. *)

LEMMA GenesisIInv ==
  ASSUME IInv, NEW d \in Device, NEW sigs \in SUBSET Capable[d], Genesis(d, sigs)
  PROVE  IInv'
<1>1. TypeOK'
  BY RatchetKeepsType DEF IInv, TypeOK, Genesis
<1>2. ProvenBundles' /\ bundle' = bundle
  BY DEF IInv, ProvenBundles, Genesis
<1>3. LeaversAreBehind'
  BY DEF IInv, TypeOK, LeaversAreBehind, Genesis
<1>4. members' = {d} /\ locked' = {} /\ Ratchet
  BY DEF IInv, TypeOK, Genesis
<1>5. covers(declared_mask(bundle', d), floor)
  BY <1>2, AdmittedCovers DEF Genesis
<1>6. CanSign(d)'
  BY <1>1, <1>2, <1>4, <1>5, RatchetKeepsUp
<1>7. SteadyMembersCanSign'
  BY <1>4, <1>6 DEF SteadyMembersCanSign
<1> QED
  BY <1>1, <1>2, <1>3, <1>6, <1>7, AbleSuffices DEF IInv

LEMMA DeclareIInv ==
  ASSUME IInv, NEW d \in Device, NEW sigs \in SUBSET Capable[d],
         NEW b \in Mask, Declare(d, b, sigs)
  PROVE  IInv'
<1>1. TypeOK'
  BY RatchetKeepsType DEF IInv, TypeOK, Declare, DeclareFolds
<1>2. ProvenBundles'
  BY DEF IInv, TypeOK, ProvenBundles, Declare, DeclareFolds, ProvesItsBundle, covers
<1>3. LeaversAreBehind'
  BY DEF IInv, TypeOK, LeaversAreBehind, Declare, DeclareFolds
<1>4. d \in (members \ locked)' /\ Ratchet
  BY DEF Declare, DeclareFolds, Admitted
<1>5. covers(declared_mask(bundle', d), floor)
  <2>1. declared_mask(bundle', d) = b
    BY ChainAssumption DEF IInv, TypeOK, Declare, DeclareFolds, declared_mask, Mask
  <2> QED
    BY <2>1, AdmittedCovers DEF Declare, DeclareFolds
<1>6. CanSign(d)'
  BY <1>1, <1>2, <1>4, <1>5, RatchetKeepsUp
<1>7. SteadyMembersCanSign'
  <2> SUFFICES ASSUME NEW e \in ((members \ locked) \ behind)', e # d
               PROVE  CanSign(e)'
    BY <1>6 DEF SteadyMembersCanSign
  <2>1. /\ e \in (members \ locked) \ behind
        /\ e \in (members \ locked)'
    BY DEF Declare, DeclareFolds
  <2>2. bundle'[e] = bundle[e]
    BY <2>1 DEF IInv, TypeOK, Declare, DeclareFolds
  <2> QED
    BY <1>1, <1>2, <1>4, <2>1, <2>2, UntouchedKeepUp DEF IInv
<1> QED
  BY <1>1, <1>2, <1>3, <1>6, <1>7, AbleSuffices DEF IInv

LEMMA AddIInv ==
  ASSUME IInv, NEW s \in Device, NEW d \in Device, NEW b \in Mask,
         NEW sigs \in SUBSET Capable[s], NEW consent \in SUBSET Capable[d],
         Add(s, d, b, sigs, consent)
  PROVE  IInv'
<1>1. TypeOK'
  <2>1. bundle' \in [Device -> {{}} \cup Mask]
    BY DEF IInv, TypeOK, Add, AddFolds, PushBundle
  <2>2. founded' /\ members' \subseteq Device
    BY DEF IInv, TypeOK, Add, AddFolds
  <2> QED
    BY <2>1, <2>2, RatchetKeepsType DEF IInv, TypeOK, Add, AddFolds
<1>2. ProvenBundles'
  BY DEF IInv, TypeOK, ProvenBundles, Add, AddFolds, PushBundle, JoinsAtFloor, verify_eggs,
     verify_sigs, covers
<1>3. LeaversAreBehind'
  BY DEF IInv, TypeOK, LeaversAreBehind, Add, AddFolds, PushBundle
<1>4. s \in (members \ locked)' /\ Ratchet /\ s # d
  BY DEF Add, AddFolds, Admitted
<1>5. \A e \in Device \ {d} : bundle'[e] = bundle[e]
  BY DEF IInv, TypeOK, Add, AddFolds, PushBundle
<1>6. covers(declared_mask(bundle', s), floor)
  BY <1>4, <1>5, AdmittedCovers DEF Add, AddFolds, declared_mask
<1>7. CanSign(s)'
  BY <1>1, <1>2, <1>4, <1>6, RatchetKeepsUp
<1>8. SteadyMembersCanSign'
  <2> SUFFICES ASSUME NEW e \in ((members \ locked) \ behind)'
               PROVE  CanSign(e)'
    BY DEF SteadyMembersCanSign
  <2>1. CASE e = d
    <3>1. declared_mask(bundle', d) = b
      BY <2>1, ChainAssumption
         DEF IInv, TypeOK, LeaversAreBehind, Add, AddFolds, PushBundle, declared_mask, Mask
    <3>2. covers(declared_mask(bundle', d), floor)
      BY <3>1 DEF Add, AddFolds, JoinsAtFloor
    <3> QED
      BY <1>1, <1>2, <1>4, <2>1, <3>2, RatchetKeepsUp
  <2>2. CASE e # d
    <3>1. /\ e \in (members \ locked) \ behind
          /\ e \in (members \ locked)'
      BY <2>2 DEF Add, AddFolds
    <3>2. bundle'[e] = bundle[e]
      BY <1>5, <2>2, <3>1 DEF IInv, TypeOK
    <3> QED
      BY <1>1, <1>2, <1>4, <3>1, <3>2, UntouchedKeepUp DEF IInv
  <2> QED
    BY <2>1, <2>2
<1> QED
  BY <1>1, <1>2, <1>3, <1>7, <1>8, AbleSuffices DEF IInv

\* The ops after which every live member was live before, and which leave
\* bundles alone: they need only their signer to survive.
LEMMA ShrinkingIInv ==
  ASSUME IInv, TypeOK', Ratchet, bundle' = bundle,
         behind \subseteq behind',
         ((members \ locked) \ behind)' \subseteq members \ locked,
         Device \ (members \cup behind)' \subseteq Device \ (members \cup behind),
         SomeoneCanSign'
  PROVE  IInv'
<1>1. ProvenBundles' /\ LeaversAreBehind'
  BY DEF IInv, ProvenBundles, LeaversAreBehind
<1>2. SteadyMembersCanSign'
  <2> SUFFICES ASSUME NEW e \in ((members \ locked) \ behind)'
               PROVE  CanSign(e)'
    BY DEF SteadyMembersCanSign
  <2>1. e \in (members \ locked) \ behind /\ e \in (members \ locked)'
    OBVIOUS
  <2> QED
    BY <1>1, <2>1, UntouchedKeepUp DEF IInv
<1> QED
  BY <1>1, <1>2 DEF IInv

\* The signer of an op that leaves bundles alone can sign the next one, when
\* the op leaves it a live member.
LEMMA SignerKeepsUp ==
  ASSUME IInv, TypeOK', Ratchet, bundle' = bundle,
         NEW s \in (members \ locked)', NEW sigs,
         Admitted(s, sigs, declared_mask(bundle, s))
  PROVE  SomeoneCanSign'
<1>1. ProvenBundles' /\ s \in Device
  BY DEF IInv, TypeOK, ProvenBundles
<1>2. covers(declared_mask(bundle', s), floor)
  BY AdmittedCovers
<1> QED
  BY <1>1, <1>2, RatchetKeepsUp, AbleSuffices

LEMMA ConsentedRemoveIInv ==
  ASSUME IInv, NEW s \in Device, NEW d \in Device, NEW sigs \in SUBSET Capable[s],
         NEW consent \in SUBSET Capable[d], ConsentedRemove(s, d, sigs, consent)
  PROVE  IInv'
<1>1. TypeOK' /\ Ratchet /\ bundle' = bundle
  BY RatchetKeepsType DEF IInv, TypeOK, ConsentedRemove, ConsentedRemoveFolds, Drop
<1>2. s \in (members \ locked)' /\ Admitted(s, sigs, declared_mask(bundle, s))
  BY DEF ConsentedRemove, ConsentedRemoveFolds, Drop, Admitted
<1>3. SomeoneCanSign'
  BY <1>1, <1>2, SignerKeepsUp
<1> QED
  BY <1>1, <1>3, ShrinkingIInv DEF ConsentedRemove, ConsentedRemoveFolds, Drop

LEMMA BareRemoveIInv ==
  ASSUME IInv, NEW d \in Device, NEW sigs \in SUBSET Capable[d], BareRemove(d, sigs)
  PROVE  IInv'
<1>1. TypeOK' /\ Ratchet /\ bundle' = bundle
  BY RatchetKeepsType DEF IInv, TypeOK, BareRemove, BareRemoveFolds, Drop
<1>2. SomeoneCanSign'
  BY DEF SomeoneCanSign, BareRemove, BareRemoveFolds
<1> QED
  BY <1>1, <1>2, ShrinkingIInv DEF BareRemove, BareRemoveFolds, Drop

LEMMA LockIInv ==
  ASSUME IInv, NEW s \in Device, NEW d \in Device, NEW sigs \in SUBSET Capable[s],
         Lock(s, d, sigs)
  PROVE  IInv'
<1>1. TypeOK' /\ Ratchet /\ bundle' = bundle
  BY RatchetKeepsType DEF IInv, TypeOK, Lock, LockFolds, Lockable
<1>2. s \in (members \ locked)' /\ Admitted(s, sigs, declared_mask(bundle, s))
  BY DEF Lock, LockFolds, Lockable, Admitted
<1>3. SomeoneCanSign'
  BY <1>1, <1>2, SignerKeepsUp
<1> QED
  BY <1>1, <1>3, ShrinkingIInv DEF Lock, LockFolds

LEMMA UnlockIInv ==
  ASSUME IInv, NEW s \in Device, NEW d \in Device, NEW sigs \in SUBSET Capable[s],
         Unlock(s, d, sigs)
  PROVE  IInv'
<1>1. TypeOK' /\ Ratchet /\ bundle' = bundle
  BY RatchetKeepsType DEF IInv, TypeOK, Unlock, UnlockFolds
<1>2. s \in (members \ locked)' /\ Admitted(s, sigs, declared_mask(bundle, s))
  BY DEF Unlock, UnlockFolds, Admitted
<1>3. SomeoneCanSign'
  BY <1>1, <1>2, SignerKeepsUp
<1> QED
  BY <1>1, <1>3, ShrinkingIInv DEF Unlock, UnlockFolds

LEMMA CheckpointIInv ==
  ASSUME IInv, NEW s \in Device, NEW sigs \in SUBSET Capable[s],
         NEW k \in 1..MaxCheckpoint, Checkpoint(s, k, sigs)
  PROVE  IInv'
<1>1. TypeOK' /\ Ratchet /\ bundle' = bundle
  BY ChainAssumption, RatchetKeepsType DEF IInv, TypeOK, Checkpoint, CheckpointFolds
<1>2. s \in (members \ locked)' /\ Admitted(s, sigs, declared_mask(bundle, s))
  BY DEF Checkpoint, CheckpointFolds, Admitted
<1>3. SomeoneCanSign'
  BY <1>1, <1>2, SignerKeepsUp
<1> QED
  BY <1>1, <1>3, ShrinkingIInv DEF Checkpoint, CheckpointFolds

LEMMA StutterIInv ==
  ASSUME IInv, UNCHANGED vars
  PROVE  IInv'
<1> USE DEF vars
<1>1. TypeOK' /\ ProvenBundles' /\ LeaversAreBehind'
  BY DEF IInv, TypeOK, ProvenBundles, LeaversAreBehind
<1>2. SteadyMembersCanSign' /\ SomeoneCanSign'
  BY DEF IInv, SteadyMembersCanSign, SomeoneCanSign, CanSign
<1> QED
  BY <1>1, <1>2 DEF IInv

LEMMA NextIInv == IInv /\ [Next]_vars => IInv'
<1> SUFFICES ASSUME IInv, [Next]_vars PROVE IInv'
  OBVIOUS
<1>1. CASE UNCHANGED vars
  BY <1>1, StutterIInv
<1>2. CASE Next
  <2>1. PICK s \in Device : \E sigs \in SUBSET Capable[s] : Op(s, sigs)
    BY <1>2 DEF Next
  <2>2. PICK sigs \in SUBSET Capable[s] : Op(s, sigs)
    BY <2>1
  <2> QED
    BY <2>2, GenesisIInv, DeclareIInv, AddIInv, ConsentedRemoveIInv, BareRemoveIInv,
       LockIInv, UnlockIInv, CheckpointIInv DEF Op
<1> QED
  BY <1>1, <1>2

THEOREM Invariance == Spec => []IInv
<1>1. Init => IInv
  BY InitIInv
<1>2. IInv /\ [Next]_vars => IInv'
  BY NextIInv
<1> QED
  BY <1>1, <1>2, PTL DEF Spec

-----------------------------------------------------------------------------
(* What follows from the invariant. *)

\* Locked-out devices are members, bundles and the floor are masks of known
\* schemes with Ed25519 in them: for a chain of any length, whatever MembershipBlob::fold
\* admits.
THEOREM ChainTypes == Spec => []TypeOK
<1>1. IInv => TypeOK
  BY DEF IInv
<1> QED
  BY <1>1, Invariance, PTL

\* A fleet is never bricked: no lock, removal or promotion the fold admits
\* leaves a chain nobody can extend, as long as every departure on it was
\* countersigned.
THEOREM FleetIsNeverBricked == Spec => []SomeoneCanSign
<1>1. IInv => SomeoneCanSign
  BY DEF IInv
<1> QED
  BY <1>1, Invariance, PTL

\* A live member that never left nor was locked out can sign the next op
\* whatever the others declared meanwhile.
THEOREM PromotionStrandsNobody == Spec => []SteadyMembersCanSign
<1>1. IInv => SteadyMembersCanSign
  BY DEF IInv
<1> QED
  BY <1>1, Invariance, PTL

\* The invariant says all that the Declare of a straggler needs.
LEMMA StragglersAreTaken == IInv => StragglerCanCatchUp
<1> SUFFICES ASSUME IInv, NEW d \in members \ locked, covers(Capable[d], floor)
             PROVE  /\ Admitted(d, Capable[d], Capable[d])
                    /\ ProvesItsBundle(d, Capable[d], Capable[d])
  BY DEF StragglerCanCatchUp
<1>1. d \in Device
  BY DEF IInv, TypeOK
<1>2. Admitted(d, Capable[d], Capable[d])
  BY <1>1, ChainAssumption DEF Admitted, verify_sigs
<1>3. ProvesItsBundle(d, Capable[d], Capable[d])
  BY <1>1 DEF IInv, ProvenBundles, ProvesItsBundle, covers
<1> QED
  BY <1>2, <1>3

\* Whoever fell behind the floor and holds its keys gets back by one Declare.
THEOREM StragglersReturn == Spec => []StragglerCanCatchUp
BY StragglersAreTaken, Invariance, PTL

\* An op takes nothing out of a device's entry.
LEMMA BundlesGrow ==
  ASSUME IInv, Next
  PROVE  \A d \in Device : covers(bundle'[d], bundle[d])
<1> DEFINE Keeps == \A d \in Device : covers(bundle'[d], bundle[d])
<1>1. PICK s \in Device : \E sigs \in SUBSET Capable[s] : Op(s, sigs)
  BY DEF Next
<1>2. PICK sigs \in SUBSET Capable[s] : Op(s, sigs)
  BY <1>1
<1>3. CASE bundle' = bundle
  BY <1>3 DEF covers
<1>4. ASSUME NEW b \in Mask, Declare(s, b, sigs) PROVE Keeps
  BY <1>4 DEF IInv, TypeOK, Declare, DeclareFolds, ProvesItsBundle, covers
<1>5. ASSUME NEW d \in Device, NEW b \in Mask, NEW consent \in SUBSET Capable[d],
             Add(s, d, b, sigs, consent)
      PROVE  Keeps
  BY <1>5 DEF IInv, TypeOK, Add, PushBundle, covers
<1> QED
  BY <1>2, <1>3, <1>4, <1>5
     DEF Op, Genesis, ConsentedRemove, BareRemove, Lock, Unlock, Checkpoint

\* Capability is monotonic per device: no op, nor leaving and coming back,
\* takes a scheme out of the entry the chain holds for a device.
THEOREM NobodyRenounces == Spec => CapabilityNeverFalls
<1>1. IInv /\ [Next]_vars => [\A d \in Device : covers(bundle'[d], bundle[d])]_vars
  BY BundlesGrow
<1> QED
  BY <1>1, Invariance, PTL DEF Spec, CapabilityNeverFalls

\* No op lowers the floor, so an op that folds once the fleet is at the full
\* set of schemes always carries all of them: there is no way back to
\* Ed25519 alone.
FloorNeverFalls == [][covers(floor', floor)]_vars

THEOREM NoDowngrade == Spec => FloorNeverFalls
<1>1. ASSUME NEW s \in Device, NEW sigs, Op(s, sigs) PROVE Ratchet
  BY <1>1 DEF Op, Genesis, Declare, Add, ConsentedRemove, BareRemove, Lock, Unlock, Checkpoint
<1>2. [Next]_vars => [covers(floor', floor)]_vars
  BY <1>1 DEF Next, Ratchet, covers
<1> QED
  BY <1>2, PTL DEF Spec, FloorNeverFalls

-----------------------------------------------------------------------------
(* The calls of the clients. *)

Phase == {"fetch", "publish", "refetch"}

\* What a call under way carries: targets and epochs in range, and eggs under
\* keys the consenting device holds.
CallsAreFormed ==
  /\ DOMAIN call = Client
  /\ \A c \in Client : Underway(c) =>
       /\ call[c] \in [kind : Kind, target : Device, k : 1..MaxCheckpoint,
                       consent : SUBSET Scheme, left : Int, at : Phase]
       /\ call[c].consent \in SUBSET Capable[call[c].target]
  /\ \A d \in Device : departure[d] \in SUBSET Capable[d]
  /\ DOMAIN departure = Device

FleetInv ==
  /\ IInv
  /\ founded
  /\ ~bare
  /\ CallsAreFormed

-----------------------------------------------------------------------------
LEMMA InitFleetInv == ClientInit => FleetInv
<1> SUFFICES ASSUME ClientInit PROVE FleetInv
  OBVIOUS
<1> USE ChainAssumption, ClientAssumption
<1>1. TypeOK
  <2>1. floor \in Mask /\ Base \in Mask
    BY DEF ClientInit, Mask
  <2>2. last_ckpt_k \in 0..MaxCheckpoint
    BY DEF ClientInit
  <2>3. bundle \in [Device -> {{}} \cup Mask]
    BY <2>1 DEF ClientInit
  <2> QED
    BY <2>1, <2>2, <2>3 DEF ClientInit, TypeOK
<1>2. ProvenBundles /\ LeaversAreBehind
  BY DEF ClientInit, ProvenBundles, LeaversAreBehind, covers
<1>3. \A d \in members : CanSign(d)
  BY DEF ClientInit, CanSign, covers, declared_mask
<1>4. SteadyMembersCanSign /\ SomeoneCanSign
  BY <1>3 DEF ClientInit, SteadyMembersCanSign, SomeoneCanSign
<1>5. CallsAreFormed
  BY DEF ClientInit, CallsAreFormed, Underway
<1> QED
  BY <1>1, <1>2, <1>4, <1>5 DEF FleetInv, IInv, ClientInit

\* The op a call lands is an op of the chain, made with keys its device holds.
LEMMA AppendsIsOp ==
  ASSUME FleetInv, NEW c \in Client, Underway(c), Appends(c)
  PROVE  Next
<1> DEFINE me == Home[c]
           i == call[c]
           sigs == declared_mask(bundle, me) \cap Capable[me]
<1>1. /\ me \in Device
      /\ sigs \in SUBSET Capable[me]
      /\ Capable[me] \in SUBSET Capable[me]
  BY ClientAssumption
<1>2. \A d \in Device : Capable[d] \in Mask
  BY ChainAssumption DEF Mask
<1>3. /\ i.target \in Device
      /\ i.k \in 1..MaxCheckpoint
      /\ i.consent \in SUBSET Capable[i.target]
  BY DEF FleetInv, CallsAreFormed
<1>4. CASE Declare(me, Capable[me], Capable[me])
  BY <1>1, <1>2, <1>4 DEF Next, Op
<1>5. CASE Add(me, i.target, Capable[i.target], sigs, i.consent)
  <2>1. Op(me, sigs)
    BY <1>2, <1>3, <1>5 DEF Op
  <2> QED
    BY <1>1, <2>1 DEF Next
<1>6. CASE ConsentedRemove(me, i.target, sigs, i.consent)
  BY <1>1, <1>3, <1>6 DEF Next, Op
<1>7. CASE Lock(me, i.target, sigs) \/ Unlock(me, i.target, sigs)
  BY <1>1, <1>3, <1>7 DEF Next, Op
<1>8. CASE Checkpoint(me, i.k, sigs)
  BY <1>1, <1>3, <1>8 DEF Next, Op
<1> QED
  BY <1>4, <1>5, <1>6, <1>7, <1>8 DEF Appends, BareDeparturesPass

\* Every step of the clients is an op of the chain or leaves it alone.
LEMMA StepsAreOps ==
  ASSUME FleetInv, [ClientNext]_allVars
  PROVE  [Next]_vars
<1>1. CASE UNCHANGED allVars
  BY <1>1 DEF allVars
<1>2. ASSUME NEW c \in Client, Step(c) PROVE [Next]_vars
  <2>1. ASSUME NEW result, Lands(c, result) PROVE Next
    BY <2>1, AppendsIsOp DEF Lands
  <2> QED
    BY <1>2, <2>1 DEF Step, Fetch, Stale, Overtaken, Refetch, LostTheRace, Refused,
       Dropped, Goes, Adjudicates, Returns
<1>3. ASSUME NEW c \in Client, NEW j \in Intent[c], Begin(c, j) PROVE UNCHANGED vars
  BY <1>3 DEF Begin
<1>4. ASSUME NEW d \in Mobile, Ceremonies(d) PROVE UNCHANGED vars
  BY <1>4 DEF Ceremonies, AsksToJoin, Unlisted, JoinWindowCloses, AsksToLeave,
     LeaveWindowCloses, Ceremony
<1> QED
  BY <1>1, <1>2, <1>3, <1>4 DEF ClientNext

\* The clients land no departure without consent, and nothing unfounds a fleet.
LEMMA StaysBilateral ==
  ASSUME FleetInv, [ClientNext]_allVars
  PROVE  founded' /\ ~bare'
<1>1. ASSUME NEW c \in Client, Appends(c) PROVE UNCHANGED <<founded, bare>>
  BY <1>1 DEF Appends, BareDeparturesPass, Declare, Add, ConsentedRemove, Lock, Unlock, Checkpoint
<1>2. ASSUME NEW c \in Client, Step(c) PROVE UNCHANGED <<founded, bare>>
  BY <1>1, <1>2 DEF Step, Lands, Fetch, Stale, Overtaken, Refetch, LostTheRace, Refused,
     Dropped, Goes, Adjudicates, Returns, vars
<1>3. ASSUME NEW c \in Client, NEW j \in Intent[c], Begin(c, j) PROVE UNCHANGED vars
  BY <1>3 DEF Begin
<1>4. ASSUME NEW d \in Mobile, Ceremonies(d) PROVE UNCHANGED vars
  BY <1>4 DEF Ceremonies, AsksToJoin, Unlisted, JoinWindowCloses, AsksToLeave,
     LeaveWindowCloses, Ceremony
<1>5. UNCHANGED <<founded, bare>>
  BY <1>2, <1>3, <1>4 DEF ClientNext, allVars, vars
<1> QED
  BY <1>5 DEF FleetInv

LEMMA CallsStayFormed ==
  ASSUME FleetInv, [ClientNext]_allVars
  PROVE  CallsAreFormed'
<1> USE DEF CallsAreFormed, Underway
<1>0. CallsAreFormed
  BY DEF FleetInv
<1>1. ASSUME NEW c \in Client, Step(c) PROVE CallsAreFormed'
  <2>1. departure' = departure
    BY <1>1 DEF Step, Fetch, Lands, Stale, Overtaken, Refetch, LostTheRace, Refused,
       Dropped, Goes, Adjudicates, Returns
  <2>2. \/ call' = [call EXCEPT ![c] = NoCall]
        \/ \E at \in Phase, left \in Int :
             Underway(c) /\ call' = [call EXCEPT ![c].at = at, ![c].left = left]
    <3> DEFINE Ends == call' = [call EXCEPT ![c] = NoCall]
               Moves(at, left) == call' = [call EXCEPT ![c].at = at, ![c].left = left]
    <3>1. Underway(c) => call[c].left \in Int /\ call[c].left - 1 \in Int
      <4>1. Underway(c) =>
              call[c] \in [kind : Kind, target : Device, k : 1..MaxCheckpoint,
                           consent : SUBSET Scheme, left : Int, at : Phase]
        BY <1>0
      <4>2. Underway(c) => call[c].left \in Int
        BY <4>1
      <4> QED
        BY <4>2
    <3>2. CASE Fetch(c)
      <4>1. Underway(c)
        BY <3>2 DEF Fetch
      <4>2. Ends \/ Moves("publish", call[c].left)
        BY <3>2 DEF Fetch, Goes, Adjudicates, Returns
      <4> QED
        BY <3>1, <4>1, <4>2 DEF Phase
    <3>3. CASE Stale(c)
      <4>1. Underway(c)
        BY <3>3 DEF Stale
      <4>2. \/ Ends
            \/ Moves("fetch", call[c].left - 1)
            \/ Moves("refetch", call[c].left)
        BY <3>3 DEF Stale, Overtaken, Goes, Returns
      <4> QED
        BY <3>1, <4>1, <4>2 DEF Phase
    <3>4. CASE ~Fetch(c) /\ ~Stale(c)
      BY <1>1, <3>4 DEF Step, Lands, Refetch, LostTheRace, Refused, Dropped, Returns
    <3> QED
      BY <3>2, <3>3, <3>4
  <2>3. CASE call' = [call EXCEPT ![c] = NoCall]
    BY <1>0, <2>1, <2>3
  <2>4. ASSUME NEW at \in Phase, NEW left \in Int, Underway(c),
               call' = [call EXCEPT ![c].at = at, ![c].left = left]
        PROVE  CallsAreFormed'
    <3>1. call'[c] = [call[c] EXCEPT !.at = at, !.left = left]
      BY <1>0, <2>4
    <3>2. /\ call'[c] \in [kind : Kind, target : Device, k : 1..MaxCheckpoint,
                           consent : SUBSET Scheme, left : Int, at : Phase]
          /\ call'[c].consent = call[c].consent
          /\ call'[c].target = call[c].target
      BY <1>0, <2>4, <3>1
    <3>3. DOMAIN call' = Client /\ \A x \in Client \ {c} : call'[x] = call[x]
      BY <1>0, <2>4
    <3> QED
      BY <1>0, <2>1, <3>2, <3>3, <2>4
  <2> QED
    BY <2>2, <2>3, <2>4
<1>2. ASSUME NEW c \in Client, NEW i \in Intent[c], Begin(c, i) PROVE CallsAreFormed'
  <2>1. i \in [kind : Kind, target : Device, k : 1..MaxCheckpoint]
    BY ClientAssumption
  <2>2. Carried(i) \in SUBSET Capable[i.target]
    BY <1>0, <2>1 DEF Carried, Kind
  <2>3. /\ departure' = departure
        /\ call' = [call EXCEPT ![c] =
             [kind |-> i.kind, target |-> i.target, k |-> i.k, consent |-> Carried(i),
              left |-> Attempts, at |-> "fetch"]]
    BY <1>2 DEF Begin
  <2>4. /\ call'[c] \in [kind : Kind, target : Device, k : 1..MaxCheckpoint,
                         consent : SUBSET Scheme, left : Int, at : Phase]
        /\ call'[c].consent \in SUBSET Capable[call'[c].target]
    BY <1>0, <2>1, <2>2, <2>3, ChainAssumption, ClientAssumption DEF Phase
  <2>5. DOMAIN call' = Client /\ \A x \in Client \ {c} : call'[x] = call[x]
    BY <1>0, <2>3
  <2> QED
    BY <1>0, <2>3, <2>4, <2>5
<1>3. ASSUME NEW d \in Mobile, Ceremonies(d) PROVE CallsAreFormed'
  <2>1. d \in Device /\ call' = call
    BY <1>3, ClientAssumption DEF Ceremonies, AsksToJoin, Unlisted, JoinWindowCloses,
       AsksToLeave, LeaveWindowCloses, Ceremony
  <2>2. \E v \in SUBSET Capable[d] : departure' = [departure EXCEPT ![d] = v]
    BY <1>0, <1>3, <2>1 DEF Ceremonies, AsksToJoin, Unlisted, JoinWindowCloses,
       AsksToLeave, LeaveWindowCloses, Ceremony
  <2>3. \A e \in Device : departure'[e] \in SUBSET Capable[e]
    BY <1>0, <2>1, <2>2
  <2> QED
    BY <1>0, <2>1, <2>2, <2>3
<1>4. CASE UNCHANGED allVars
  <2>1. call' = call /\ departure' = departure
    BY <1>4 DEF allVars, clientVars
  <2> QED
    BY <1>0, <2>1
<1> QED
  BY <1>1, <1>2, <1>3, <1>4 DEF ClientNext

LEMMA FleetInvariance == ClientSpec => []FleetInv
<1>1. FleetInv /\ [ClientNext]_allVars => FleetInv'
  BY StepsAreOps, NextIInv, StaysBilateral, CallsStayFormed DEF FleetInv
<1> QED
  BY <1>1, InitFleetInv, PTL DEF ClientSpec

-----------------------------------------------------------------------------
\* The calls implement the chain: whatever the clients publish, in whatever
\* order the posts arrive, the stored chain grows by single ops that fold.
StoredChainFolds == [][Next]_vars

THEOREM ClientsBuildChains == ClientSpec => StoredChainFolds
<1>1. FleetInv /\ [ClientNext]_allVars => [Next]_vars
  BY StepsAreOps
<1> QED
  BY <1>1, FleetInvariance, PTL DEF ClientSpec, StoredChainFolds

\* A fleet kept by these calls can always be extended by one of its devices.
THEOREM ClientsNeverBrickTheFleet == ClientSpec => []FleetLives
<1>1. FleetInv => FleetLives
  BY DEF FleetInv, IInv, SomeoneCanSign, FleetLives
<1> QED
  BY <1>1, FleetInvariance, PTL
-----------------------------------------------------------------------------
(* What callers are told. *)

\* The chain holds one minter for each epoch up to the last.
MintersAreRecorded == commits \in Seq(Client) /\ Len(commits) = last_ckpt_k

CallShape(x) ==
  x \in [kind : Kind, target : Device, k : 1..MaxCheckpoint,
         consent : {{}} \cup Mask, left : 1..Attempts, at : Phase]

\* A call is about what its caller may ask for; if the chain is as the call wants
\* it, that is on record.
CallIsFit(c) ==
  /\ call[c].kind \in {"declare", "depart", "checkpoint"} => call[c].target = Home[c]
  /\ Achieved(call[c], members, locked, bundle, commits) => held[c]

CallsAreFit ==
  /\ MintersAreRecorded
  /\ DOMAIN call = Client
  /\ \A c \in Client : Underway(c) => CallShape(call[c]) /\ CallIsFit(c)
  /\ onHead \subseteq {c \in Client : Underway(c) /\ call[c].at = "publish"}
  /\ request \in [Device -> {"fresh", "unlisted", "none"}]
  /\ departure \in [Device -> {{}} \cup Mask]
  /\ held \in [Client -> BOOLEAN]

AnswersInv == FleetInv /\ CallsAreFit /\ OkMeansDone /\ SingleWinner

AnswerIsTrue == OkMeansDone /\ SingleWinner

\* A step without an answer claims nothing.
LEMMA NothingClaimed ==
  ASSUME answer' = NoAnswer
  PROVE  AnswerIsTrue'
BY DEF AnswerIsTrue, OkMeansDone, SingleWinner, NoAnswer

\* A call that ends leaves the others as they are, and its answer is true if
\* what it says of the chain is.
LEMMA ReturnsIsTrue ==
  ASSUME CallsAreFit, NEW c \in Client, NEW result, NEW epoch, NEW by,
         Returns(c, result, epoch, by),
         result = "ok" => held[c],
         result = "minter" => SkipsAnEpoch(call[c]),
         result = "loser" => \/ SkipsAnEpoch(call[c])
                             \/ /\ call[c].k \in DOMAIN commits
                                /\ epoch >= call[c].k /\ commits[epoch] = by
  PROVE  CallsAreFit' /\ AnswerIsTrue'
<1>1. /\ UNCHANGED <<members, locked, bundle, last_ckpt_k, commits, request, departure>>
      /\ call' = [call EXCEPT ![c] = NoCall]
      /\ onHead' = onHead \ {c}
      /\ held' = [held EXCEPT ![c] = FALSE]
      /\ answer' = Answer(c, result, epoch, by, FALSE)
  BY DEF Returns, vars
<1>2. /\ DOMAIN call' = Client /\ call'[c] = NoCall
      /\ \A x \in Client \ {c} : call'[x] = call[x] /\ held'[x] = held[x]
      /\ held' \in [Client -> BOOLEAN]
  BY <1>1 DEF CallsAreFit
<1>3. CallsAreFit'
  <2>1. MintersAreRecorded'
    BY <1>1 DEF CallsAreFit, MintersAreRecorded
  <2>2. ASSUME NEW x \in Client, Underway(x)' PROVE CallShape(call[x])' /\ CallIsFit(x)'
    <3>1. x # c /\ Underway(x)
      BY <1>2, <2>2 DEF Underway
    <3>2. call'[x] = call[x] /\ held'[x] = held[x]
      BY <1>2, <3>1
    <3> QED
      BY <1>1, <3>1, <3>2 DEF CallsAreFit, CallShape, CallIsFit, Achieved
  <2>3. (onHead \subseteq {x \in Client : Underway(x) /\ call[x].at = "publish"})'
    BY <1>1, <1>2 DEF CallsAreFit, Underway
  <2> QED
    BY <1>1, <1>2, <2>1, <2>2, <2>3 DEF CallsAreFit
<1>4. /\ answer'.result = result /\ answer'.epoch = epoch /\ answer'.by = by
      /\ answer'.intent = call[c] /\ answer'.client = c
      /\ answer'.held = (held[c] \/ FALSE)
  BY <1>1 DEF Answer
<1>5. AnswerIsTrue'
  <2>1. OkMeansDone'
    BY <1>1, <1>4 DEF OkMeansDone
  <2>2. SkipsAnEpoch(answer.intent)' = SkipsAnEpoch(call[c])
    BY <1>1, <1>4 DEF SkipsAnEpoch
  <2>3. SingleWinner'
    BY <1>1, <1>4, <2>2 DEF SingleWinner
  <2> QED
    BY <2>1, <2>3 DEF AnswerIsTrue
<1> QED
  BY <1>3, <1>5

\* A call that goes on is about the same.
LEMMA GoesOn ==
  ASSUME CallsAreFit, NEW c \in Client, Underway(c),
         NEW at \in Phase, NEW left \in 1..Attempts, Goes(c, at, left),
         \/ at = "publish" /\ onHead' = onHead \cup {c}
         \/ c \notin onHead /\ onHead' = onHead
  PROVE  CallsAreFit' /\ AnswerIsTrue'
<1>1. /\ UNCHANGED <<members, locked, bundle, last_ckpt_k, commits, request, departure, held>>
      /\ call' = [call EXCEPT ![c].at = at, ![c].left = left]
      /\ answer' = NoAnswer
  BY DEF Goes, vars
<1>2. CallShape(call[c]) /\ CallIsFit(c) /\ DOMAIN call = Client
  BY DEF CallsAreFit
<1>3. call'[c] = [call[c] EXCEPT !.at = at, !.left = left]
  BY <1>1, <1>2
<1>4. /\ CallShape(call'[c])
      /\ call'[c].kind = call[c].kind /\ call'[c].target = call[c].target
      /\ call'[c].k = call[c].k /\ call'[c].at = at
  BY <1>2, <1>3 DEF CallShape
<1>5. DOMAIN call' = Client /\ \A x \in Client \ {c} : call'[x] = call[x]
  BY <1>1, <1>2
<1>6. CallIsFit(c)'
  BY <1>1, <1>2, <1>4 DEF CallIsFit, Achieved
<1>7. ASSUME NEW x \in Client, Underway(x)' PROVE CallShape(call[x])' /\ CallIsFit(x)'
  <2>1. CASE x = c
    BY <2>1, <1>4, <1>6 DEF CallShape
  <2>2. CASE x # c
    <3>1. call'[x] = call[x] /\ Underway(x)
      BY <1>5, <1>7, <2>2 DEF Underway
    <3> QED
      BY <1>1, <3>1 DEF CallsAreFit, CallShape, CallIsFit, Achieved
  <2> QED
    BY <2>1, <2>2
<1>8. (onHead \subseteq {x \in Client : Underway(x) /\ call[x].at = "publish"})'
  <2>1. call'[c] # NoCall
    <3>1. call'[c].kind \in Kind
      BY <1>4 DEF CallShape
    <3>2. NoCall.kind \notin Kind
      BY DEF NoCall, Kind
    <3> QED
      BY <3>1, <3>2
  <2> QED
    BY <1>4, <1>5, <2>1 DEF CallsAreFit, Underway
<1>9. MintersAreRecorded'
  BY <1>1 DEF CallsAreFit, MintersAreRecorded
<1>10. CallsAreFit'
  BY <1>1, <1>5, <1>7, <1>8, <1>9 DEF CallsAreFit
<1> QED
  BY <1>1, <1>10, NothingClaimed

\* A call that is asked for begins with what it is about.
LEMMA BeginIsFit ==
  ASSUME CallsAreFit, NEW c \in Client, NEW i \in Intent[c], Begin(c, i)
  PROVE  CallsAreFit' /\ AnswerIsTrue'
<1> DEFINE new == [kind |-> i.kind, target |-> i.target, k |-> i.k, consent |-> Carried(i),
                   left |-> Attempts, at |-> "fetch"]
<1>1. /\ UNCHANGED <<members, locked, bundle, last_ckpt_k, commits, request, departure, onHead>>
      /\ call[c] = NoCall /\ call' = [call EXCEPT ![c] = new]
      /\ held' = [held EXCEPT ![c] = Achieved(i, members, locked, bundle, commits)]
      /\ answer' = NoAnswer
  BY DEF Begin, vars
<1>2. /\ i \in [kind : Kind, target : Device, k : 1..MaxCheckpoint]
      /\ i.kind \in {"declare", "depart", "checkpoint"} => i.target = Home[c]
      /\ Attempts \in 1..Attempts
  BY ClientAssumption
<1>3. Carried(i) \in {{}} \cup Mask
  <2>1. Capable[i.target] \in Mask
    BY <1>2, ChainAssumption DEF Mask
  <2> QED
    BY <1>2, <2>1 DEF Carried, Kind, CallsAreFit
<1>4. /\ CallShape(new) /\ new.kind = i.kind /\ new.target = i.target /\ new.k = i.k
  BY <1>2, <1>3 DEF CallShape, Phase
<1> HIDE DEF new
<1>5. /\ DOMAIN call' = Client /\ call'[c] = new
      /\ \A x \in Client \ {c} : call'[x] = call[x] /\ held'[x] = held[x]
      /\ held'[c] = Achieved(i, members, locked, bundle, commits)
  BY <1>1 DEF CallsAreFit
<1>6. held' \in [Client -> BOOLEAN]
  <2>1. Achieved(i, members, locked, bundle, commits) \in BOOLEAN
    BY DEF Achieved, covers
  <2> QED
    BY <1>1, <2>1 DEF CallsAreFit
<1>7. CallIsFit(c)'
  BY <1>1, <1>2, <1>4, <1>5 DEF CallIsFit, Achieved
<1>8. ASSUME NEW x \in Client, Underway(x)' PROVE CallShape(call[x])' /\ CallIsFit(x)'
  <2>1. CASE x = c
    BY <2>1, <1>4, <1>5, <1>7 DEF CallShape
  <2>2. CASE x # c
    <3>1. call'[x] = call[x] /\ held'[x] = held[x] /\ Underway(x)
      BY <1>5, <1>8, <2>2 DEF Underway
    <3> QED
      BY <1>1, <3>1 DEF CallsAreFit, CallShape, CallIsFit, Achieved
  <2> QED
    BY <2>1, <2>2
<1>9. (onHead \subseteq {x \in Client : Underway(x) /\ call[x].at = "publish"})'
  BY <1>1, <1>5 DEF CallsAreFit, Underway
<1>10. MintersAreRecorded'
  BY <1>1 DEF CallsAreFit, MintersAreRecorded
<1>11. CallsAreFit'
  BY <1>1, <1>5, <1>6, <1>8, <1>9, <1>10 DEF CallsAreFit
<1> QED
  BY <1>1, <1>11, NothingClaimed

LEMMA CeremoniesAreFit ==
  ASSUME TypeOK, CallsAreFit, NEW d \in Mobile, Ceremonies(d)
  PROVE  CallsAreFit' /\ AnswerIsTrue'
<1>1. PICK req \in {"fresh", "unlisted", "none"}, dep \in {{}} \cup Mask : Ceremony(d, req, dep)
  <2>1. d \in Device
    BY ClientAssumption
  <2>2. request[d] \in {"fresh", "unlisted", "none"} /\ departure[d] \in {{}} \cup Mask
    BY <2>1 DEF CallsAreFit
  <2>3. declared_mask(bundle, d) \cap Capable[d] \in Mask
    BY <2>1, ChainAssumption DEF TypeOK, declared_mask, Mask
  <2> QED
    BY <2>2, <2>3 DEF Ceremonies, AsksToJoin, Unlisted, JoinWindowCloses, AsksToLeave,
       LeaveWindowCloses
<1>2. /\ UNCHANGED <<members, locked, bundle, last_ckpt_k, commits, call, onHead, held>>
      /\ request' = [request EXCEPT ![d] = req]
      /\ departure' = [departure EXCEPT ![d] = dep]
      /\ answer' = NoAnswer
  BY <1>1 DEF Ceremony, vars
<1>3. CallsAreFit'
  BY <1>2 DEF CallsAreFit, MintersAreRecorded, Underway, CallShape, CallIsFit, Achieved
<1> QED
  BY <1>2, <1>3, NothingClaimed

\* The op a call lands is what the call is for.
LEMMA LandedIsDone ==
  ASSUME FleetInv, CallsAreFit, NEW c \in Client, Underway(c), Appends(c),
         call[c].kind # "checkpoint", NEW cs
  PROVE  Achieved(call[c], members', locked', bundle', cs)
<1> DEFINE i == call[c]
           me == Home[c]
<1>1. /\ TypeOK /\ CallShape(i) /\ CallIsFit(c)
      /\ Capable[me] # {} /\ me \in Device /\ DOMAIN bundle = Device
  BY ChainAssumption, ClientAssumption DEF FleetInv, IInv, TypeOK, CallsAreFit
<1>2. CASE i.kind = "declare" /\ Declare(me, Capable[me], Capable[me])
  <2>1. i.target = me /\ bundle'[me] = Capable[me]
    BY <1>1, <1>2 DEF Declare, DeclareFolds, CallIsFit
  <2> QED
    BY <1>1, <1>2, <2>1 DEF Achieved, covers, declared_mask
<1>3. CASE i.kind = "bind" /\ i.target \in members'
  BY <1>3 DEF Achieved
<1>4. CASE i.kind = "remove" /\ i.target \notin members'
  BY <1>4 DEF Achieved
<1>5. CASE i.kind = "lock" /\ i.target \in locked'
  BY <1>5 DEF Achieved
<1>6. CASE i.kind = "unlock" /\ i.target \notin locked'
  BY <1>6 DEF Achieved
<1> QED
  BY <1>2, <1>3, <1>4, <1>5, <1>6
     DEF Appends, BareDeparturesPass, Add, ConsentedRemove, Drop, Lock, Unlock

\* No op but a Checkpoint moves the epoch, and that by one.
LEMMA EpochsAreOps ==
  ASSUME NEW c \in Client, Appends(c)
  PROVE  /\ call[c].kind = "checkpoint" => call[c].k = last_ckpt_k + 1 /\ last_ckpt_k' = call[c].k
         /\ call[c].kind # "checkpoint" => last_ckpt_k' = last_ckpt_k
BY DEF Appends, BareDeparturesPass, Declare, Add, ConsentedRemove, Lock, Unlock, Checkpoint,
       CheckpointFolds

LEMMA LandsIsTrue ==
  ASSUME FleetInv, CallsAreFit, NEW c \in Client, NEW result, Lands(c, result)
  PROVE  CallsAreFit' /\ AnswerIsTrue'
<1> DEFINE others == {x \in Client \ {c} : Underway(x)}
           done(x) == Achieved(call[x], members', locked', bundle', commits')
           ckpt == call[c].kind = "checkpoint"
<1>1. /\ Underway(c) /\ Appends(c)
      /\ commits' = IF ckpt THEN Append(commits, c) ELSE commits
      /\ result \in {IF ckpt THEN "minter" ELSE "ok", "transport"}
      /\ answer' = Answer(c, result, call[c].k, c, done(c))
      /\ held' = [x \in Client |-> x \in others /\ (held[x] \/ done(x))]
      /\ call' = [call EXCEPT ![c] = NoCall]
      /\ onHead' = {} /\ UNCHANGED <<request, departure>>
  BY DEF Lands
<1>2. /\ ckpt => call[c].k = last_ckpt_k + 1 /\ last_ckpt_k' = call[c].k
      /\ ~ckpt => last_ckpt_k' = last_ckpt_k
      /\ last_ckpt_k \in Int
  BY <1>1, EpochsAreOps DEF FleetInv, IInv, TypeOK
<1>3. /\ MintersAreRecorded'
      /\ ckpt => call[c].k \in DOMAIN commits' /\ commits'[call[c].k] = c
  <2>1. commits \in Seq(Client) /\ Len(commits) = last_ckpt_k
    BY DEF CallsAreFit, MintersAreRecorded
  <2>2. CASE ckpt
    <3>1. /\ commits' \in Seq(Client) /\ Len(commits') = Len(commits) + 1
          /\ commits'[Len(commits) + 1] = c /\ Len(commits) + 1 \in DOMAIN commits'
      BY <1>1, <2>1, <2>2
    <3> QED
      BY <1>2, <2>1, <2>2, <3>1 DEF MintersAreRecorded
  <2>3. CASE ~ckpt
    BY <1>1, <1>2, <2>1, <2>3 DEF MintersAreRecorded
  <2> QED
    BY <2>2, <2>3
<1>4. /\ DOMAIN call' = Client /\ call'[c] = NoCall
      /\ \A x \in Client \ {c} : call'[x] = call[x]
  BY <1>1 DEF CallsAreFit
<1>5. ASSUME NEW x \in Client, Underway(x)' PROVE CallShape(call[x])' /\ CallIsFit(x)'
  <2>1. x # c /\ call'[x] = call[x] /\ Underway(x)
    BY <1>4, <1>5 DEF Underway
  <2>2. CallShape(call[x]) /\ CallIsFit(x)
    BY <2>1 DEF CallsAreFit
  <2>5. x \in others
    BY <2>1
  <2>6. held'[x] = (held[x] \/ done(x))
    <3> HIDE DEF others, done
    <3> QED
      BY <1>1, <2>5
  <2> QED
    BY <2>1, <2>2, <2>6 DEF CallShape, CallIsFit
<1>6. held' \in [Client -> BOOLEAN]
  <2> HIDE DEF done, others
  <2> QED
    BY <1>1
<1>7. CallsAreFit'
  BY <1>1, <1>3, <1>4, <1>5, <1>6 DEF CallsAreFit
<1>8. /\ answer'.result = result /\ answer'.client = c /\ answer'.intent = call[c]
      /\ answer'.held = (held[c] \/ done(c))
  <2> HIDE DEF done
  <2> QED
    BY <1>1 DEF Answer
<1>9. result = "ok" => done(c)
  BY <1>1, LandedIsDone
<1>10. AnswerIsTrue'
  <2> HIDE DEF done
  <2>1. OkMeansDone'
    BY <1>8, <1>9 DEF OkMeansDone
  <2>2. result # "loser" /\ (result = "minter" => ckpt)
    BY <1>1
  <2>3. SingleWinner'
    BY <1>3, <1>8, <2>2 DEF SingleWinner
  <2> QED
    BY <2>1, <2>3 DEF AnswerIsTrue
<1> QED
  BY <1>7, <1>10

\* A call that fetches: what ends there ends with the truth.  An Ok comes from
\* a chain that is as the call wants it; only a caller that skips an epoch is
\* called the minter without a post.
LEMMA FetchIsTrue ==
  ASSUME FleetInv, CallsAreFit, NEW c \in Client, Fetch(c)
  PROVE  CallsAreFit' /\ AnswerIsTrue'
<1>1. /\ Underway(c) /\ CallShape(call[c]) /\ CallIsFit(c) /\ MintersAreRecorded
      /\ call[c].k \in 1..MaxCheckpoint /\ call[c].left \in 1..Attempts
      /\ last_ckpt_k \in Int
  BY DEF Fetch, CallsAreFit, CallShape, FleetInv, IInv, TypeOK
<1>2. CASE Returns(c, "not_allowed", 0, c)
  BY <1>2, ReturnsIsTrue
<1>3. CASE AlreadyDone(c) /\ Returns(c, "ok", 0, c)
  <2>1. held[c]
    BY <1>1, <1>3 DEF AlreadyDone, CallIsFit
  <2> QED
    BY <1>3, <2>1, ReturnsIsTrue
<1>4. CASE OutOfTurn(c) /\ Adjudicates(c)
  <2>1. call[c].kind = "checkpoint" /\ call[c].k # last_ckpt_k + 1
    BY <1>4 DEF OutOfTurn
  <2>2. commits \in Seq(Client) /\ Len(commits) = last_ckpt_k /\ DOMAIN commits = 1..Len(commits)
    BY <1>1 DEF MintersAreRecorded
  <2>3. call[c].k \in Int /\ 1 <= call[c].k
    BY <1>1, ChainAssumption
  <2>4. SkipsAnEpoch(call[c]) \/ (call[c].k \in DOMAIN commits /\ last_ckpt_k >= call[c].k /\ last_ckpt_k # 0)
    BY <1>1, <2>1, <2>2, <2>3 DEF SkipsAnEpoch
  <2>5. CASE last_ckpt_k = 0 /\ Returns(c, "minter", 0, c)
    BY <2>4, <2>5, ReturnsIsTrue
  <2>6. CASE last_ckpt_k # 0 /\ Returns(c, "loser", last_ckpt_k, commits[last_ckpt_k])
    BY <2>4, <2>6, ReturnsIsTrue
  <2> QED
    BY <1>4, <2>5, <2>6 DEF Adjudicates
<1>5. CASE Goes(c, "publish", call[c].left) /\ onHead' = onHead \cup {c}
  BY <1>1, <1>5, GoesOn DEF Phase
<1> QED
  BY <1>2, <1>3, <1>4, <1>5 DEF Fetch

LEMMA StaleIsTrue ==
  ASSUME CallsAreFit, NEW c \in Client, Stale(c)
  PROVE  CallsAreFit' /\ AnswerIsTrue'
<1>1. Underway(c) /\ c \notin onHead /\ call[c].left \in 1..Attempts /\ Attempts \in Int
  BY ClientAssumption DEF Stale, CallsAreFit, CallShape
<1>2. CASE Returns(c, "races", 0, c)
  BY <1>2, ReturnsIsTrue
<1>3. CASE call[c].left > 1 /\ Goes(c, "fetch", call[c].left - 1) /\ UNCHANGED onHead
  <2>1. call[c].left - 1 \in 1..Attempts
    BY <1>1, <1>3
  <2> QED
    BY <1>1, <1>3, <2>1, GoesOn DEF Phase
<1>4. CASE Goes(c, "refetch", call[c].left) /\ UNCHANGED onHead
  BY <1>1, <1>4, GoesOn DEF Phase
<1> QED
  BY <1>2, <1>3, <1>4 DEF Stale, Overtaken

LEMMA AnswersInvStep == AnswersInv /\ [ClientNext]_allVars => AnswersInv'
<1> SUFFICES ASSUME AnswersInv, [ClientNext]_allVars PROVE AnswersInv'
  OBVIOUS
<1>0. FleetInv /\ CallsAreFit /\ TypeOK
  BY DEF AnswersInv, FleetInv, IInv
<1>1. FleetInv'
  BY <1>0, StepsAreOps, NextIInv, StaysBilateral, CallsStayFormed DEF FleetInv
<1>2. ASSUME NEW c \in Client, Step(c) PROVE CallsAreFit' /\ AnswerIsTrue'
  <2>1. CASE Refetch(c)
    <3>1. CASE last_ckpt_k >= call[c].k /\ LostTheRace(c)
      <4>1. /\ CallShape(call[c]) /\ MintersAreRecorded
            /\ call[c].k \in 1..MaxCheckpoint /\ last_ckpt_k \in Int
        BY <1>0, <2>1 DEF Refetch, CallsAreFit, CallShape, TypeOK
      <4>2. call[c].k \in Int /\ 1 <= call[c].k
        BY <4>1, ChainAssumption
      <4>3. call[c].k \in DOMAIN commits
        BY <3>1, <4>1, <4>2 DEF MintersAreRecorded
      <4> QED
        BY <1>0, <3>1, <4>3, ReturnsIsTrue DEF LostTheRace
    <3>2. CASE Returns(c, "stale", 0, c)
      BY <1>0, <3>2, ReturnsIsTrue
    <3> QED
      BY <2>1, <3>1, <3>2 DEF Refetch
  <2>2. CASE Refused(c)
    BY <1>0, <2>2, ReturnsIsTrue DEF Refused
  <2>3. CASE Dropped(c)
    BY <1>0, <2>3, ReturnsIsTrue DEF Dropped
  <2> QED
    BY <1>0, <1>2, <2>1, <2>2, <2>3, FetchIsTrue, LandsIsTrue, StaleIsTrue DEF Step
<1>3. ASSUME NEW c \in Client, NEW i \in Intent[c], Begin(c, i) PROVE CallsAreFit' /\ AnswerIsTrue'
  BY <1>0, <1>3, BeginIsFit
<1>4. ASSUME NEW d \in Mobile, Ceremonies(d) PROVE CallsAreFit' /\ AnswerIsTrue'
  BY <1>0, <1>4, CeremoniesAreFit
<1>5. ASSUME UNCHANGED allVars PROVE CallsAreFit' /\ AnswerIsTrue'
  <2>1. /\ UNCHANGED <<members, locked, bundle, last_ckpt_k>>
        /\ UNCHANGED <<commits, call, onHead, request, departure, answer, held>>
    BY <1>5 DEF allVars, vars, clientVars
  <2>2. CallsAreFit'
    BY <1>0, <2>1 DEF CallsAreFit, MintersAreRecorded, Underway, CallShape, CallIsFit, Achieved
  <2>3. AnswerIsTrue'
    BY <2>1 DEF AnswersInv, AnswerIsTrue, OkMeansDone, SingleWinner, SkipsAnEpoch
  <2> QED
    BY <2>2, <2>3
<1>6. CallsAreFit' /\ AnswerIsTrue'
  BY <1>2, <1>3, <1>4, <1>5 DEF ClientNext
<1> QED
  BY <1>1, <1>6 DEF AnswersInv, AnswerIsTrue

LEMMA AnswersInvInit == ClientInit => AnswersInv
<1> SUFFICES ASSUME ClientInit PROVE AnswersInv
  OBVIOUS
<1>1. CallsAreFit
  <2>1. \A c \in Client : ~Underway(c)
    BY DEF ClientInit, Underway
  <2>2. MintersAreRecorded
    BY DEF ClientInit, MintersAreRecorded
  <2> QED
    BY <2>1, <2>2 DEF ClientInit, CallsAreFit
<1>2. OkMeansDone /\ SingleWinner
  BY DEF ClientInit, NoAnswer, OkMeansDone, SingleWinner
<1> QED
  BY <1>1, <1>2, InitFleetInv DEF AnswersInv

LEMMA AnswersInvariance == ClientSpec => []AnswersInv
BY AnswersInvInit, AnswersInvStep, PTL DEF ClientSpec

\* A call whose fetched chain is still the stored one has just passed the checks
\* it makes of it.
HeadsAreFresh == \A c \in onHead : ~Forbidden(c) /\ ~AlreadyDone(c) /\ ~OutOfTurn(c)

\* A consent stays good while capability only grows: the joiner's is made with
\* every scheme it holds, the leaver's with schemes it has declared.
ConsentsStand ==
  /\ \A d \in Device : departure[d] \subseteq declared_mask(bundle, d)
  /\ \A c \in Client : Underway(c) =>
       /\ call[c].kind = "bind" => call[c].consent = Capable[call[c].target]
       /\ call[c].kind = "remove" => call[c].consent \subseteq declared_mask(bundle, call[c].target)

RefusalInv == AnswersInv /\ HeadsAreFresh /\ ConsentsStand /\ RefusalsAreReal

\* What a member that can sign for the floor puts on an op passes the gate.
LEMMA SignerIsAdmitted ==
  ASSUME TypeOK, NEW d \in Device, CanSign(d)
  PROVE  /\ d \in members
         /\ Admitted(d, declared_mask(bundle, d) \cap Capable[d], declared_mask(bundle, d))
<1>1. Base # {} /\ Base \subseteq floor
  BY ChainAssumption DEF TypeOK, Mask
<1> QED
  BY <1>1 DEF CanSign, Admitted, verify_sigs, covers

\* A refused call has one of the reasons its caller has to know of.
LEMMA RefusedIsReal ==
  ASSUME RefusalInv, NEW c \in Client, Refused(c)
  PROVE  RefusalsAreReal'
<1> DEFINE i == call[c]
           me == Home[c]
           sigs == declared_mask(bundle, me) \cap Capable[me]
<1>1. /\ Underway(c) /\ c \in onHead /\ ~Folds(c) /\ Returns(c, "refused", 0, c)
      /\ TypeOK /\ IInv /\ CallShape(i) /\ CallIsFit(c)
      /\ ~Forbidden(c) /\ ~AlreadyDone(c) /\ ~OutOfTurn(c)
      /\ i.kind = "bind" => i.consent = Capable[i.target]
      /\ i.kind = "remove" => i.consent \subseteq declared_mask(bundle, i.target)
  BY DEF Refused, RefusalInv, AnswersInv, FleetInv, IInv, CallsAreFit, HeadsAreFresh, ConsentsStand
<1>2. /\ me \in Device /\ i.target \in Device /\ i.kind \in Kind
      /\ Base # {} /\ Base \subseteq floor /\ Base \subseteq Capable[i.target]
  BY <1>1, ChainAssumption, ClientAssumption DEF CallShape, TypeOK, Mask
<1> DEFINE Reason ==
      \/ i.kind = "depart"
      \/ i.kind # "declare" /\ ~CanSign(me)
      \/ i.kind = "declare" /\ (me \in locked \/ ~covers(Capable[me], floor))
      \/ i.kind = "bind" /\ (request[i.target] = "none" \/ ~covers(i.consent, floor))
      \/ i.kind = "remove" /\ (departure[i.target] = {} \/ ~covers(i.consent, floor))
      \/ i.kind \in {"remove", "lock"} /\ i.target = me
      \/ i.kind = "lock" /\ i.target \notin members
<1>3. Reason
  <2> SUFFICES ASSUME ~Reason PROVE Folds(c)
    BY <1>1
  <2>1. i.kind # "declare" => me \in members /\ Admitted(me, sigs, declared_mask(bundle, me))
    BY <1>1, <1>2, SignerIsAdmitted
  <2>2. CASE i.kind = "declare"
    <3>1. me \in members \ locked /\ covers(Capable[me], floor)
      BY <1>1, <2>2 DEF Forbidden
    <3>2. Admitted(me, Capable[me], Capable[me]) /\ ProvesItsBundle(me, Capable[me], Capable[me])
      BY <1>1, <3>1, StragglersAreTaken DEF StragglerCanCatchUp
    <3> QED
      BY <2>2, <3>1, <3>2 DEF Folds, DeclareFolds
  <2>3. CASE i.kind = "bind"
    <3>1. i.target \notin members /\ request[i.target] # "none"
      BY <1>1, <2>3 DEF AlreadyDone, Achieved
    <3>2. JoinsAtFloor(Capable[i.target], i.consent)
      BY <1>1, <1>2, <2>3 DEF JoinsAtFloor, verify_eggs, verify_sigs, covers
    <3> QED
      BY <2>1, <2>3, <3>1, <3>2 DEF Folds, AddFolds
  <2>4. CASE i.kind = "remove"
    <3>1. i.target \in members /\ i.target # me /\ departure[i.target] # {}
      BY <1>1, <2>4 DEF AlreadyDone, Achieved
    <3>2. verify_eggs(i.consent, declared_mask(bundle, i.target), floor)
      BY <1>1, <1>2, <2>4 DEF verify_eggs, verify_sigs, covers
    <3> QED
      BY <2>1, <2>4, <3>1, <3>2 DEF Folds, ConsentedRemoveFolds
  <2>5. CASE i.kind = "lock"
    <3>1. Lockable(me, i.target)
      BY <1>1, <2>5 DEF AlreadyDone, Achieved, Lockable
    <3> QED
      BY <2>1, <2>5, <3>1 DEF Folds, LockFolds
  <2>6. CASE i.kind = "unlock"
    <3>1. i.target \in locked
      BY <1>1, <2>6 DEF AlreadyDone, Achieved
    <3> QED
      BY <2>1, <2>6, <3>1 DEF Folds, UnlockFolds
  <2>7. CASE i.kind = "checkpoint"
    BY <1>1, <2>1, <2>7 DEF OutOfTurn, Folds, CheckpointFolds
  <2> QED
    BY <1>2, <2>2, <2>3, <2>4, <2>5, <2>6, <2>7 DEF Kind
<1>4. /\ answer'.client = c /\ answer'.intent = call[c]
      /\ UNCHANGED <<members, locked, bundle, floor, request, departure>>
  BY <1>1 DEF Returns, Answer, vars
<1> QED
  BY <1>3, <1>4 DEF RefusalsAreReal, CanSign

\* No other answer says "refused".
LEMMA OthersDoNotRefuse ==
  ASSUME AnswersInv, NEW c \in Client, Step(c), ~Refused(c)
  PROVE  RefusalsAreReal'
<1>1. ASSUME NEW result, NEW epoch, NEW by, NEW done, result # "refused",
             answer' = Answer(c, result, epoch, by, done)
      PROVE  RefusalsAreReal'
  BY <1>1 DEF Answer, RefusalsAreReal
<1>2. ASSUME answer' = NoAnswer PROVE RefusalsAreReal'
  BY <1>2 DEF NoAnswer, RefusalsAreReal
<1>3. ASSUME NEW result \in {"ok", "minter", "transport"}, Lands(c, result) PROVE RefusalsAreReal'
  BY <1>1, <1>3 DEF Lands
<1>4. ASSUME NEW result, NEW epoch, NEW by, result # "refused", Returns(c, result, epoch, by)
      PROVE  RefusalsAreReal'
  BY <1>1, <1>4 DEF Returns
<1>5. ASSUME NEW at, NEW left, Goes(c, at, left) PROVE RefusalsAreReal'
  BY <1>2, <1>5 DEF Goes
<1>6. CASE Fetch(c)
  BY <1>4, <1>5, <1>6 DEF Fetch, Adjudicates
<1>7. CASE Stale(c)
  BY <1>4, <1>5, <1>7 DEF Stale, Overtaken
<1>8. CASE Refetch(c) \/ Dropped(c)
  BY <1>4, <1>8 DEF Refetch, LostTheRace, Dropped
<1> QED
  BY <1>3, <1>6, <1>7, <1>8 DEF Step

\* The checks of a fetched chain hold until somebody lands an op, which
\* overtakes every fetched chain.
LEMMA HeadsStayFresh ==
  ASSUME AnswersInv, HeadsAreFresh, [ClientNext]_allVars
  PROVE  HeadsAreFresh'
<1>0. CallsAreFit
  BY DEF AnswersInv
<1>1. ASSUME UNCHANGED <<members, locked, bundle, last_ckpt_k, commits>>,
             \A x \in onHead' : x \in onHead /\ call'[x] = call[x]
      PROVE  HeadsAreFresh'
  BY <1>1 DEF HeadsAreFresh, Forbidden, AlreadyDone, OutOfTurn, Achieved
<1>2. ASSUME NEW c \in Client, NEW result, NEW epoch, NEW by, Returns(c, result, epoch, by)
      PROVE  HeadsAreFresh'
  <2>1. \A x \in onHead' : x \in onHead /\ call'[x] = call[x]
    BY <1>0, <1>2 DEF Returns, CallsAreFit
  <2> QED
    BY <1>1, <1>2, <2>1 DEF Returns, vars
<1>3. ASSUME NEW c \in Client, c \notin onHead, NEW at, NEW left, Goes(c, at, left), UNCHANGED onHead
      PROVE  HeadsAreFresh'
  <2>1. \A x \in onHead' : x \in onHead /\ call'[x] = call[x]
    BY <1>0, <1>3 DEF Goes, CallsAreFit
  <2> QED
    BY <1>1, <1>3, <2>1 DEF Goes, vars
<1>4. ASSUME NEW c \in Client, Fetch(c), Goes(c, "publish", call[c].left),
             onHead' = onHead \cup {c}, ~Forbidden(c), ~AlreadyDone(c), ~OutOfTurn(c)
      PROVE  HeadsAreFresh'
  <2>1. /\ UNCHANGED <<members, locked, bundle, last_ckpt_k, commits>>
        /\ call' = [call EXCEPT ![c].at = "publish", ![c].left = call[c].left]
    BY <1>4 DEF Goes, vars
  <2>2. CallShape(call[c]) /\ DOMAIN call = Client
    BY <1>0, <1>4 DEF Fetch, CallsAreFit
  <2>3. call'[c] = [call[c] EXCEPT !.at = "publish", !.left = call[c].left]
    BY <2>1, <2>2
  <2>4. /\ call'[c].kind = call[c].kind /\ call'[c].target = call[c].target
        /\ call'[c].k = call[c].k
    BY <2>2, <2>3 DEF CallShape
  <2>5. \A x \in onHead : x # c => call'[x] = call[x]
    BY <1>0, <2>1, <2>2 DEF CallsAreFit
  <2>6. ASSUME NEW x \in onHead' PROVE (~Forbidden(x) /\ ~AlreadyDone(x) /\ ~OutOfTurn(x))'
    <3>1. CASE x = c
      BY <1>4, <2>1, <2>4, <3>1 DEF Forbidden, AlreadyDone, OutOfTurn, Achieved
    <3>2. CASE x # c
      <4>1. x \in onHead /\ call'[x] = call[x]
        BY <1>4, <2>5, <2>6, <3>2
      <4> QED
        BY <2>1, <4>1 DEF HeadsAreFresh, Forbidden, AlreadyDone, OutOfTurn, Achieved
    <3> QED
      BY <3>1, <3>2
  <2> QED
    BY <2>6 DEF HeadsAreFresh
<1>5. ASSUME NEW c \in Client, NEW result, Lands(c, result) PROVE HeadsAreFresh'
  BY <1>5 DEF Lands, HeadsAreFresh
<1>6. ASSUME NEW c \in Client, Step(c) PROVE HeadsAreFresh'
  <2>1. CASE Fetch(c)
    BY <1>2, <1>4, <2>1 DEF Fetch, Adjudicates
  <2>2. CASE Stale(c)
    BY <1>2, <1>3, <2>2 DEF Stale, Overtaken
  <2>3. CASE Refetch(c) \/ Refused(c) \/ Dropped(c)
    BY <1>2, <2>3 DEF Refetch, LostTheRace, Refused, Dropped
  <2> QED
    BY <1>5, <1>6, <2>1, <2>2, <2>3 DEF Step
<1>7. ASSUME NEW c \in Client, NEW j \in Intent[c], Begin(c, j) PROVE HeadsAreFresh'
  <2>1. \A x \in onHead' : x \in onHead /\ call'[x] = call[x]
    BY <1>0, <1>7 DEF Begin, CallsAreFit, Underway
  <2> QED
    BY <1>1, <1>7, <2>1 DEF Begin, vars
<1>8. ASSUME NEW d \in Mobile, Ceremonies(d) PROVE HeadsAreFresh'
  BY <1>1, <1>8 DEF Ceremonies, AsksToJoin, Unlisted, JoinWindowCloses, AsksToLeave,
     LeaveWindowCloses, Ceremony, vars
<1>9. CASE UNCHANGED allVars
  BY <1>1, <1>9 DEF allVars, vars, clientVars
<1> QED
  BY <1>6, <1>7, <1>8, <1>9 DEF ClientNext

\* Consents outlast every step: the keys a device holds do not change, and
\* what the chain holds of its schemes only grows, also when it leaves and is
\* added again.
LEMMA CapabilityGrows ==
  ASSUME FleetInv, [ClientNext]_allVars
  PROVE  \A d \in Device : declared_mask(bundle, d) \subseteq declared_mask(bundle', d)
<1>1. [Next]_vars /\ IInv
  BY StepsAreOps DEF FleetInv
<1>2. CASE Next
  <2>1. \A d \in Device : covers(bundle'[d], bundle[d])
    BY <1>1, <1>2, BundlesGrow
  <2>2. \A d \in Device : bundle'[d] = {} \/ Base \subseteq bundle'[d]
    BY <1>1, NextIInv DEF IInv, TypeOK, Mask
  <2> QED
    BY <2>1, <2>2 DEF covers, declared_mask
<1>3. CASE UNCHANGED vars
  BY <1>3 DEF vars
<1> QED
  BY <1>1, <1>2, <1>3

LEMMA ConsentsStayGood ==
  ASSUME AnswersInv, ConsentsStand, [ClientNext]_allVars
  PROVE  ConsentsStand'
<1>0. FleetInv /\ CallsAreFit /\ TypeOK /\ DOMAIN departure = Device /\ DOMAIN call = Client
  BY DEF AnswersInv, FleetInv, IInv, CallsAreFit, CallsAreFormed
<1>1. \A d \in Device : declared_mask(bundle, d) \subseteq declared_mask(bundle', d)
  BY <1>0, CapabilityGrows
<1>2. ASSUME UNCHANGED departure,
             \A x \in Client : Underway(x)' =>
               /\ Underway(x)
               /\ call'[x].kind = call[x].kind
               /\ call'[x].target = call[x].target
               /\ call'[x].consent = call[x].consent
      PROVE  ConsentsStand'
  <2>1. \A d \in Device : departure'[d] \subseteq declared_mask(bundle', d)
    BY <1>1, <1>2 DEF ConsentsStand
  <2>2. ASSUME NEW x \in Client, Underway(x)'
        PROVE  /\ call'[x].kind = "bind" => call'[x].consent = Capable[call'[x].target]
               /\ call'[x].kind = "remove" =>
                    call'[x].consent \subseteq declared_mask(bundle', call'[x].target)
    <3>1. Underway(x) /\ CallShape(call[x])
      BY <1>0, <1>2, <2>2 DEF CallsAreFit
    <3>2. call[x].target \in Device
      BY <3>1 DEF CallShape
    <3> QED
      BY <1>1, <1>2, <2>2, <3>1, <3>2 DEF ConsentsStand
  <2> QED
    BY <2>1, <2>2 DEF ConsentsStand
<1>3. ASSUME NEW c \in Client, Step(c) PROVE ConsentsStand'
  <2>1. UNCHANGED departure
    BY <1>3 DEF Step, Fetch, Lands, Stale, Overtaken, Refetch, LostTheRace, Refused, Dropped,
       Goes, Adjudicates, Returns
  <2>2. CASE call' = [call EXCEPT ![c] = NoCall]
    BY <1>0, <1>2, <2>1, <2>2 DEF Underway
  <2>3. ASSUME NEW at, NEW left, Underway(c), Goes(c, at, left) PROVE ConsentsStand'
    <3>1. CallShape(call[c]) /\ call' = [call EXCEPT ![c].at = at, ![c].left = left]
      BY <1>0, <2>3 DEF CallsAreFit, Goes
    <3>2. call'[c] = [call[c] EXCEPT !.at = at, !.left = left]
      BY <1>0, <3>1
    <3>3. /\ call'[c].kind = call[c].kind /\ call'[c].target = call[c].target
          /\ call'[c].consent = call[c].consent
      BY <3>1, <3>2 DEF CallShape
    <3>4. \A x \in Client : x # c => call'[x] = call[x]
      BY <1>0, <3>1
    <3> QED
      BY <1>2, <2>1, <2>3, <3>3, <3>4 DEF Underway
  <2> QED
    BY <1>3, <2>2, <2>3 DEF Step, Fetch, Lands, Stale, Overtaken, Refetch, LostTheRace, Refused,
       Dropped, Adjudicates, Returns
<1>4. ASSUME NEW c \in Client, NEW j \in Intent[c], Begin(c, j) PROVE ConsentsStand'
  <2>1. /\ UNCHANGED <<departure, bundle>>
        /\ call' = [call EXCEPT ![c] =
                      [kind |-> j.kind, target |-> j.target, k |-> j.k, consent |-> Carried(j),
                       left |-> Attempts, at |-> "fetch"]]
    BY <1>4 DEF Begin, vars
  <2>2. j.target \in Device
    BY ClientAssumption
  <2>3. /\ call'[c].kind = j.kind /\ call'[c].target = j.target
        /\ call'[c].consent = Carried(j)
    BY <1>0, <2>1
  <2>4. \A x \in Client : x # c => call'[x] = call[x]
    BY <1>0, <2>1
  <2>5. j.kind = "bind" => Carried(j) = Capable[j.target]
    BY DEF Carried
  <2>6. j.kind = "remove" => Carried(j) = departure[j.target]
    BY DEF Carried
  <2>7. departure[j.target] \subseteq declared_mask(bundle, j.target)
    BY <2>2 DEF ConsentsStand
  <2> QED
    BY <2>1, <2>3, <2>4, <2>5, <2>6, <2>7 DEF ConsentsStand, Underway
<1>5. ASSUME NEW d \in Mobile, Ceremonies(d) PROVE ConsentsStand'
  <2>1. PICK req, dep : /\ Ceremony(d, req, dep)
                        /\ \/ dep = departure[d]
                           \/ dep = declared_mask(bundle, d) \cap Capable[d]
                           \/ dep = {}
    BY <1>5 DEF Ceremonies, AsksToJoin, Unlisted, JoinWindowCloses, AsksToLeave, LeaveWindowCloses
  <2>2. UNCHANGED <<bundle, call>> /\ departure' = [departure EXCEPT ![d] = dep] /\ d \in Device
    BY <2>1, ClientAssumption DEF Ceremony, vars
  <2>3. dep \subseteq declared_mask(bundle, d)
    BY <2>1, <2>2 DEF ConsentsStand
  <2>4. \A x \in Device : departure'[x] \subseteq declared_mask(bundle', x)
    BY <1>0, <2>2, <2>3 DEF ConsentsStand
  <2> QED
    BY <2>2, <2>4 DEF ConsentsStand, Underway
<1>6. CASE UNCHANGED allVars
  BY <1>6 DEF allVars, vars, clientVars, ConsentsStand, Underway
<1> QED
  BY <1>3, <1>4, <1>5, <1>6 DEF ClientNext

LEMMA RefusalInvInit == ClientInit => RefusalInv
<1> SUFFICES ASSUME ClientInit PROVE RefusalInv
  OBVIOUS
<1>1. HeadsAreFresh /\ ConsentsStand
  BY DEF ClientInit, HeadsAreFresh, ConsentsStand, Underway
<1>2. RefusalsAreReal
  BY DEF ClientInit, NoAnswer, RefusalsAreReal
<1> QED
  BY <1>1, <1>2, AnswersInvInit DEF RefusalInv

LEMMA RefusalInvStep == RefusalInv /\ [ClientNext]_allVars => RefusalInv'
<1> SUFFICES ASSUME RefusalInv, [ClientNext]_allVars PROVE RefusalInv'
  OBVIOUS
<1>0. AnswersInv /\ HeadsAreFresh /\ ConsentsStand
  BY DEF RefusalInv
<1>1. AnswersInv'
  BY <1>0, AnswersInvStep
<1>2. HeadsAreFresh' /\ ConsentsStand'
  BY <1>0, HeadsStayFresh, ConsentsStayGood
<1>3. ASSUME NEW c \in Client, Step(c) PROVE RefusalsAreReal'
  BY <1>0, <1>3, RefusedIsReal, OthersDoNotRefuse
<1>4. ASSUME answer' = NoAnswer PROVE RefusalsAreReal'
  BY <1>4 DEF NoAnswer, RefusalsAreReal
<1>5. ASSUME NEW c \in Client, NEW j \in Intent[c], Begin(c, j) PROVE RefusalsAreReal'
  BY <1>4, <1>5 DEF Begin
<1>6. ASSUME NEW d \in Mobile, Ceremonies(d) PROVE RefusalsAreReal'
  BY <1>4, <1>6 DEF Ceremonies, AsksToJoin, Unlisted, JoinWindowCloses, AsksToLeave,
     LeaveWindowCloses, Ceremony
<1>7. ASSUME UNCHANGED allVars PROVE RefusalsAreReal'
  <2>1. UNCHANGED <<members, locked, bundle, floor, request, departure, answer>>
    BY <1>7 DEF allVars, vars, clientVars
  <2> QED
    BY <2>1 DEF RefusalInv, RefusalsAreReal, CanSign
<1>8. RefusalsAreReal'
  BY <1>3, <1>5, <1>6, <1>7 DEF ClientNext
<1> QED
  BY <1>1, <1>2, <1>8 DEF RefusalInv

\* A call is refused for what its caller has to know of: it holds no
\* authority, its consent is void or short of the floor, or the target makes no
\* sense.  A call that merely lost a race is never refused.
THEOREM RefusalsHaveReasons == ClientSpec => []RefusalsAreReal
<1>1. RefusalInv => RefusalsAreReal
  BY DEF RefusalInv
<1> QED
  BY <1>1, RefusalInvInit, RefusalInvStep, PTL DEF ClientSpec

\* An Ok is the truth: at some moment of the call the chain was as the caller
\* asked, by its own op or by someone else's, however many posts were overtaken
\* or lost.
THEOREM AnOkIsTheTruth == ClientSpec => []OkMeansDone
<1>1. AnswersInv => OkMeansDone
  BY DEF AnswersInv
<1> QED
  BY <1>1, AnswersInvariance, PTL

\* Every epoch has a single winner, and every caller that does not skip an epoch
\* is told who that is, however many pushes race and posts are lost.
THEOREM OneMinterAnEpoch == ClientSpec => []SingleWinner
<1>1. AnswersInv => SingleWinner
  BY DEF AnswersInv
<1> QED
  BY <1>1, AnswersInvariance, PTL

\* Every variable of the clients has its type, and the chain records a minter
\* for each of its epochs.
THEOREM ClientTypes == ClientSpec => []ClientTypeOK
<1>1. AnswersInv => ClientTypeOK
  BY DEF AnswersInv, FleetInv, IInv, CallsAreFit, MintersAreRecorded, CallShape, Phase, ClientTypeOK
<1> QED
  BY <1>1, AnswersInvariance, PTL
=============================================================================

------------------------------ MODULE FleetChain ------------------------------
(***************************************************************************)
(* The membership chain of one fleet (src/fleet.rs) as the state that      *)
(* MembershipBlob::fold_inner computes.  A chain folds exactly when every  *)
(* op of it folds on what the ops before it left, so a chain is a          *)
(* behaviour of this module: one action per OpKind, whose guard is the     *)
(* list of checks the walk makes before it applies the op.                 *)
(*                                                                         *)
(* Abstractions.  A hash link (prev_hash = expected_prev) is the order of  *)
(* the steps.  An egg is the scheme it was made under; a device makes eggs *)
(* only under schemes it holds the keys of (Capable), and a bundle is the  *)
(* set of schemes it lists a key for, since a device derives its keys from *)
(* its hardware and has one per scheme.  The stamps of an op are left out: *)
(* the fold checks them (0 <= eagle_time < OP_TIME_MAX_OSC, and a consent  *)
(* within CONSENT_WINDOW_OSC of it) but keeps none of them, so an action   *)
(* stands for the op under any admissible stamp.  Plates are recorded by   *)
(* the fold and read by no rule of it, and are left out too.               *)
(*                                                                         *)
(* An operator named Bug_X is a plausible mistake in X, kept to show that  *)
(* the properties notice it; the specification uses none of them.          *)
(***************************************************************************)
EXTENDS Integers, FiniteSets

CONSTANTS
  Device,         \* device public keys
  Scheme,         \* MASK_ALL, the signature schemes this build knows
  Base,           \* MASK_BASE, what every device can sign with
  Capable,        \* the schemes each device holds secret keys of
  MaxCheckpoint   \* bound: the largest checkpoint index k explored

ASSUME ChainAssumption ==
  /\ Base \subseteq Scheme
  /\ Base # {}
  /\ Capable \in [Device -> SUBSET Scheme]
  /\ \A d \in Device : Base \subseteq Capable[d]
  /\ MaxCheckpoint \in Nat

VARIABLES
  founded,      \* the chain holds its genesis
  members,      \* FoldState.members
  locked,       \* FoldState.locked
  bundle,       \* FoldState.bundles: the FIRST entry of each device, the one
                \* every `find` returns; {} when it has none
  floor,        \* FoldState.floor
  last_ckpt_k,  \* index of the last Checkpoint, 0 before any
  (* history, read by properties only *)
  behind,       \* devices unlocked or departed since their last Declare
  bare          \* the chain holds a departure without consent

vars == <<founded, members, locked, bundle, floor, last_ckpt_k, behind, bare>>

Mask == {m \in SUBSET Scheme : Base \subseteq m}

-----------------------------------------------------------------------------
(* Masks, bundles and eggs. *)

covers(mask, required) == required \subseteq mask

\* What the chain knows `d` can sign with: its entry, or Ed25519 alone.
declared_mask(bundles, d) == IF bundles[d] = {} THEN Base ELSE bundles[d]

\* Eggs verify when there is one at least and each has a key to verify under.
verify_sigs(sigs, keys) == sigs # {} /\ sigs \subseteq keys

\* The same strict rule for a consent, which must also cover what is required.
verify_eggs(eggs, keys, required) ==
  verify_sigs(eggs, keys) /\ covers(eggs, required)

\* The gate every op passes, whatever its kind: the signer is not locked out,
\* the eggs cover the floor as it was before the op, and they verify.
Admitted(s, sigs, keys) ==
  /\ s \notin locked
  /\ covers(sigs, floor)
  /\ verify_sigs(sigs, keys)

\* What every live (unlocked) member has declared; all schemes when none is.
LiveMask(ms, lk, bundles) ==
  {x \in Scheme : \A d \in ms \ lk : x \in declared_mask(bundles, d)}

\* The floor is recomputed after every op and only ever gains schemes.
Bug_RatchetWaitsOnLocked == floor' = floor \cup LiveMask(members', {}, bundle')
Ratchet == floor' = floor \cup LiveMask(members', locked', bundle')

\* An Add appends its bundle after any entry the device left behind when it
\* was a member before, and `find` returns the earlier one.
PushBundle(d, b) ==
  IF bundle[d] = {} THEN [bundle EXCEPT ![d] = b] ELSE bundle

-----------------------------------------------------------------------------
(* The ops: s signs, d is the op's device, sigs are the eggs on the op.  What  *)
(* the fold demands of each is a predicate of its own, XFolds; the op itself   *)
(* adds what the fold does with it.                                            *)

Genesis(d, sigs) ==
  /\ ~founded
  /\ Admitted(d, sigs, declared_mask(bundle, d))
  /\ founded' = TRUE
  /\ members' = {d}
  /\ UNCHANGED <<locked, bundle, last_ckpt_k, behind, bare>>
  /\ Ratchet

\* The eggs of a Declare prove every scheme its bundle names, and a device
\* never drops a scheme it declared before.
Bug_DeclaresOnPaper(d, b, sigs) == covers(b, bundle[d])
Bug_MayRenounce(d, b, sigs) == covers(sigs, b)
ProvesItsBundle(d, b, sigs) ==
  /\ covers(sigs, b)
  /\ covers(b, bundle[d])

DeclareFolds(d, b, sigs) ==
  /\ Admitted(d, sigs, b)
  /\ d \in members
  /\ ProvesItsBundle(d, b, sigs)

Declare(d, b, sigs) ==
  /\ DeclareFolds(d, b, sigs)
  /\ bundle' = [bundle EXCEPT ![d] = b]
  /\ behind' = behind \ {d}
  /\ UNCHANGED <<founded, members, locked, last_ckpt_k, bare>>
  /\ Ratchet

\* The ratchet at the door: the joiner is at the floor, and its consent
\* proves every key of the bundle it is added with.
Bug_JoinsBelowFloor(b, consent) == verify_eggs(consent, b, b)
JoinsAtFloor(b, consent) ==
  /\ covers(b, floor)
  /\ verify_eggs(consent, b, b \cup floor)

AddFolds(s, d, b, sigs, consent) ==
  /\ Admitted(s, sigs, declared_mask(bundle, s))
  /\ s \in members
  /\ d \notin members
  /\ JoinsAtFloor(b, consent)

Add(s, d, b, sigs, consent) ==
  /\ AddFolds(s, d, b, sigs, consent)
  /\ members' = members \cup {d}
  /\ bundle' = PushBundle(d, b)
  /\ UNCHANGED <<founded, locked, last_ckpt_k, behind, bare>>
  /\ Ratchet

\* What a removal leaves of a device: neither membership nor lock.
Bug_DropKeepsLock(d) == members' = members \ {d} /\ locked' = locked
Drop(d) ==
  /\ members' = members \ {d}
  /\ locked' = locked \ {d}

\* A departure the leaver asked for and another member countersigned.
ConsentedRemoveFolds(s, d, sigs, consent) ==
  /\ Admitted(s, sigs, declared_mask(bundle, s))
  /\ s \in members
  /\ s # d
  /\ verify_eggs(consent, declared_mask(bundle, d), floor)
  /\ d \in members

ConsentedRemove(s, d, sigs, consent) ==
  /\ ConsentedRemoveFolds(s, d, sigs, consent)
  /\ Drop(d)
  /\ behind' = behind \cup {d}
  /\ UNCHANGED <<founded, bundle, last_ckpt_k, bare>>
  /\ Ratchet

\* A departure from before consents: the leaver signs alone.
BareRemoveFolds(d, sigs) ==
  /\ Admitted(d, sigs, declared_mask(bundle, d))
  /\ d \in members

BareRemove(d, sigs) ==
  /\ BareRemoveFolds(d, sigs)
  /\ Drop(d)
  /\ behind' = behind \cup {d}
  /\ bare' = TRUE
  /\ UNCHANGED <<founded, bundle, last_ckpt_k>>
  /\ Ratchet

\* Nobody locks itself out, nor a device that is locked already.
Bug_LocksAnyone(s, d) == d \in members \ locked
Lockable(s, d) == d \in members \ locked /\ d # s

LockFolds(s, d, sigs) ==
  /\ Admitted(s, sigs, declared_mask(bundle, s))
  /\ s \in members
  /\ Lockable(s, d)

Lock(s, d, sigs) ==
  /\ LockFolds(s, d, sigs)
  /\ locked' = locked \cup {d}
  /\ UNCHANGED <<founded, members, bundle, last_ckpt_k, behind, bare>>
  /\ Ratchet

UnlockFolds(s, d, sigs) ==
  /\ Admitted(s, sigs, declared_mask(bundle, s))
  /\ s \in members
  /\ d \in locked

Unlock(s, d, sigs) ==
  /\ UnlockFolds(s, d, sigs)
  /\ locked' = locked \ {d}
  /\ behind' = behind \cup {d}
  /\ UNCHANGED <<founded, members, bundle, last_ckpt_k, bare>>
  /\ Ratchet

CheckpointFolds(s, k, sigs) ==
  /\ Admitted(s, sigs, declared_mask(bundle, s))
  /\ s \in members
  /\ k = last_ckpt_k + 1

Checkpoint(s, k, sigs) ==
  /\ CheckpointFolds(s, k, sigs)
  /\ last_ckpt_k' = k
  /\ UNCHANGED <<founded, members, locked, bundle, behind, bare>>
  /\ Ratchet

-----------------------------------------------------------------------------
Init ==
  /\ founded = FALSE
  /\ members = {}
  /\ locked = {}
  /\ bundle = [d \in Device |-> {}]
  /\ floor = Base
  /\ last_ckpt_k = 0
  /\ behind = {}
  /\ bare = FALSE

\* Whatever s can put its name to with these eggs.
Op(s, sigs) ==
  \/ Genesis(s, sigs)
  \/ \E b \in Mask : Declare(s, b, sigs)
  \/ \E d \in Device, b \in Mask : \E consent \in SUBSET Capable[d] :
       Add(s, d, b, sigs, consent)
  \/ \E d \in Device : \E consent \in SUBSET Capable[d] :
       ConsentedRemove(s, d, sigs, consent)
  \/ BareRemove(s, sigs)
  \/ \E d \in Device : Lock(s, d, sigs)
  \/ \E d \in Device : Unlock(s, d, sigs)
  \/ \E k \in 1..MaxCheckpoint : Checkpoint(s, k, sigs)

\* An egg cannot be made without the key, so eggs range over Capable.
Next == \E s \in Device : \E sigs \in SUBSET Capable[s] : Op(s, sigs)

Spec == Init /\ [][Next]_vars

\* A device declares everything it holds and keeps at it: the client's
\* declare_device is idempotent and retries on a moved chain.
DeclareAll(d) == Declare(d, Capable[d], Capable[d])

FairSpec == Spec /\ \A d \in Device : WF_vars(DeclareAll(d))

-----------------------------------------------------------------------------
(* Properties. *)

\* Every variable has its type, a locked-out device is a member still
\* ("still members"; a Remove takes the lock with it), the floor holds
\* Ed25519, and before genesis there is nobody.
TypeOK ==
  /\ founded \in BOOLEAN
  /\ members \subseteq Device
  /\ locked \subseteq members
  /\ bundle \in [Device -> {{}} \cup Mask]
  /\ floor \in Mask
  /\ last_ckpt_k \in 0..MaxCheckpoint
  /\ behind \subseteq Device
  /\ bare \in BOOLEAN
  /\ ~founded => members = {}

\* What device `d` can put on an op so that the fold takes it: eggs under
\* schemes it holds, that verify, and that cover the floor.
CanSign(d) ==
  /\ d \in members \ locked
  /\ covers(declared_mask(bundle, d) \cap Capable[d], floor)

\* A fleet is never bricked: whatever was locked, removed or promoted, some
\* live member can sign the next op.  A chain that holds a departure without
\* consent is excluded: the last live member could leave, and then the floor,
\* an AND over nobody, rises to every scheme.
SomeoneCanSign == founded /\ ~bare => \E d \in Device : CanSign(d)

\* Promotion strands nobody that stayed: a live member can sign the next op,
\* unless it was unlocked, or came back, and has not declared since ("the
\* device then has to declare up to it before its next op folds").
SteadyMembersCanSign ==
  \A d \in (members \ locked) \ behind : CanSign(d)

\* A live member whose keys reach the floor gets back by declaring them all:
\* nothing recorded about it earlier can make the fold refuse that Declare.
StragglerCanCatchUp ==
  \A d \in members \ locked :
    covers(Capable[d], floor) =>
      /\ Admitted(d, Capable[d], Capable[d])
      /\ ProvesItsBundle(d, Capable[d], Capable[d])

\* A device never renounces a scheme, not even by leaving and coming back.
CapabilityNeverFalls == [][\A d \in Device : covers(bundle'[d], bundle[d])]_vars

\* "This is the automatic promotion: when the LAST member declares a scheme
\* ... the whole fleet is at the higher floor with nothing published": once
\* every live member holds scheme x (and the keys of the floor, so that it can
\* sign) and devices no longer come and go, declaring is all it takes, and a
\* locked-out device that never declares does not hold the others back.
AllReach(x) ==
  founded /\ \A d \in members \ locked : covers(Capable[d], floor \cup {x})

PromotionCompletes ==
  \A x \in Scheme :
    <>[]AllReach(x) /\ <>[][UNCHANGED <<members, locked>>]_vars => <>(x \in floor)

\* A device the chain knows below the floor is never let in: "A device joining
\* below the fleet's established floor would lower it, so it is refused
\* outright rather than admitted and tolerated."
JoinersAreAtTheFloor ==
  [][founded => \A d \in members' \ members :
       covers(declared_mask(bundle', d), floor)]_vars
===============================================================================

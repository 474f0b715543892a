------------------------------ MODULE FleetKey ------------------------------
(***************************************************************************)
(* The fleet key and the fan-out that delivers it (src/client.rs,          *)
(* src/fanout.rs): one key, sealed to each member, in a slot that any      *)
(* member may overwrite with a higher revision.  A device mints a key when *)
(* the fleet shrank, grows the fan-out under the same key when somebody    *)
(* has no wrap, and otherwise recovers the key, or establishes one where   *)
(* there is none.                                                          *)
(*                                                                         *)
(* Abstractions.  A fresh key is named by its minter and the revision it   *)
(* was minted for; its fingerprint and its epoch bundle are the key.  A    *)
(* wrap is the device that can open it.  A fan-out of an older format has  *)
(* a revision that can be read and a body that cannot.  The slot and the   *)
(* chain are the worker's, and when a device mints or grows is up to its   *)
(* application: modelled here as the two triggers of fanout.rs suggest.    *)
(***************************************************************************)
EXTENDS Integers, FiniteSets

CONSTANTS
  Device,        \* device public keys
  Enrolled,      \* members at the start
  Joiner,        \* devices that may join
  Leaver,        \* devices that may leave
  Lockable,      \* devices that may be locked and unlocked
  Caller,        \* devices whose application is running
  MaxRevision    \* bound: the highest revision published

ASSUME KeyAssumption ==
  /\ Enrolled \subseteq Device /\ Enrolled # {}
  /\ Joiner \subseteq Device /\ Leaver \subseteq Device /\ Lockable \subseteq Device
  /\ Caller \subseteq Device
  /\ MaxRevision \in Nat \ {0}

VARIABLES
  members, locked,   \* what the stored chain folds to
  fanout,            \* the stored fan-out
  held,              \* the key each device's application holds
  call,              \* the call each device is in
  (* history, read by properties only *)
  published,         \* the key of each revision
  answer             \* the key the last step returned to a caller

keyVars == <<members, locked, fanout, held, call, published, answer>>

NoKey == [minter |-> "nobody", revision |-> 0]
Keys == [minter : Device, revision : 1..MaxRevision]

Absent == [revision |-> 0, readable |-> FALSE, key |-> NoKey, wraps |-> {}]
OldFormat == [Absent EXCEPT !.revision = 1]

NoCall == [kind |-> "none", at |-> "none", sealTo |-> {}, revision |-> 0, key |-> NoKey]
NoAnswer == [key |-> NoKey, revision |-> 0]

\* The desired set: "fold minus locked".
Live == members \ locked

-----------------------------------------------------------------------------
(* The two triggers compare counts. *)

fanout_needs_rotation(wraps, ms) ==
  Cardinality(ms) > 0 /\ Cardinality(wraps) > Cardinality(ms)

fanout_needs_grow(wraps, ms) == Cardinality(wraps) < Cardinality(ms)

\* A device opens the fan-out when one of the wraps is its own.
fanout_open(d) == IF d \in fanout.wraps THEN fanout.key ELSE NoKey

\* "any member may publish", and the revision moves forward only.
Newer(new, old) == new > old
Admits(d, revision) == d \in members /\ Newer(revision, fanout.revision)

-----------------------------------------------------------------------------
(* Steps of a call. *)

Begin(d, kind, sealTo, key) ==
  /\ call[d] = NoCall
  /\ call' = [call EXCEPT ![d] =
       [kind |-> kind, at |-> IF kind = "sync" THEN "look" ELSE "read",
        sealTo |-> sealTo, revision |-> 0, key |-> key]]
  /\ answer' = NoAnswer
  /\ UNCHANGED <<members, locked, fanout, held, published>>

\* The fleet shrank: a live device mints for the members it sees.
BeginMint(d) ==
  d \in Live /\ fanout_needs_rotation(fanout.wraps, Live) /\ Begin(d, "mint", Live, NoKey)

\* A sponsor's confirm, or a missing wrap: a device that holds a key grows,
\* unless a mint is due.
BeginGrow(d) ==
  /\ d \in Live /\ held[d] # NoKey
  /\ ~fanout_needs_rotation(fanout.wraps, Live)
  /\ Begin(d, "grow", Live, held[d])

BeginSync(d) == d \in members /\ Begin(d, "sync", {}, NoKey)

Goes(d, c) ==
  /\ call' = [call EXCEPT ![d] = c]
  /\ answer' = NoAnswer
  /\ UNCHANGED <<members, locked, fanout, held, published>>

\* The call ends with a key, or (NoKey) with none or an error.
Answers(d, key, revision) ==
  /\ call' = [call EXCEPT ![d] = NoCall]
  /\ held' = IF key = NoKey THEN held ELSE [held EXCEPT ![d] = key]
  /\ answer' = [key |-> key, revision |-> revision]
  /\ UNCHANGED <<members, locked>>

Recovers(d) ==
  /\ Answers(d, fanout_open(d), IF d \in fanout.wraps THEN fanout.revision ELSE 0)
  /\ UNCHANGED <<fanout, published>>

Fails(d) == Answers(d, NoKey, 0) /\ UNCHANGED <<fanout, published>>

\* recover_or_establish_fleet_key, its first fetch.  No fan-out, one that does
\* not parse and a post that fails all lead to the establish.
Look(d) ==
  /\ call[d].at = "look"
  /\ \/ fanout.readable /\ Recovers(d)
     \/ Goes(d, [call[d] EXCEPT !.at = "fold"])

\* current_members: the fold, locked devices included.
Fold(d) ==
  /\ call[d].at = "fold"
  /\ Goes(d, [call[d] EXCEPT !.at = "read", !.sealTo = members])

\* mint_fleet_key reads the stored revision, 0 where there is none or the
\* fetch fails, and makes a fresh key.
ReadsRevision(d) ==
  /\ call[d].at = "read" /\ call[d].kind # "grow"
  /\ \E current \in {0, fanout.revision} :
       Goes(d, [call[d] EXCEPT !.at = "post", !.revision = current + 1,
                               !.key = [minter |-> d, revision |-> current + 1]])

\* grow_fleet_wraps: only a key that is the published one is sealed again.
Bug_GrowsAnyKey(d) == fanout.readable
HoldsThePublished(d) == fanout.readable /\ call[d].key = fanout.key

ReadsFanout(d) ==
  /\ call[d].at = "read" /\ call[d].kind = "grow"
  /\ \/ /\ HoldsThePublished(d)
        /\ Goes(d, [call[d] EXCEPT !.at = "post", !.revision = fanout.revision + 1])
     \/ ~HoldsThePublished(d) /\ Fails(d)

\* post_fanout lands; the reply reaches the caller, or is lost.
Bug_KeepsItsOwn(d) ==
  Answers(d, call[d].key, call[d].revision) /\ UNCHANGED <<fanout, published>>
Unanswered(d) ==
  \/ call[d].kind = "sync" /\ Goes(d, [call[d] EXCEPT !.at = "recover"])
  \/ call[d].kind # "sync" /\ Fails(d)

Stores(d) ==
  LET c == call[d]
  IN  /\ fanout' = [revision |-> c.revision, readable |-> TRUE, key |-> c.key, wraps |-> c.sealTo]
      /\ published' = [published EXCEPT ![c.revision] = c.key]

Lands(d) ==
  /\ call[d].at = "post"
  /\ Admits(d, call[d].revision) /\ call[d].revision <= MaxRevision
  /\ Stores(d)
  /\ \/ Answers(d, call[d].key, call[d].revision)
     \/ /\ call[d].kind = "sync"
        /\ call' = [call EXCEPT ![d].at = "recover"]
        /\ answer' = NoAnswer
        /\ UNCHANGED <<members, locked, held>>
     \/ call[d].kind # "sync" /\ Answers(d, NoKey, 0)

\* The post is refused as stale, or does not get there.
Bounces(d) == call[d].at = "post" /\ Unanswered(d)

\* The establish lost a race: recover what the winner published.
Recover(d) ==
  /\ call[d].at = "recover"
  /\ \/ fanout.readable /\ Recovers(d)
     \/ Fails(d)

\* A fetch that fails ends the call, but for the three that are forgiven above.
Errs(d) ==
  /\ call[d].at = "fold" \/ (call[d].at = "read" /\ call[d].kind = "grow")
  /\ Fails(d)

-----------------------------------------------------------------------------
(* The chain moves on: somebody joins, leaves, is locked or unlocked. *)

Becomes(ms, lk) ==
  /\ members' = ms
  /\ locked' = lk
  /\ answer' = NoAnswer
  /\ UNCHANGED <<fanout, held, call, published>>

Joins(d) == d \notin members /\ Becomes(members \cup {d}, locked)

\* A departure is countersigned by another live member.
Leaves(d) ==
  d \in members /\ Live \ {d} # {} /\ Becomes(members \ {d}, locked \ {d})

GetsLocked(d) ==
  d \in Live /\ Live # {d} /\ Becomes(members, locked \cup {d})

GetsUnlocked(d) == d \in locked /\ Live # {} /\ Becomes(members, locked \ {d})

-----------------------------------------------------------------------------
KeyInit ==
  /\ members = Enrolled
  /\ locked = {}
  /\ fanout \in {Absent, OldFormat}
  /\ held = [d \in Device |-> NoKey]
  /\ call = [d \in Device |-> NoCall]
  /\ published = [r \in 1..MaxRevision |-> NoKey]
  /\ answer = NoAnswer

KeyNext ==
  \/ \E d \in Caller :
       \/ BeginMint(d)
       \/ BeginGrow(d)
       \/ BeginSync(d)
       \/ Look(d)
       \/ Fold(d)
       \/ ReadsRevision(d)
       \/ ReadsFanout(d)
       \/ Lands(d)
       \/ Bounces(d)
       \/ Recover(d)
       \/ Errs(d)
  \/ \E d \in Joiner : Joins(d)
  \/ \E d \in Leaver : Leaves(d)
  \/ \E d \in Lockable : GetsLocked(d) \/ GetsUnlocked(d)

KeySpec == KeyInit /\ [][KeyNext]_keyVars

-----------------------------------------------------------------------------
(* Properties. *)

\* Every variable has its type, and the fan-out is what was published last.
KeyTypeOK ==
  /\ members \subseteq Device /\ locked \subseteq members
  /\ fanout \in [revision : 0..MaxRevision, readable : BOOLEAN,
                 key : Keys \cup {NoKey}, wraps : SUBSET Device]
  /\ fanout.readable => fanout.wraps # {} /\ published[fanout.revision] = fanout.key
  /\ held \in [Device -> Keys \cup {NoKey}]
  /\ \A d \in Device : call[d].revision \in 0..MaxRevision+1
  /\ published \in [1..MaxRevision -> Keys \cup {NoKey}]

\* A key that was rotated out never comes back, however a grow by a device
\* that still holds it interleaves with the mint: "grow refused (mint owns
\* key changes)".
OldKeysStayDead ==
  [][fanout'.key # fanout.key => fanout'.key.revision = fanout'.revision]_keyVars

\* A revision names one key: every caller that is given a key, minted, grown
\* or recovered, is given the one published at the revision it is told.
RevisionNamesOneKey ==
  [][/\ answer'.key # NoKey => published'[answer'.revision] = answer'.key
     /\ \A r \in 1..MaxRevision : published[r] # NoKey => published'[r] = published[r]]_keyVars

\* "Handles the establish race: if another device published first, recover
\* theirs instead": an establish never replaces a fan-out that can be read.
EstablishNeverReplaces ==
  [][\A d \in Device :
       call[d].kind = "sync" /\ call'[d] # call[d] /\ fanout' # fanout
         => ~fanout.readable]_keyVars
=============================================================================

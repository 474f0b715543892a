---------------------------- MODULE FleetKeyProofs ----------------------------
(***************************************************************************)
(* The theorems of FleetKey, for any devices, callers and number of        *)
(* revisions: a revision names one key, and a key that was rotated out     *)
(* never comes back.                                                       *)
(***************************************************************************)
EXTENDS FleetKey, TLAPS

\* A key a call has made may be for one revision more than the bound.
MadeKeys == [minter : Device, revision : 1..MaxRevision+1]
Calls == [kind : {"none", "mint", "grow", "sync"},
          at : {"none", "look", "fold", "read", "post", "recover"},
          sealTo : SUBSET Device, revision : 0..MaxRevision+1, key : MadeKeys \cup {NoKey}]

\* A fan-out that can be read has a key, published at its revision; nothing was
\* published past it.
SlotIsLatest ==
  /\ fanout.readable => fanout.key \in Keys /\ fanout.revision \in 1..MaxRevision
  /\ ~fanout.readable => fanout.key = NoKey
  /\ \A r \in 1..MaxRevision : r > fanout.revision => published[r] = NoKey

\* What a call is about to post: a fresh key of its own revision, or, one past
\* the revision it read, the key it found there; and if that is still the
\* stored revision, then that is still the stored key.
PostsAreFresh ==
  \A d \in Device :
    LET c == call[d]
    IN  /\ c.at \in {"read", "post"} => c.sealTo # {}
        /\ c.at = "read" /\ c.kind = "grow" => c.key \in Keys
        /\ c.at \in {"look", "fold"} => c.kind # "grow"
        /\ c.at = "post" => c.revision >= 1
        /\ c.at = "post" /\ c.kind # "grow" => c.key = [minter |-> d, revision |-> c.revision]
        /\ c.at = "post" /\ c.kind = "grow" =>
             /\ c.key \in Keys
             /\ c.revision <= fanout.revision + 1
             /\ c.revision = fanout.revision + 1 => fanout.readable /\ c.key = fanout.key

KeyInv ==
  /\ KeyTypeOK
  /\ call \in [Device -> Calls]
  /\ Live # {}
  /\ SlotIsLatest
  /\ PostsAreFresh

\* No key is no key.
LEMMA NoKeyIsNone == NoKey \notin Keys /\ NoKey \notin MadeKeys /\ Keys \subseteq MadeKeys
BY KeyAssumption DEF NoKey, Keys, MadeKeys

\* The stored revision is a number, and so is the bound.
LEMMA Numbers ==
  ASSUME KeyInv
  PROVE  /\ MaxRevision \in Nat /\ MaxRevision >= 1
         /\ fanout.revision \in 0..MaxRevision /\ fanout.revision \in Nat
         /\ 0 \in 0..MaxRevision+1
  BY KeyAssumption DEF KeyInv, KeyTypeOK

\* Nothing is published at the start, and no call is under way.
LEMMA KeyInitInv == KeyInit => KeyInv
<1> SUFFICES ASSUME KeyInit PROVE KeyInv
  OBVIOUS
<1>1. /\ fanout.revision \in 0..MaxRevision /\ fanout.readable = FALSE /\ fanout.key = NoKey
      /\ fanout \in [revision : 0..MaxRevision, readable : BOOLEAN,
                     key : Keys \cup {NoKey}, wraps : SUBSET Device]
  <2>1. 0 \in 0..MaxRevision /\ 1 \in 0..MaxRevision
    BY KeyAssumption
  <2>2. CASE fanout = [revision |-> 0, readable |-> FALSE, key |-> NoKey, wraps |-> {}]
    BY <2>1, <2>2
  <2>3. CASE fanout = [revision |-> 1, readable |-> FALSE, key |-> NoKey, wraps |-> {}]
    BY <2>1, <2>3
  <2>4. \/ fanout = [revision |-> 0, readable |-> FALSE, key |-> NoKey, wraps |-> {}]
        \/ fanout = [revision |-> 1, readable |-> FALSE, key |-> NoKey, wraps |-> {}]
    BY DEF KeyInit, Absent, OldFormat
  <2> QED
    BY <2>2, <2>3, <2>4
<1>2. NoCall \in Calls /\ NoCall.at = "none" /\ NoCall.revision = 0
  BY KeyAssumption DEF NoCall, Calls
<1>3. KeyTypeOK
  BY <1>1, <1>2, KeyAssumption DEF KeyInit, KeyTypeOK
<1>4. Live # {} /\ call \in [Device -> Calls]
  BY <1>2, KeyAssumption DEF KeyInit, Live
<1>5. SlotIsLatest
  BY <1>1 DEF KeyInit, SlotIsLatest
<1>6. PostsAreFresh
  BY <1>2 DEF KeyInit, PostsAreFresh
<1> QED
  BY <1>3, <1>4, <1>5, <1>6 DEF KeyInv

\* A step of one call that leaves the slot alone.
LEMMA CallSteps ==
  ASSUME KeyInv, NEW d \in Device, NEW c \in Calls,
         call' = [call EXCEPT ![d] = c], UNCHANGED <<members, locked, fanout, published>>,
         held' \in [Device -> Keys \cup {NoKey}],
         c.at \in {"read", "post"} => c.sealTo # {},
         c.at = "read" /\ c.kind = "grow" => c.key \in Keys,
         c.at \in {"look", "fold"} => c.kind # "grow",
         c.at = "post" => c.revision >= 1,
         c.at = "post" /\ c.kind # "grow" => c.key = [minter |-> d, revision |-> c.revision],
         c.at = "post" /\ c.kind = "grow" =>
             /\ c.key \in Keys
             /\ c.revision <= fanout.revision + 1
             /\ c.revision = fanout.revision + 1 => fanout.readable /\ c.key = fanout.key
  PROVE  KeyInv'
<1>1. call' \in [Device -> Calls] /\ \A e \in Device : call'[e] = IF e = d THEN c ELSE call[e]
  BY DEF KeyInv
<1>2. \A e \in Device : call'[e].revision \in 0..MaxRevision+1
  BY <1>1 DEF Calls
<1>3. KeyTypeOK'
  BY <1>2 DEF KeyInv, KeyTypeOK
<1>4. SlotIsLatest' /\ Live' # {}
  BY DEF KeyInv, SlotIsLatest, Live
<1>5. PostsAreFresh'
  BY <1>1 DEF KeyInv, PostsAreFresh
<1> QED
  BY <1>1, <1>3, <1>4, <1>5 DEF KeyInv

\* A step that only ends the call, whatever it returns.
LEMMA CallEnds ==
  ASSUME KeyInv, NEW d \in Device, call' = [call EXCEPT ![d] = NoCall],
         UNCHANGED <<members, locked, fanout, published>>,
         held' \in [Device -> Keys \cup {NoKey}]
  PROVE  KeyInv'
<1>1. NoCall \in Calls /\ NoCall.at = "none"
  BY Numbers DEF NoCall, Calls
<1> QED
  BY <1>1, CallSteps

\* Answering with a key leaves devices holding keys.
LEMMA HoldsKeys ==
  ASSUME KeyInv, NEW d \in Device, NEW key \in Keys \cup {NoKey}, NEW revision, Answers(d, key, revision)
  PROVE  /\ held' \in [Device -> Keys \cup {NoKey}]
         /\ call' = [call EXCEPT ![d] = NoCall]
         /\ answer'.key = key /\ answer'.revision = revision
         /\ UNCHANGED <<members, locked>>
BY DEF Answers, KeyInv, KeyTypeOK

\* Recovering opens the stored fan-out, and what it returns is what was
\* published there.
LEMMA RecoverySound ==
  ASSUME KeyInv, NEW d \in Device, fanout.readable, Recovers(d)
  PROVE  KeyInv' /\ (answer'.key # NoKey => published'[answer'.revision] = answer'.key)
<1>1. fanout_open(d) \in Keys \cup {NoKey}
  BY DEF fanout_open, KeyInv, SlotIsLatest
<1>2. KeyInv'
  BY <1>1, HoldsKeys, CallEnds DEF Recovers
<1>3. answer'.key # NoKey => answer'.key = fanout.key /\ answer'.revision = fanout.revision
  BY <1>1, HoldsKeys DEF Recovers, fanout_open
<1>4. published' = published /\ published[fanout.revision] = fanout.key
  BY DEF Recovers, KeyInv, KeyTypeOK
<1> QED
  BY <1>2, <1>3, <1>4

\* A failure returns no key.
LEMMA FailureSound ==
  ASSUME KeyInv, NEW d \in Device, Fails(d)
  PROVE  KeyInv' /\ answer'.key = NoKey /\ UNCHANGED <<fanout, published>>
BY HoldsKeys, CallEnds DEF Fails

\* A post that lands is past the stored revision: what it writes over is only
\* the slot, and the revision it is published at had no key.
LEMMA StoreSound ==
  ASSUME KeyInv, NEW d \in Device, call[d].at = "post", Admits(d, call[d].revision),
         call[d].revision <= MaxRevision, Stores(d), UNCHANGED <<members, locked>>,
         held' \in [Device -> Keys \cup {NoKey}],
         NEW c \in Calls, call' = [call EXCEPT ![d] = c], c.at \in {"none", "recover"}
  PROVE  /\ KeyInv'
         /\ call[d].key \in Keys
         /\ published'[call[d].revision] = call[d].key
         /\ \A r \in 1..MaxRevision : published[r] # NoKey => published'[r] = published[r]
         /\ fanout'.key # fanout.key => fanout'.key.revision = fanout'.revision
<1> DEFINE b == call[d]
<1>1. /\ b \in Calls /\ b.revision > fanout.revision /\ b.revision \in 1..MaxRevision
      /\ b.sealTo # {} /\ b.sealTo \subseteq Device
  <2>1. b \in Calls /\ b.revision \in 0..MaxRevision+1 /\ b.sealTo \subseteq Device
    BY DEF KeyInv, Calls
  <2>2. b.sealTo # {} /\ b.revision >= 1 /\ b.revision > fanout.revision
    BY DEF KeyInv, PostsAreFresh, Admits, Newer
  <2> QED
    BY <2>1, <2>2, Numbers
<1>2. b.key \in Keys /\ (b.kind = "grow" => b.key = fanout.key)
                     /\ (b.kind # "grow" => b.key.revision = b.revision)
  <2>1. CASE b.kind = "grow"
    <3>1. b.key \in Keys /\ b.revision <= fanout.revision + 1
          /\ (b.revision = fanout.revision + 1 => b.key = fanout.key)
      BY <2>1 DEF KeyInv, PostsAreFresh
    <3>2. b.revision = fanout.revision + 1
      BY <1>1, <3>1, Numbers
    <3> QED
      BY <2>1, <3>1, <3>2
  <2>2. CASE b.kind # "grow"
    <3>1. b.key = [minter |-> d, revision |-> b.revision]
      BY <2>2 DEF KeyInv, PostsAreFresh
    <3> QED
      BY <1>1, <2>2, <3>1 DEF Keys
  <2> QED
    BY <2>1, <2>2
<1>3. /\ fanout'.revision = b.revision /\ fanout'.readable = TRUE /\ fanout'.key = b.key
      /\ fanout'.wraps = b.sealTo
      /\ fanout' \in [revision : 0..MaxRevision, readable : BOOLEAN,
                      key : Keys \cup {NoKey}, wraps : SUBSET Device]
      /\ published' = [published EXCEPT ![b.revision] = b.key]
  BY <1>1, <1>2, Numbers DEF Stores
<1>4. /\ published \in [1..MaxRevision -> Keys \cup {NoKey}]
      /\ published' \in [1..MaxRevision -> Keys \cup {NoKey}]
      /\ published'[b.revision] = b.key
      /\ \A r \in 1..MaxRevision : r # b.revision => published'[r] = published[r]
  BY <1>1, <1>2, <1>3 DEF KeyInv, KeyTypeOK
<1>5. published[b.revision] = NoKey
  BY <1>1 DEF KeyInv, SlotIsLatest
<1>6. /\ call' \in [Device -> Calls]
      /\ \A e \in Device : call'[e] = IF e = d THEN c ELSE call[e]
      /\ \A e \in Device : call'[e].revision \in 0..MaxRevision+1
  BY DEF KeyInv, Calls
<1>7. KeyTypeOK'
  BY <1>1, <1>3, <1>4, <1>6 DEF KeyInv, KeyTypeOK
<1>8. SlotIsLatest'
  BY <1>1, <1>2, <1>3, <1>4, Numbers DEF KeyInv, SlotIsLatest
<1>9. PostsAreFresh'
  <2>1. \A e \in Device : call[e].revision \in Int
    BY DEF KeyInv, Calls
  <2>2. fanout'.revision \in Int /\ fanout'.revision >= fanout.revision + 1
    BY <1>1, <1>3, Numbers
  <2>3. \A e \in Device \ {d} :
          call[e].revision <= fanout.revision + 1 =>
            call[e].revision <= fanout'.revision + 1 /\ call[e].revision # fanout'.revision + 1
    BY <2>1, <2>2, Numbers
  <2>5. PostsAreFresh
    BY DEF KeyInv
  <2>6. ASSUME NEW e \in Device \ {d}, call[e].at = "post", call[e].kind = "grow"
        PROVE  /\ call[e].key \in Keys
               /\ call[e].revision <= fanout'.revision + 1
               /\ call[e].revision # fanout'.revision + 1
    <3>1. call[e].key \in Keys /\ call[e].revision <= fanout.revision + 1
      BY <2>5, <2>6 DEF PostsAreFresh
    <3> QED
      BY <2>3, <3>1
  <2>7. ASSUME NEW e \in Device, e # d
        PROVE  LET x == call'[e]
               IN  /\ x.at \in {"read", "post"} => x.sealTo # {}
                   /\ x.at = "read" /\ x.kind = "grow" => x.key \in Keys
                   /\ x.at \in {"look", "fold"} => x.kind # "grow"
                   /\ x.at = "post" => x.revision >= 1
                   /\ x.at = "post" /\ x.kind # "grow" => x.key = [minter |-> e, revision |-> x.revision]
                   /\ x.at = "post" /\ x.kind = "grow" =>
                        /\ x.key \in Keys
                        /\ x.revision <= fanout'.revision + 1
                        /\ x.revision = fanout'.revision + 1 => fanout'.readable /\ x.key = fanout'.key
    <3>1. call'[e] = call[e]
      BY <1>6, <2>7
    <3> QED
      BY <3>1, <2>5, <2>6, <2>7 DEF PostsAreFresh
  <2>8. call'[d] = c
    BY <1>6
  <2> QED
    BY <2>7, <2>8 DEF PostsAreFresh
<1>10. KeyInv'
  BY <1>6, <1>7, <1>8, <1>9 DEF KeyInv, Live
<1> QED
  BY <1>2, <1>3, <1>4, <1>5, <1>10

\* What a step has to show.
StepSound ==
  /\ KeyInv'
  /\ answer'.key # NoKey => published'[answer'.revision] = answer'.key
  /\ \A r \in 1..MaxRevision : published[r] # NoKey => published'[r] = published[r]
  /\ fanout'.key # fanout.key => fanout'.key.revision = fanout'.revision

\* Every step of a call is sound.
LEMMA CallsAreSound ==
  ASSUME KeyInv, NEW d \in Device,
         \/ BeginMint(d) \/ BeginGrow(d) \/ BeginSync(d) \/ Look(d) \/ Fold(d)
         \/ ReadsRevision(d) \/ ReadsFanout(d) \/ Lands(d) \/ Bounces(d) \/ Recover(d) \/ Errs(d)
  PROVE  StepSound
<1>0. /\ call[d] \in Calls /\ held \in [Device -> Keys \cup {NoKey}]
      /\ members \subseteq Device /\ Live \subseteq Device /\ Live # {} /\ members # {}
      /\ published \in [1..MaxRevision -> Keys \cup {NoKey}]
  BY DEF KeyInv, KeyTypeOK, Live
<1>1. ASSUME KeyInv', UNCHANGED <<fanout, published>>, answer'.key = NoKey PROVE StepSound
  BY <1>1 DEF StepSound
<1>2. ASSUME KeyInv', UNCHANGED <<fanout, published>>, answer' = NoAnswer PROVE StepSound
  BY <1>1, <1>2 DEF NoAnswer
<1>3. ASSUME NEW kind \in {"mint", "grow", "sync"}, NEW sealTo \in SUBSET Device,
             NEW key \in Keys \cup {NoKey}, Begin(d, kind, sealTo, key),
             kind # "sync" => sealTo # {}, kind = "grow" => key \in Keys
      PROVE  StepSound
  <2> DEFINE c == [kind |-> kind, at |-> IF kind = "sync" THEN "look" ELSE "read",
                   sealTo |-> sealTo, revision |-> 0, key |-> key]
  <2>1. c \in Calls
    BY <1>3, Numbers, NoKeyIsNone DEF Calls
  <2>2. KeyInv'
    BY <1>0, <1>3, <2>1, CallSteps DEF Begin
  <2> QED
    BY <1>2, <1>3, <2>2 DEF Begin
<1>4. CASE BeginMint(d)
  BY <1>0, <1>3, <1>4 DEF BeginMint
<1>5. CASE BeginGrow(d)
  BY <1>0, <1>3, <1>5 DEF BeginGrow
<1>6. CASE BeginSync(d)
  BY <1>0, <1>3, <1>6 DEF BeginSync
<1>7. ASSUME fanout.readable, Recovers(d) PROVE StepSound
  BY <1>7, RecoverySound DEF StepSound, Recovers
<1>8. ASSUME Fails(d) PROVE StepSound
  BY <1>1, <1>8, FailureSound
<1>9. ASSUME NEW at \in {"fold", "recover"}, call[d].kind # "grow", Goes(d, [call[d] EXCEPT !.at = at]) PROVE StepSound
  <2>1. /\ [call[d] EXCEPT !.at = at] \in Calls /\ [call[d] EXCEPT !.at = at].at = at
        /\ [call[d] EXCEPT !.at = at].kind = call[d].kind
    BY <1>0, <1>9 DEF Calls
  <2>2. KeyInv'
    BY <1>0, <1>9, <2>1, CallSteps DEF Goes
  <2> QED
    BY <1>2, <1>9, <2>2 DEF Goes
<1>10. CASE Look(d)
  <2>1. call[d].kind # "grow"
    BY <1>10 DEF Look, KeyInv, PostsAreFresh
  <2> QED
    BY <1>7, <1>9, <1>10, <2>1 DEF Look
<1>11. CASE Fold(d)
  <2> DEFINE c == [call[d] EXCEPT !.at = "read", !.sealTo = members]
  <2>1. c \in Calls /\ c.at = "read" /\ c.sealTo = members /\ c.kind = call[d].kind /\ c.key = call[d].key
    BY <1>0 DEF Calls
  <2>2. c.kind # "grow"
    BY <2>1, <1>11 DEF Fold, KeyInv, PostsAreFresh
  <2>3. KeyInv'
    BY <1>0, <1>11, <2>1, <2>2, CallSteps DEF Fold, Goes
  <2> QED
    BY <1>2, <1>11, <2>3 DEF Fold, Goes
<1>12. CASE ReadsRevision(d)
  <2>1. PICK current \in {0, fanout.revision} :
          Goes(d, [call[d] EXCEPT !.at = "post", !.revision = current + 1,
                                  !.key = [minter |-> d, revision |-> current + 1]])
    BY <1>12 DEF ReadsRevision
  <2> DEFINE k == [minter |-> d, revision |-> current + 1]
             c == [call[d] EXCEPT !.at = "post", !.revision = current + 1, !.key = k]
  <2>2. current + 1 \in 1..MaxRevision+1 /\ current + 1 \in 0..MaxRevision+1
    BY Numbers
  <2>3. k \in MadeKeys
    BY <2>2 DEF MadeKeys
  <2>4. /\ c \in Calls /\ c.at = "post" /\ c.revision = current + 1 /\ c.key = k
        /\ c.kind = call[d].kind /\ c.sealTo = call[d].sealTo
    BY <1>0, <2>2, <2>3 DEF Calls
  <2>5. c.sealTo # {} /\ c.kind # "grow"
    BY <1>12, <2>4 DEF ReadsRevision, KeyInv, PostsAreFresh
  <2>6. c.revision >= 1
    BY <2>2, <2>4
  <2>7. UNCHANGED <<members, locked, fanout, published, held>> /\ call' = [call EXCEPT ![d] = c]
    BY <2>1 DEF Goes
  <2> HIDE DEF c, k
  <2>8. KeyInv'
    BY <1>0, <2>4, <2>5, <2>6, <2>7, CallSteps DEF k
  <2> QED
    BY <1>2, <2>1, <2>8 DEF Goes
<1>13. CASE ReadsFanout(d)
  <2>1. CASE HoldsThePublished(d) /\ Goes(d, [call[d] EXCEPT !.at = "post", !.revision = fanout.revision + 1])
    <3> DEFINE c == [call[d] EXCEPT !.at = "post", !.revision = fanout.revision + 1]
    <3>1. fanout.revision + 1 \in 0..MaxRevision+1
      BY Numbers
    <3>2. /\ c \in Calls /\ c.at = "post" /\ c.revision = fanout.revision + 1 /\ c.key = call[d].key
          /\ c.kind = call[d].kind /\ c.sealTo = call[d].sealTo
      BY <1>0, <3>1 DEF Calls
    <3>3. c.sealTo # {} /\ c.kind = "grow" /\ c.key = fanout.key /\ c.key \in Keys
      BY <1>13, <2>1, <3>2 DEF ReadsFanout, HoldsThePublished, KeyInv, PostsAreFresh
    <3>5. UNCHANGED <<members, locked, fanout, published, held>> /\ call' = [call EXCEPT ![d] = c]
      BY <2>1 DEF Goes
    <3>6. c.revision >= 1 /\ c.revision <= fanout.revision + 1 /\ fanout.readable
      BY <2>1, <3>2, Numbers DEF HoldsThePublished
    <3> HIDE DEF c
    <3>4. KeyInv'
      BY <1>0, <3>2, <3>3, <3>5, <3>6, CallSteps
    <3> QED
      BY <1>2, <2>1, <3>4 DEF Goes
  <2> QED
    BY <1>8, <1>13, <2>1 DEF ReadsFanout
<1>14. CASE Lands(d)
  <2>1. ASSUME NEW c \in Calls, call' = [call EXCEPT ![d] = c], c.at \in {"none", "recover"},
               held' \in [Device -> Keys \cup {NoKey}], UNCHANGED <<members, locked>>,
               \/ answer'.key = NoKey
               \/ answer'.key = call[d].key /\ answer'.revision = call[d].revision
        PROVE  StepSound
    BY <1>14, <2>1, StoreSound DEF Lands, StepSound
  <2>2. NoCall \in Calls /\ NoCall.at = "none"
    BY Numbers DEF NoCall, Calls
  <2>3. call[d].key \in Keys
    <3>1. call[d].revision \in 0..MaxRevision+1 /\ call[d].revision >= 1 /\ call[d].revision <= MaxRevision
      BY <1>0, <1>14 DEF Lands, KeyInv, PostsAreFresh, Calls
    <3>2. call[d].revision \in 1..MaxRevision
      BY <3>1, Numbers
    <3>3. [minter |-> d, revision |-> call[d].revision] \in Keys
      BY <3>2 DEF Keys
    <3> QED
      BY <1>14, <3>3 DEF Lands, KeyInv, PostsAreFresh
  <2>4. CASE Answers(d, call[d].key, call[d].revision)
    BY <2>1, <2>2, <2>3, <2>4, HoldsKeys
  <2>5. CASE Answers(d, NoKey, 0)
    BY <2>1, <2>2, <2>5, HoldsKeys
  <2>6. CASE /\ call' = [call EXCEPT ![d].at = "recover"] /\ answer' = NoAnswer
             /\ UNCHANGED <<members, locked, held>>
    <3>1. [call[d] EXCEPT !.at = "recover"] \in Calls /\ [call[d] EXCEPT !.at = "recover"].at = "recover"
      BY <1>0 DEF Calls
    <3>2. call' = [call EXCEPT ![d] = [call[d] EXCEPT !.at = "recover"]]
      BY <2>6
    <3> QED
      BY <1>0, <2>1, <2>6, <3>1, <3>2 DEF NoAnswer
  <2> QED
    BY <1>14, <2>4, <2>5, <2>6 DEF Lands
<1>15. CASE Bounces(d)
  <2>1. call[d].kind = "sync" => call[d].kind # "grow"
    OBVIOUS
  <2> QED
    BY <2>1, <1>8, <1>9, <1>15 DEF Bounces, Unanswered
<1>16. CASE Recover(d)
  BY <1>7, <1>8, <1>16 DEF Recover
<1>17. CASE Errs(d)
  BY <1>8, <1>17 DEF Errs
<1> QED
  BY <1>4, <1>5, <1>6, <1>10, <1>11, <1>12, <1>13, <1>14, <1>15, <1>16, <1>17

\* Changes of the chain leave a live member and touch nothing else.
LEMMA ChainSound ==
  ASSUME KeyInv, NEW d \in Device, Joins(d) \/ Leaves(d) \/ GetsLocked(d) \/ GetsUnlocked(d)
  PROVE  StepSound
<1>1. /\ members' \subseteq Device /\ locked' \subseteq members' /\ Live' # {}
      /\ answer' = NoAnswer /\ UNCHANGED <<fanout, held, call, published>>
  BY DEF Joins, Leaves, GetsLocked, GetsUnlocked, Becomes, Live, KeyInv, KeyTypeOK
<1>2. KeyInv'
  BY <1>1 DEF KeyInv, KeyTypeOK, SlotIsLatest, PostsAreFresh
<1> QED
  BY <1>1, <1>2 DEF StepSound, NoAnswer

\* Every step of the system is sound.
LEMMA NextSound == KeyInv /\ KeyNext => StepSound
<1> SUFFICES ASSUME KeyInv, KeyNext PROVE StepSound
  OBVIOUS
<1> QED
  BY CallsAreSound, ChainSound, KeyAssumption DEF KeyNext

\* The invariant.
LEMMA KeyInvariant == KeySpec => []KeyInv
<1>1. KeyInv /\ UNCHANGED keyVars => KeyInv'
  BY DEF keyVars, KeyInv, KeyTypeOK, SlotIsLatest, PostsAreFresh, Live
<1>2. KeyInv /\ [KeyNext]_keyVars => KeyInv'
  BY <1>1, NextSound DEF StepSound
<1> QED
  BY <1>2, KeyInitInv, PTL DEF KeySpec

\* Every variable has its type, and the fan-out is what was published last.
THEOREM KeyTypes == KeySpec => []KeyTypeOK
<1>1. KeyInv => KeyTypeOK
  BY DEF KeyInv
<1> QED
  BY <1>1, KeyInvariant, PTL

\* A key that was rotated out never comes back: the slot's key changes only to
\* one made for the revision it is published at (mint_fleet_key), because a grow
\* whose revision is still the next one still carries the stored key.
THEOREM RotatedKeysStayDead == KeySpec => OldKeysStayDead
<1>1. KeyInv /\ [KeyNext]_keyVars => [fanout'.key # fanout.key => fanout'.key.revision = fanout'.revision]_keyVars
  BY NextSound DEF StepSound
<1> QED
  BY <1>1, KeyInvariant, PTL DEF KeySpec, OldKeysStayDead

\* A revision names one key: what a caller is given was published at the
\* revision it is told, and no revision is published twice.
THEOREM OneKeyARevision == KeySpec => RevisionNamesOneKey
<1>1. KeyInv /\ [KeyNext]_keyVars =>
        [/\ answer'.key # NoKey => published'[answer'.revision] = answer'.key
         /\ \A r \in 1..MaxRevision : published[r] # NoKey => published'[r] = published[r]]_keyVars
  BY NextSound DEF StepSound
<1> QED
  BY <1>1, KeyInvariant, PTL DEF KeySpec, RevisionNamesOneKey
=============================================================================

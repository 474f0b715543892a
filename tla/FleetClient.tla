----------------------------- MODULE FleetClient -----------------------------
(***************************************************************************)
(* The chain calls of src/client.rs: several clients that fetch the chain, *)
(* build one op on its head and publish the result, against the worker     *)
(* that stores it.  The worker is not part of this repository; what is     *)
(* modelled of it is what the client relies on: it takes a chain only if   *)
(* it extends the stored one by an op that folds, answers "stale" when the *)
(* head has moved, and refuses a departure without consent.                *)
(*                                                                         *)
(* An op is always built on the chain of the last fetch, and the worker    *)
(* takes it only when that is still the chain it stores, so the fetched    *)
(* copy is represented by `onHead`: the calls whose fetched chain has not  *)
(* been overtaken.                                                         *)
(*                                                                         *)
(* Posts are lost on the way there or back; both end the call with an      *)
(* error the caller cannot tell apart.                                     *)
(***************************************************************************)
EXTENDS FleetChain, Sequences

CONSTANTS
  Client,      \* the calls that may be under way at once
  Home,        \* the device each client runs on
  Intent,      \* what each client may be asked to do: [kind, target, k]
  Attempts,    \* times a call builds on a fresh head before it gives up
  Mobile,      \* the devices that ask to join and to leave
  Enrolled,    \* members of the fleet at the start
  Founder      \* the one of them that signed the genesis

Kind == {"declare", "bind", "remove", "depart", "lock", "unlock", "checkpoint"}

ASSUME ClientAssumption ==
  /\ Home \in [Client -> Device]
  /\ Intent \in [Client -> SUBSET [kind : Kind, target : Device, k : 1..MaxCheckpoint]]
  /\ \A c \in Client : \A i \in Intent[c] :
       i.kind \in {"declare", "depart", "checkpoint"} => i.target = Home[c]
  /\ Attempts \in Nat \ {0}
  /\ Mobile \subseteq Device
  /\ Enrolled \subseteq Device
  /\ Founder \in Enrolled

VARIABLES
  commits,    \* who made the Checkpoint op of each epoch, in chain order
  call,       \* the call each client is in, or NoCall
  onHead,     \* clients whose fetched chain is still the stored one
  request,    \* each device's join request: posted and fresh, or no longer
              \* listed but within CONSENT_WINDOW_OSC, or neither
  departure,  \* the schemes each device's departure request is signed with,
              \* {} when it has none within CONSENT_WINDOW_OSC
  (* history, read by properties only *)
  answer,     \* what the last step returned to a caller, or NoAnswer
  held        \* whether what the call is for was so at some point during it

clientVars == <<commits, call, onHead, request, departure, answer, held>>
allVars == <<vars, clientVars>>

NoCall == [kind |-> "none"]
NoAnswer == [result |-> "none"]

Underway(c) == call[c] # NoCall

-----------------------------------------------------------------------------
(* What a call is for, and what the fetched chain tells it. *)

\* What the chain shows once the call's purpose is served.
Achieved(i, ms, lk, bundles, cs) ==
  \/ i.kind = "declare" /\ covers(declared_mask(bundles, i.target), Capable[i.target])
  \/ i.kind = "bind" /\ i.target \in ms
  \/ i.kind \in {"remove", "depart"} /\ i.target \notin ms
  \/ i.kind = "lock" /\ i.target \in lk
  \/ i.kind = "unlock" /\ i.target \notin lk
  \/ i.kind = "checkpoint" /\ i.k <= Len(cs)

\* The early `return Err`: no member, or for lock and unlock a locked one.
\* Neither departure checks who approves it; the fold does.
Forbidden(c) ==
  \/ call[c].kind \notin {"remove", "depart"} /\ Home[c] \notin members
  \/ call[c].kind \in {"lock", "unlock"} /\ Home[c] \in locked

\* The early `return Ok`: the chain is already as the caller wants it.
Bug_AlwaysBuilds(c) == FALSE
AlreadyDone(c) ==
  call[c].kind # "checkpoint" /\ Achieved(call[c], members, locked, bundle, commits)

\* The early return of push_checkpoint: its epoch is not the chain's next.
OutOfTurn(c) == call[c].kind = "checkpoint" /\ call[c].k # last_ckpt_k + 1

\* "New bare departures are refused at the worker's publish gate".
Bug_BareDeparturesPass == TRUE
BareDeparturesPass == FALSE

\* The op the call builds, signed with what the chain knows its device can
\* sign with: a Declare with all it declares.
Appends(c) ==
  LET me == Home[c]
      i == call[c]
      sigs == declared_mask(bundle, me) \cap Capable[me]
  IN  \/ i.kind = "declare" /\ Declare(me, Capable[me], Capable[me])
      \/ /\ i.kind = "bind"
         /\ request[i.target] # "none"
         /\ Add(me, i.target, Capable[i.target], sigs, i.consent)
      \/ /\ i.kind = "remove"
         /\ departure[i.target] # {}
         /\ ConsentedRemove(me, i.target, sigs, i.consent)
      \/ i.kind = "depart" /\ BareDeparturesPass /\ BareRemove(me, sigs)
      \/ i.kind = "lock" /\ Lock(me, i.target, sigs)
      \/ i.kind = "unlock" /\ Unlock(me, i.target, sigs)
      \/ i.kind = "checkpoint" /\ Checkpoint(me, i.k, sigs)

\* Whether the fold, or before it the worker's gate, takes that op.
Folds(c) ==
  LET me == Home[c]
      i == call[c]
      sigs == declared_mask(bundle, me) \cap Capable[me]
  IN  \/ i.kind = "declare" /\ DeclareFolds(me, Capable[me], Capable[me])
      \/ /\ i.kind = "bind"
         /\ request[i.target] # "none"
         /\ AddFolds(me, i.target, Capable[i.target], sigs, i.consent)
      \/ /\ i.kind = "remove"
         /\ departure[i.target] # {}
         /\ ConsentedRemoveFolds(me, i.target, sigs, i.consent)
      \/ i.kind = "depart" /\ BareDeparturesPass /\ BareRemoveFolds(me, sigs)
      \/ i.kind = "lock" /\ LockFolds(me, i.target, sigs)
      \/ i.kind = "unlock" /\ UnlockFolds(me, i.target, sigs)
      \/ i.kind = "checkpoint" /\ CheckpointFolds(me, i.k, sigs)

-----------------------------------------------------------------------------
(* Steps of a call. *)

\* The consent a caller hands over, and the call holds for all its attempts:
\* the joiner's, made with every scheme it holds, or the leaver's.
Carried(i) ==
  CASE i.kind = "bind"   -> Capable[i.target]
    [] i.kind = "remove" -> departure[i.target]
    [] OTHER             -> {}

\* The epoch a caller mints is the caller's choice: the next, one long taken, or
\* one that skips some.
Begin(c, i) ==
  /\ call[c] = NoCall
  /\ i.kind = "bind" => request[i.target] = "fresh"
  /\ i.kind = "remove" => departure[i.target] # {}
  /\ call' = [call EXCEPT ![c] =
                [kind |-> i.kind, target |-> i.target, k |-> i.k, consent |-> Carried(i),
                 left |-> Attempts, at |-> "fetch"]]
  /\ held' = [held EXCEPT ![c] = Achieved(i, members, locked, bundle, commits)]
  /\ answer' = NoAnswer
  /\ UNCHANGED <<vars, commits, onHead, request, departure>>

\* What the caller is told; `epoch` and `by` are the checkpoint to adopt.
Answer(c, result, epoch, by, done) ==
  [client |-> c, intent |-> call[c], result |-> result, epoch |-> epoch, by |-> by,
   held |-> held[c] \/ done]

\* A call that ends without having landed anything.
Returns(c, result, epoch, by) ==
  /\ answer' = Answer(c, result, epoch, by, FALSE)
  /\ call' = [call EXCEPT ![c] = NoCall]
  /\ onHead' = onHead \ {c}
  /\ held' = [held EXCEPT ![c] = FALSE]
  /\ UNCHANGED <<vars, commits, request, departure>>

\* latest_checkpoint, handed to the caller.  Ok(None) reads "you are the minter",
\* and a chain without checkpoints has no other answer for an epoch out of turn.
Adjudicates(c) ==
  IF last_ckpt_k = 0
  THEN Returns(c, "minter", 0, c)
  ELSE Returns(c, "loser", last_ckpt_k, commits[last_ckpt_k])

Goes(c, at, left) ==
  /\ call' = [call EXCEPT ![c].at = at, ![c].left = left]
  /\ answer' = NoAnswer
  /\ UNCHANGED <<vars, commits, request, departure, held>>

Fetch(c) ==
  /\ Underway(c) /\ call[c].at = "fetch"
  /\ \/ Forbidden(c) /\ Returns(c, "not_allowed", 0, c)
     \/ ~Forbidden(c) /\ AlreadyDone(c) /\ Returns(c, "ok", 0, c)
     \/ ~Forbidden(c) /\ OutOfTurn(c) /\ Adjudicates(c)
     \/ /\ ~Forbidden(c) /\ ~AlreadyDone(c) /\ ~OutOfTurn(c)
        /\ Goes(c, "publish", call[c].left)
        /\ onHead' = onHead \cup {c}

\* The op lands: everybody else's fetched chain is overtaken.  The answer
\* reaches the caller, or is lost and the caller told of a transport error.
Lands(c, result) ==
  /\ Underway(c) /\ call[c].at = "publish"
  /\ c \in onHead
  /\ Appends(c)
  /\ commits' = IF call[c].kind = "checkpoint" THEN Append(commits, c) ELSE commits
  /\ result \in {IF call[c].kind = "checkpoint" THEN "minter" ELSE "ok", "transport"}
  /\ LET done(x) == Achieved(call[x], members', locked', bundle', commits')
         others == {x \in Client \ {c} : Underway(x)}
     IN  /\ answer' = Answer(c, result, call[c].k, c, done(c))
         /\ held' = [x \in Client |-> x \in others /\ (held[x] \/ done(x))]
  /\ call' = [call EXCEPT ![c] = NoCall]
  /\ onHead' = {}
  /\ UNCHANGED <<request, departure>>

\* The op was built on a head that has moved: fetch again, while there are
\* attempts left.  push_checkpoint fetches once more, to see who won.
Bug_StaleIsDone(c) == Returns(c, "ok", 0, c)
Bug_NeverGivesUp(c) == Goes(c, "fetch", call[c].left) /\ UNCHANGED onHead
Overtaken(c) ==
  \/ call[c].left = 1 /\ Returns(c, "races", 0, c)
  \/ call[c].left > 1 /\ Goes(c, "fetch", call[c].left - 1) /\ UNCHANGED onHead

Stale(c) ==
  /\ Underway(c) /\ call[c].at = "publish"
  /\ c \notin onHead
  /\ \/ call[c].kind # "checkpoint" /\ Overtaken(c)
     \/ call[c].kind = "checkpoint" /\ Goes(c, "refetch", call[c].left) /\ UNCHANGED onHead

\* A sibling's checkpoint won, or only a membership op came between.
Bug_ClaimsTheRace(c) == Returns(c, "minter", call[c].k, c)
LostTheRace(c) == Returns(c, "loser", last_ckpt_k, commits[last_ckpt_k])

Refetch(c) ==
  /\ Underway(c) /\ call[c].at = "refetch"
  /\ \/ last_ckpt_k >= call[c].k /\ LostTheRace(c)
     \/ last_ckpt_k < call[c].k /\ Returns(c, "stale", 0, c)

\* The chain is the stored one plus an op that does not fold.
Refused(c) ==
  /\ Underway(c) /\ call[c].at = "publish"
  /\ c \in onHead
  /\ ~Folds(c)
  /\ Returns(c, "refused", 0, c)

\* The post never reaches the worker.
Dropped(c) == Underway(c) /\ Returns(c, "transport", 0, c)

-----------------------------------------------------------------------------
(* Ceremonies: requests to join and to leave. *)

Ceremony(d, req, dep) ==
  /\ request' = [request EXCEPT ![d] = req]
  /\ departure' = [departure EXCEPT ![d] = dep]
  /\ answer' = NoAnswer
  /\ UNCHANGED <<vars, commits, call, onHead, held>>

AsksToJoin(d) ==
  /\ d \notin members
  /\ Ceremony(d, "fresh", departure[d])

\* The author withdraws its request, or BINDREQ_FRESH_OSC passes; the consent
\* in it stays good for CONSENT_WINDOW_OSC.
Unlisted(d) ==
  request[d] = "fresh" /\ Ceremony(d, "unlisted", departure[d])

JoinWindowCloses(d) ==
  request[d] = "unlisted" /\ Ceremony(d, "none", departure[d])

\* Signed with every scheme the leaver has declared by then.
AsksToLeave(d) ==
  /\ d \in members
  /\ Ceremony(d, request[d], declared_mask(bundle, d) \cap Capable[d])

LeaveWindowCloses(d) ==
  departure[d] # {} /\ Ceremony(d, request[d], {})

-----------------------------------------------------------------------------
\* A founded fleet: the founder has declared nothing, the others joined with
\* an Ed25519-only bundle.
ClientInit ==
  /\ founded = TRUE
  /\ members = Enrolled
  /\ locked = {}
  /\ bundle = [d \in Device |-> IF d \in Enrolled \ {Founder} THEN Base ELSE {}]
  /\ floor = Base
  /\ last_ckpt_k = 0
  /\ behind = {}
  /\ bare = FALSE
  /\ commits = <<>>
  /\ call = [c \in Client |-> NoCall]
  /\ onHead = {}
  /\ request = [d \in Device |-> "none"]
  /\ departure = [d \in Device |-> {}]
  /\ answer = NoAnswer
  /\ held = [c \in Client |-> FALSE]

Step(c) ==
  \/ Fetch(c)
  \/ \E result \in {"ok", "minter", "transport"} : Lands(c, result)
  \/ Stale(c)
  \/ Refetch(c)
  \/ Refused(c)
  \/ Dropped(c)

Ceremonies(d) ==
  \/ AsksToJoin(d)
  \/ Unlisted(d)
  \/ JoinWindowCloses(d)
  \/ AsksToLeave(d)
  \/ LeaveWindowCloses(d)

ClientNext ==
  \/ \E c \in Client : Step(c) \/ \E i \in Intent[c] : Begin(c, i)
  \/ \E d \in Mobile : Ceremonies(d)

ClientSpec == ClientInit /\ [][ClientNext]_allVars

\* A call under way goes on: every post returns, with an answer or an error.
FairClientSpec == ClientSpec /\ \A c \in Client : WF_allVars(Step(c))

-----------------------------------------------------------------------------
(* Properties. *)

ClientTypeOK ==
  /\ TypeOK
  /\ commits \in Seq(Client) /\ Len(commits) = last_ckpt_k
  /\ \A c \in Client :
       Underway(c) =>
         call[c] \in [kind : Kind, target : Device, k : 1..MaxCheckpoint,
                      consent : {{}} \cup Mask, left : 1..Attempts,
                      at : {"fetch", "publish", "refetch"}]
  /\ onHead \subseteq {c \in Client : Underway(c) /\ call[c].at = "publish"}
  /\ request \in [Device -> {"fresh", "unlisted", "none"}]
  /\ departure \in [Device -> {{}} \cup Mask]
  /\ held \in [Client -> BOOLEAN]

\* A fleet kept by these calls is never bricked: whatever the members do to
\* one another, and however their posts interleave, one of them can sign the
\* next op.  The worker's refusal of bare departures is what makes this hold
\* without the exception SomeoneCanSign has to make.
FleetLives == \E d \in Device : CanSign(d)

\* An Ok is the truth: at some moment of the call the chain was as the caller
\* asked, by its own op or by someone else's.
OkMeansDone == answer.result = "ok" => answer.held

\* The worker refuses a call for what the caller has to know of: it holds no
\* authority, the consent it carries is void or short of the floor, or the
\* target makes no sense.  Never because someone else had just done the same.
RefusalsAreReal ==
  answer.result = "refused" =>
    LET i == answer.intent
        me == Home[answer.client]
    IN  \/ i.kind = "depart"
        \/ i.kind # "declare" /\ ~CanSign(me)
        \/ i.kind = "declare" /\ (me \in locked \/ ~covers(Capable[me], floor))
        \/ i.kind = "bind" /\ (request[i.target] = "none" \/ ~covers(i.consent, floor))
        \/ i.kind = "remove" /\ (departure[i.target] = {} \/ ~covers(i.consent, floor))
        \/ i.kind \in {"remove", "lock"} /\ i.target = me
        \/ i.kind = "lock" /\ i.target \notin members

\* "The single-winner rule": of all callers that skip no epoch, the one told it
\* is the minter made the one Checkpoint the chain holds for it, however the
\* pushes for it raced, and the others are given a checkpoint of the chain that
\* is at their epoch or past it.
SkipsAnEpoch(i) == i.k > Len(commits) + 1
SingleWinner ==
  answer.result \in {"minter", "loser"} /\ ~SkipsAnEpoch(answer.intent) =>
    LET k == answer.intent.k
    IN  /\ k \in DOMAIN commits
        /\ answer.result = "minter" => commits[k] = answer.client
        /\ answer.result = "loser" => answer.epoch >= k /\ commits[answer.epoch] = answer.by

\* The same for whatever epoch a caller asks for: "Ok(None) = our op landed (we
\* are the minter for k)".
MinterOwnsItsEpoch ==
  answer.result = "minter" =>
    /\ answer.intent.k \in DOMAIN commits
    /\ commits[answer.intent.k] = answer.client

\* Every call ends.
CallsEnd == \A c \in Client : Underway(c) ~> ~Underway(c)
=============================================================================

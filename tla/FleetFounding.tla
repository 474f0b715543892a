---------------------------- MODULE FleetFounding ----------------------------
(***************************************************************************)
(* How a fleet comes to hold its name, and how others follow its chain:    *)
(* the founding race (ensure_member_plated), reads adopted by extension    *)
(* (MembershipBlob::adoption, current_fleet_adopting), a pin that moves to *)
(* a successor (SuccessorRecord), who was a member when (was_member_at),   *)
(* and what an attesting device concludes from the chains it sees          *)
(* (attest_verdict).                                                       *)
(*                                                                         *)
(* "The fleet slot has no compare-and-set": the worker looks at the stored *)
(* chain and writes later, so two posts it admitted overwrite each other.  *)
(* A reader may be served by a peer that lags.                             *)
(*                                                                         *)
(* Abstractions.  Of the operations those that change who is a member or   *)
(* locked are kept, as admitted by the rules of FleetChain.  A genesis     *)
(* hash is the genesis, which a number makes unique.  A device vouches     *)
(* with all the schemes its predecessor holds for it, so its eggs cover    *)
(* the floor.  The chains of other slots are not modelled but in a         *)
(* verdict.  When a name is freed is the worker's.                         *)
(***************************************************************************)
EXTENDS Integers, Sequences, FiniteSets, SequencesExt

CONSTANTS
  Device,         \* devices that may be in the fleet
  Reader,         \* devices and contacts that follow the chain
  Clock,          \* what each device's clock says
  MaxOps,         \* bound: operations but unlocks of the first chain, one less of the next
  MaxGenerations  \* bound: claims of the name

ASSUME FoundingAssumption ==
  /\ Clock \in [Device -> Nat]
  /\ MaxOps \in Nat \ {0} /\ MaxGenerations \in Nat

VARIABLES
  stored,      \* the chain in the slot, empty if there is none
  post,        \* per device: a chain the worker admitted and has not written
  call,        \* per device: where its ensure_member is, or what it returned
  succession,  \* the succession slot
  adopted,     \* per reader: the chain it adopted
  pin,         \* per reader: the genesis it trusts
  (* history, read by properties only *)
  generations, \* claims of the name so far
  freed,       \* those whose name was freed
  sure,        \* <<device, genesis>> told Ok while no post was under way
  vouched      \* <<old genesis, new genesis, device>> signed

foundingVars == <<stored, post, call, succession, adopted, pin,
                  generations, freed, sure, vouched>>
slotVars == <<stored, post, freed>>
ensureVars == <<call, generations, sure>>
readerVars == <<adopted, pin>>
successionVars == <<succession, vouched>>

-----------------------------------------------------------------------------
(* Chains. *)

NoGenesis == [kind |-> "none", device |-> "none", by |-> "none", time |-> 0, number |-> 0]
NoChain == <<>>
Operation(kind, d, by, time) == [kind |-> kind, device |-> d, by |-> by, time |-> time, number |-> 0]
FreshGenesis(d, time, n) == [Operation("genesis", d, d, time) EXCEPT !.number = n]

\* A chain of the format before this one: it does not fold.
DeadChain == <<Operation("v0", "none", "none", 0)>>

Folds(c) == c # <<>> /\ c[1].kind = "genesis"
Genesis(c) == IF c = <<>> THEN NoGenesis ELSE c[1]

\* The last operation on a device decides whether it is a member, or locked.
LastOn(c, d) == CHOOSE i \in DOMAIN c : c[i].device = d /\ \A j \in DOMAIN c : c[j].device = d => j <= i
Named(c) == {c[i].device : i \in DOMAIN c}
Members(c) == {d \in Named(c) : c[LastOn(c, d)].kind # "remove"}
locked_out(c) == {d \in Named(c) : c[LastOn(c, d)].kind = "lock"}

extends(c, prior) == IsPrefix(prior, c)

adoption(c, old) ==
  CASE old = NoChain -> "First"
    [] Genesis(c) # Genesis(old) -> "DifferentGenesis"
    [] c = old -> "Unchanged"
    [] extends(c, old) -> "Extended"
    [] extends(old, c) -> "Stale"
    [] OTHER -> "Fork"

lands(verdict) == verdict \in {"First", "Extended", "Unchanged"}

\* The walk stops at the first operation stamped after t.
Bug_FleetOfToday(c, d, t) == Folds(c) /\ d \in Members(c)
was_member_at(c, d, t) ==
  LET upto == {i \in DOMAIN c : \A j \in 1..i : c[j].time <= t}
  IN  /\ Folds(c) /\ d \notin locked_out(c)
      /\ d \in Members(SubSeq(c, 1, Cardinality(upto)))

\* "An honest op never precedes the tip."
stamp_after(c, now) == IF c # <<>> /\ c[Len(c)].time > now THEN c[Len(c)].time ELSE now

-----------------------------------------------------------------------------
(* The worker. *)

Quiet == \A d \in Device : post[d] = NoChain

\* A genesis is admitted where no chain is stored that folds.
Claimable == ~Folds(stored)

\* The write, whatever is stored by now.
Lands(d) ==
  /\ post[d] # NoChain
  /\ stored' = post[d]
  /\ post' = [post EXCEPT ![d] = NoChain]
  /\ call' = [call EXCEPT ![d] = IF @ = "posted" THEN "refetch" ELSE @]
  /\ UNCHANGED <<freed, generations, sure, readerVars, successionVars>>

\* The last device has left: the name can be claimed again.
Frees ==
  /\ Folds(stored) /\ Members(stored) = {}
  /\ stored' = NoChain
  /\ freed' = freed \cup {stored[1]}
  /\ UNCHANGED <<post, ensureVars, readerVars, successionVars>>

-----------------------------------------------------------------------------
(* ensure_member_plated. *)

Resting == {"idle", "ok", "refused"}

Answers(d, word) ==
  /\ call' = [call EXCEPT ![d] = word]
  /\ sure' = IF word = "ok" /\ Quiet THEN sure \cup {<<d, Genesis(stored)>>} ELSE sure

Judges(d) == IF d \in Members(stored) THEN Answers(d, "ok") ELSE Answers(d, "refused")

\* A chain that does not fold is superseded, like an absent one.
Looks(d) ==
  /\ call[d] \in Resting
  /\ IF Folds(stored) THEN Judges(d)
     ELSE call' = [call EXCEPT ![d] = "founding"] /\ UNCHANGED sure
  /\ UNCHANGED <<slotVars, generations, readerVars, successionVars>>

Founds(d) ==
  /\ call[d] = "founding" /\ post[d] = NoChain
  /\ Claimable /\ generations < MaxGenerations
  /\ generations' = generations + 1
  /\ post' = [post EXCEPT ![d] = <<FreshGenesis(d, Clock[d], generations + 1)>>]
  /\ call' = [call EXCEPT ![d] = "posted"]
  /\ UNCHANGED <<stored, freed, sure, readerVars, successionVars>>

\* The worker refuses: somebody was first, or another fleet still owns the
\* device.  A rejected publish is not fatal by itself.
Rejected(d) ==
  /\ call[d] = "founding"
  /\ call' = [call EXCEPT ![d] = "refetch"]
  /\ UNCHANGED <<slotVars, generations, sure, readerVars, successionVars>>

\* The post is lost, or its reply: then it is written later.
GivesUpWaiting(d) ==
  /\ call[d] = "posted"
  /\ call' = [call EXCEPT ![d] = "refetch"]
  /\ post' \in {post, [post EXCEPT ![d] = NoChain]}
  /\ UNCHANGED <<stored, freed, generations, sure, readerVars, successionVars>>

\* "Trust the network, not ourselves": only the chain that is stored counts.
Bug_TrustsItself(d) ==
  /\ call[d] = "refetch"
  /\ Answers(d, "ok")
  /\ UNCHANGED <<slotVars, generations, readerVars, successionVars>>
Refetches(d) ==
  /\ call[d] = "refetch"
  /\ IF Folds(stored) THEN Judges(d) ELSE Answers(d, "refused")
  /\ UNCHANGED <<slotVars, generations, readerVars, successionVars>>

-----------------------------------------------------------------------------
(* Members change the fleet: an extension of what is stored is admitted.   *)

\* The bound leaves room to unlock who was locked.
Room(kind) ==
  LET counted == {i \in DOMAIN stored : stored[i].kind # "unlock"}
  IN  kind = "unlock" \/ Cardinality(counted) + generations <= MaxOps

Appends(by, kind, d) ==
  /\ Folds(stored) /\ Room(kind)
  /\ by \in Members(stored) \ locked_out(stored)
  /\ post[by] = NoChain /\ call[by] \in Resting
  /\ post' = [post EXCEPT ![by] = Append(stored, Operation(kind, d, by, stamp_after(stored, Clock[by])))]
  /\ UNCHANGED <<stored, freed, ensureVars, readerVars, successionVars>>

Add(by, d) == d \notin Members(stored) /\ Appends(by, "add", d)
Depart(by) == Appends(by, "remove", by)
ConsentedRemove(by, d) == d \in Members(stored) \ {by} /\ Appends(by, "remove", d)
Lock(by, d) == d \in Members(stored) \ (locked_out(stored) \cup {by}) /\ Appends(by, "lock", d)
Unlock(by, d) == d \in locked_out(stored) /\ Appends(by, "unlock", d)

-----------------------------------------------------------------------------
(* Succession. *)

NoRecord == [old |-> NoChain, new |-> NoGenesis, eggs |-> {}]

\* SuccessorRecord::new and publish_successor: a member of the stored chain
\* vouches that it succeeds the chain it had adopted, and may overwrite.
PublishesSuccessor(d) ==
  /\ d \in Reader /\ Folds(stored) /\ d \in Members(stored)
  /\ Folds(adopted[d]) /\ Genesis(adopted[d]) # Genesis(stored)
  /\ succession' = [old |-> adopted[d], new |-> Genesis(stored), eggs |-> {d}]
  /\ vouched' = vouched \cup {<<Genesis(adopted[d]), Genesis(stored), d>>}
  /\ UNCHANGED <<slotVars, ensureVars, readerVars>>

Bug_AnyoneVouches(record, pinned) == Folds(record.old) /\ Genesis(record.old) = pinned
verify_for_pin(record, pinned) ==
  /\ Folds(record.old)
  /\ Genesis(record.old) = pinned
  /\ record.eggs \cap Members(record.old) # {}

-----------------------------------------------------------------------------
(* Readers. *)

Served == {SubSeq(stored, 1, n) : n \in DOMAIN stored}

\* current_fleet_adopting of the chain that is served, and the landing.
Reads(p, served) ==
  /\ Folds(served)
  /\ pin[p] \in {NoGenesis, Genesis(served)}
  /\ lands(adoption(served, adopted[p])) /\ served # adopted[p]
  /\ adopted' = [adopted EXCEPT ![p] = served]
  /\ pin' = [pin EXCEPT ![p] = Genesis(served)]
  /\ UNCHANGED <<slotVars, ensureVars, successionVars>>

\* A record that verifies moves the pin; the new chain is fetched separately.
Bug_KeepsTheOldChain(p) ==
  /\ verify_for_pin(succession, pin[p])
  /\ pin' = [pin EXCEPT ![p] = succession.new]
  /\ UNCHANGED <<adopted, slotVars, ensureVars, successionVars>>
Migrates(p) ==
  /\ verify_for_pin(succession, pin[p])
  /\ pin' = [pin EXCEPT ![p] = succession.new]
  /\ adopted' = [adopted EXCEPT ![p] = NoChain]
  /\ UNCHANGED <<slotVars, ensureVars, successionVars>>

-----------------------------------------------------------------------------
(* attest_verdict: the chain a device holds, those of its peers, and what  *)
(* the seed says.  The seed's own chain comes first.                       *)

NotFound == [said |-> "not_found", chain |-> NoChain]
Unreachable == [said |-> "unreachable", chain |-> NoChain]
SeedChain(c) == [said |-> "chain", chain |-> c]

Bug_AnyChainDecides(d, chains, seed) ==
  LET ours == {c \in chains \cup {seed.chain} : Folds(c)}
  IN  CASE \E c \in ours : d \in Members(c) -> "Member"
        [] ours # {} -> "JoinOurs"
        [] OTHER -> IF DeadChain \in chains \cup {seed.chain} THEN "Unverifiable" ELSE "Fresh"
attest_verdict(d, chains, seed) ==
  LET seen == chains \cup {seed.chain}
      ours == {c \in seen : Folds(c)}
      best == CHOOSE c \in ours : \A o \in ours : Len(o) < Len(c) \/ (Len(o) = Len(c) /\ (c = seed.chain \/ o # seed.chain))
  IN  CASE ours # {} -> IF d \in Members(best) THEN "Member" ELSE "JoinOurs"
        [] ours = {} /\ DeadChain \in seen -> "Unverifiable"
        [] OTHER -> IF seed.said = "unreachable" THEN "Unreachable" ELSE "Fresh"

-----------------------------------------------------------------------------
FoundingInit ==
  /\ stored \in {NoChain, DeadChain}
  /\ post = [d \in Device |-> NoChain]
  /\ call = [d \in Device |-> "idle"]
  /\ succession = NoRecord
  /\ adopted = [p \in Reader |-> NoChain] /\ pin = [p \in Reader |-> NoGenesis]
  /\ generations = Len(stored) /\ freed = {} /\ sure = {} /\ vouched = {}

Ensures(d) == Looks(d) \/ Founds(d) \/ Rejected(d) \/ GivesUpWaiting(d) \/ Refetches(d)

Changes(d) ==
  \/ Depart(d)
  \/ \E e \in Device : Add(d, e) \/ ConsentedRemove(d, e) \/ Lock(d, e) \/ Unlock(d, e)

FoundingNext ==
  \/ \E d \in Device : Ensures(d) \/ Lands(d) \/ Changes(d) \/ PublishesSuccessor(d)
  \/ Frees
  \/ \E p \in Reader : Migrates(p) \/ \E served \in Served : Reads(p, served)

FoundingSpec == FoundingInit /\ [][FoundingNext]_foundingVars

\* Readers keep asking for the chain, and for a record when it is of another
\* generation; what was admitted is written.
FairFoundingSpec ==
  /\ FoundingSpec
  /\ \A d \in Device : WF_foundingVars(Lands(d))
  /\ \A p \in Reader : WF_foundingVars(Reads(p, stored)) /\ WF_foundingVars(Migrates(p))

-----------------------------------------------------------------------------
(* Properties. *)

\* "Trust the network, not ourselves": a device that was told it is in the fleet,
\* while no post was under way, is named by the chain of that generation for as
\* long as the name is not freed, whoever raced it and whatever replies were lost.
FoundersStand ==
  \A told \in sure :
    LET d == told[1]
        genesis == told[2]
    IN  genesis \in freed \/ (Genesis(stored) = genesis /\ d \in Named(stored))

\* What a reader adopted only grows, and its pin moves to another generation only
\* on the word of a device that belonged to the one it trusted: a re-claimant of a
\* freed name is a stranger, also one that publishes a record.
PinsAreVouched ==
  [][\A p \in Reader :
       /\ pin[p] # NoGenesis /\ pin'[p] # pin[p] =>
            \E d \in Device : <<pin[p], pin'[p], d>> \in vouched /\ d \in Members(succession.old)
       /\ adopted[p] # NoChain /\ pin'[p] = pin[p] => extends(adopted'[p], adopted[p])
       /\ adopted'[p] # NoChain => Genesis(adopted'[p]) = pin'[p]]_foundingVars

\* A reader that trusts the stored generation and saw no fork holds the stored
\* chain in the end: no stamp, no lag and no succession leaves it behind.
ReadersCatchUp ==
  \A p \in Reader :
    <>[](/\ Folds(stored) /\ pin[p] = Genesis(stored)
         /\ adoption(stored, adopted[p]) \notin {"Fork", "Stale"})
      => []<>(adopted[p] = stored)

\* When the seed answers with what is stored and nobody holds more than a copy of
\* it that lags, the verdict is the truth, and a name is free only if no fleet
\* holds it.  Silence of the seed never frees a name.
Lags(c) == c = NoChain \/ (Folds(stored) /\ extends(stored, c))
VerdictIsTrue ==
  \A d \in Device, held \in SUBSET Reader :
    LET chains == {adopted[p] : p \in held}
        truth == IF ~Folds(stored) THEN IF stored = DeadChain THEN "Unverifiable" ELSE "Fresh"
                 ELSE IF d \in Members(stored) THEN "Member" ELSE "JoinOurs"
        answers == IF stored = NoChain THEN {NotFound, SeedChain(NoChain)} ELSE {SeedChain(stored)}
    IN  /\ (\A c \in chains : Lags(c)) => \A a \in answers : attest_verdict(d, chains, a) = truth
        /\ attest_verdict(d, chains, Unreachable) # "Fresh"

\* Who was a member at an instant that is past is not changed by operations
\* appended since, but for a device that was or is locked out: a record signed
\* then is judged by the fleet it was signed in, however the clocks differ.
HistoryStands ==
  [][\A p \in Reader :
       (adopted[p] # NoChain /\ extends(adopted'[p], adopted[p])) =>
         \A d \in Device, t \in 0..(adopted[p][Len(adopted[p])].time - 1) :
           d \in locked_out(adopted[p]) \cup locked_out(adopted'[p])
             \/ was_member_at(adopted'[p], d, t) = was_member_at(adopted[p], d, t)]_foundingVars
=============================================================================

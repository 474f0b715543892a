------------------------- MODULE PhonebookRegistry --------------------------
(***************************************************************************)
(* The primary registry of one identity (src/phonebook.rs, RegistryView    *)
(* and registry_plan): a count and a dense run of device pointers, which   *)
(* any member of the fleet may bring in line with the folded chain.        *)
(* Siblings race: each reads the registry, plans the records that would    *)
(* converge it and writes them one at a time, with an epoch, into storage  *)
(* that keeps the newest record of each key (Slice.insert).  A sibling may *)
(* plan with a fold that has been overtaken, and may stop half way.        *)
(*                                                                         *)
(* Abstractions.  Records are signed by whoever writes them and verify; a  *)
(* registry is read at once.  Storage and the fetching of the chain belong *)
(* to the applications.                                                    *)
(***************************************************************************)
EXTENDS Integers, FiniteSets, SequencesExt

CONSTANTS
  Pubkey,      \* devices, by their public keys
  Founders,    \* the fold at the start, in order of insertion
  Sibling,     \* the devices that keep the registry
  Joiner,      \* the devices that may join
  Leaver,      \* the devices that may leave
  MaxPlans     \* bound: how many plans are made

ASSUME RegistryAssumption ==
  /\ Founders \in Seq(Pubkey) /\ Founders # <<>> /\ IsInjective(Founders)
  /\ IsFiniteSet(Pubkey)
  /\ Sibling \subseteq Pubkey /\ Joiner \subseteq Pubkey /\ Leaver \subseteq Pubkey
  /\ MaxPlans \in Nat

VARIABLES
  fold,       \* the members of the chain, in order of insertion
  seen,       \* the fold each sibling last computed
  count,      \* the stored count record
  pointers,   \* the stored pointer record of each index
  epoch,      \* the newest epoch handed out
  plan,       \* the records each sibling has yet to write
  (* history, read by properties only *)
  alone       \* siblings whose plan nothing came between

registryVars == <<fold, seen, count, pointers, epoch, plan, alone>>

None == [epoch |-> 0]
\* A plan adds to the run what it finds missing, so MaxPlans plans add no more.
Index == 1..MaxPlans * Cardinality(Pubkey)

\* RegistryView: the run of pointers the count covers.
View == [i \in 1..(IF count = None THEN 0 ELSE count.n) |-> pointers[i]]
devices == [i \in DOMAIN View |-> View[i].device]

-----------------------------------------------------------------------------
(* registry_plan *)

\* The k-th of a set of positions, and the entries of a list at those positions.
Nth(S, k) == CHOOSE x \in S : Cardinality({y \in S : y <= x}) = k
Entries(list, S) == [k \in 1..Cardinality(S) |-> list[Nth(S, k)]]

\* Pop-and-swap: holes are filled from the tail, and the run stays dense.
Bug_TailUnchecked(list, ms) ==
  LET n == Cardinality({p \in DOMAIN list : list[p] \in ms})
  IN  [p \in 1..n |-> IF list[p] \in ms THEN list[p] ELSE list[Len(list)]]
Pruned(list, ms) ==
  LET kept == {p \in DOMAIN list : list[p] \in ms}
      n == Cardinality(kept)
      holes(p) == Cardinality((1..p) \ kept)
  IN  [p \in 1..n |-> IF p \in kept THEN list[p] ELSE list[Nth(kept, n + 1 - holes(p))]]

Converged(list, ms) ==
  LET left == Pruned(list, ToSet(ms))
  IN  left \o Entries(ms, {i \in DOMAIN ms : ms[i] \notin ToSet(left)})

Pointer(i, d) == [index |-> i, device |-> d]
Count(n) == [count |-> n]

\* The pointers that change, in index order, and then the count, unless
\* there is nothing to write.
Stale(list) == {i \in DOMAIN list : i \notin DOMAIN devices \/ devices[i] # list[i]}
PointersTo(list) ==
  [j \in 1..Cardinality(Stale(list)) |-> LET i == Nth(Stale(list), j) IN Pointer(i, list[i])]
CountIs(n) == count # None /\ count.n = n

Bug_CountFirst(ms) ==
  LET list == Converged(devices, ms)
  IN  IF Stale(list) = {} /\ CountIs(Len(list)) THEN <<>>
      ELSE <<Count(Len(list))>> \o PointersTo(list)
Bug_CountOnlyWithPointers(ms) ==
  LET list == Converged(devices, ms)
  IN  IF Stale(list) = {} THEN <<>> ELSE PointersTo(list) \o <<Count(Len(list))>>
registry_plan(ms) ==
  LET list == Converged(devices, ms)
  IN  IF Stale(list) = {} /\ CountIs(Len(list)) THEN <<>>
      ELSE PointersTo(list) \o <<Count(Len(list))>>

-----------------------------------------------------------------------------
(* The chain moves on, and siblings follow it. *)

Join(d) ==
  /\ d \notin ToSet(fold)
  /\ fold' = Append(fold, d)
  /\ UNCHANGED <<seen, count, pointers, epoch, plan, alone>>

Leave(d) ==
  /\ d \in ToSet(fold) /\ Len(fold) > 1
  /\ fold' = Entries(fold, {i \in DOMAIN fold : fold[i] # d})
  /\ UNCHANGED <<seen, count, pointers, epoch, plan, alone>>

Learn(m) ==
  /\ seen[m] # fold
  /\ seen' = [seen EXCEPT ![m] = fold]
  /\ UNCHANGED <<fold, count, pointers, epoch, plan, alone>>

NoPlan == [writes |-> <<>>, epoch |-> 0, goal |-> <<>>]
Done(m) == plan[m].writes = <<>>

\* A current member, as far as it knows, plans with the time as the epoch.
Plan(m) ==
  /\ Done(m)
  /\ m \in ToSet(seen[m])
  /\ epoch < MaxPlans
  /\ registry_plan(seen[m]) # <<>>
  /\ epoch' = epoch + 1
  /\ plan' = [plan EXCEPT ![m] =
       [writes |-> registry_plan(seen[m]), epoch |-> epoch + 1, goal |-> seen[m]]]
  /\ alone' = alone \cup {m}
  /\ UNCHANGED <<fold, seen, count, pointers>>

\* Storage replaces a record by a strictly newer one only.
Newer(new, old) == new > old

Write(m) ==
  /\ ~Done(m)
  /\ LET w == Head(plan[m].writes)
         e == plan[m].epoch
         stored == IF "count" \in DOMAIN w THEN count.epoch ELSE pointers[w.index].epoch
     IN  \/ /\ Newer(e, stored)
            /\ IF "count" \in DOMAIN w
               THEN count' = [n |-> w.count, epoch |-> e] /\ UNCHANGED pointers
               ELSE /\ pointers' = [pointers EXCEPT ![w.index] = [device |-> w.device, epoch |-> e]]
                    /\ UNCHANGED count
            /\ alone' = alone \cap {m}
         \/ /\ ~Newer(e, stored)
            /\ alone' = alone \ {m}
            /\ UNCHANGED <<count, pointers>>
  /\ plan' = [plan EXCEPT ![m].writes = Tail(@)]
  /\ UNCHANGED <<fold, seen, epoch>>

\* The application stops, or a post fails, between two writes.
Stop(m) ==
  /\ ~Done(m)
  /\ plan' = [plan EXCEPT ![m] = NoPlan]
  /\ alone' = alone \ {m}
  /\ UNCHANGED <<fold, seen, count, pointers, epoch>>

-----------------------------------------------------------------------------
RegistryInit ==
  /\ fold = Founders
  /\ seen = [m \in Sibling |-> Founders]
  /\ count = None
  /\ pointers = [i \in Index |-> None]
  /\ epoch = 0
  /\ plan = [m \in Sibling |-> NoPlan]
  /\ alone = {}

RegistryNext ==
  \/ \E d \in Joiner : Join(d)
  \/ \E d \in Leaver : Leave(d)
  \/ \E m \in Sibling : Learn(m) \/ Plan(m) \/ Write(m) \/ Stop(m)

RegistrySpec == RegistryInit /\ [][RegistryNext]_registryVars

-----------------------------------------------------------------------------
(* Properties. *)

\* A reader finds a pointer at every index the count covers, whatever was
\* written, refused or left unwritten: RegistryView::verify can succeed.
RunIsDense ==
  /\ count # None => count.n \in Index
  /\ \A i \in DOMAIN View : View[i] # None

\* "Empty when already in sync": a sibling with nothing to write sees every
\* member of its fold in the registry, and nobody else.
NothingToDoMeansInSync ==
  \A m \in Sibling : registry_plan(seen[m]) = <<>> => ToSet(devices) = ToSet(seen[m])

\* A plan that was written to the end with nothing in between has converged
\* the registry onto the fold it was made for.
UndisturbedPlansConverge ==
  \A m \in alone : Done(m) => ToSet(devices) = ToSet(plan[m].goal)
=============================================================================

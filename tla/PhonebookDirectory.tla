------------------------- MODULE PhonebookDirectory -------------------------
(***************************************************************************)
(* What one slice of the phonebook promises its callers, whatever its      *)
(* layout: a map from keys to the epoch of the record stored under them,   *)
(* where a record is replaced by a strictly newer one only.                *)
(***************************************************************************)
EXTENDS Integers

CONSTANTS Key, Here, MaxEpoch

VARIABLES
  book,      \* the epoch stored under each key, 0 when there is none
  outcome    \* what the last call was about and returned

Returned(k, result) == [key |-> k, result |-> result]

DirectoryInit ==
  /\ book = [k \in Key |-> 0]
  /\ outcome = Returned(-1, "none")

Accept(k, e) ==
  /\ outcome' = Returned(k, "ok")
  /\ k \in Here /\ e > book[k]
  /\ book' = [book EXCEPT ![k] = e]

\* A record under a key that is there is never turned away for want of room.
Refuse(k, e) ==
  /\ \/ outcome' = Returned(k, "wrong_slice") /\ k \notin Here
     \/ outcome' = Returned(k, "full") /\ k \in Here /\ book[k] = 0
     \/ outcome' = Returned(k, "stale") /\ k \in Here /\ book[k] >= e
  /\ UNCHANGED book

Forget(k) ==
  /\ \/ outcome' = Returned(k, "absent") /\ book[k] = 0
     \/ outcome' = Returned(k, "removed") /\ book[k] # 0
  /\ book' = [book EXCEPT ![k] = 0]

\* The whole slice is replaced by one that another host sent.
Replace ==
  /\ outcome' = Returned(-1, "adopted")
  /\ book' \in [Key -> 0..MaxEpoch]

DirectoryNext ==
  \/ \E k \in Key : \E e \in 1..MaxEpoch : Accept(k, e) \/ Refuse(k, e)
  \/ \E k \in Key : Forget(k)
  \/ Replace

Directory == DirectoryInit /\ [][DirectoryNext]_<<book, outcome>>
=============================================================================

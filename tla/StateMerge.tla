----------------------------- MODULE StateMerge -----------------------------
(***************************************************************************)
(* MergeUsableSuccessFrom, one record at a time.                           *)
(*                                                                         *)
(* The loop takes the usable successes of another store in the order of a  *)
(* Go map, which is any order, and merges each into the store.  StateStore *)
(* gives the outcome in one operator, MergeAll; here the loop is run.      *)
(***************************************************************************)
EXTENDS StateStore

CONSTANT Records   \* the records a store may hold

ASSUME RecordsConstants ==
  /\ IsFiniteSet(Records)
  /\ \A r \in Records : r.obs \in Int /\ r.reset \in Int

VARIABLES
  store,   \* the store merged into
  before,  \* what it held when the merge began
  from,    \* the other store
  todo     \* the records still to be merged

vars == <<store, before, from, todo>>

Stores == {s \in SUBSET Records : \A q, r \in s : Key(q) = Key(r) => q = r}

TypeOK ==
  /\ {store, before, from} \subseteq Stores
  /\ todo \subseteq from

Init ==
  /\ store \in Stores
  /\ before = store
  /\ from \in Stores
  /\ todo = UsableSuccesses(from)

Merge(r) ==
  /\ store' = MergeUsableRecord(store, r)
  /\ todo' = todo \ {r}
  /\ UNCHANGED <<before, from>>

Next == \E r \in todo : Merge(r)

Spec == Init /\ [][Next]_vars

-----------------------------------------------------------------------------
(* Properties *)

\* The loop ends in one of the stores MergeAll names, whatever the order
\* (MergeUsableSuccessFrom); Activation uses the operator in its place.
LoopMatchesMergeAll ==
  todo = {} => store \in MergeAll(before, UsableSuccesses(from))

\* A group that had a usable success keeps the very same one (merge.go: what
\* the disk has for the group wins), whether it was its own or an old
\* ungrouped one, and whatever else is merged.
DiskFirst ==
  \A r \in before \cup from :
    LET had == UsableLatest(before, r.auth, r.group)
    IN had # {} => UsableLatest(store, r.auth, r.group) = had

\* A group that had no usable success gets the one of the other store
\* (merge.go: if s has no usable success for the group yet, the record of src
\* is copied).  An ungrouped record merged before it breaks this.
MissingIsCopied ==
  todo = {} =>
    \A r \in UsableSuccesses(from) :
      UsableLatest(before, r.auth, r.group) = {}
        => UsableLatest(store, r.auth, r.group) = {r}

=============================================================================

------------------------- MODULE StateMerge_proofs --------------------------
(***************************************************************************)
(* What the disk has wins, and the loop over the records of the other      *)
(* store ends in one of the stores MergeAll names, whatever the order and  *)
(* whatever the records.                                                   *)
(*                                                                         *)
(* The invariant says which records the loop has added: they were missing  *)
(* before, and whatever of the missing ones it has passed over was covered *)
(* by an ungrouped record of the same credential.                          *)
(***************************************************************************)
EXTENDS StateMerge, StateStore_proofs

\* A group that had a usable success still has the same one.
DiskInv ==
  \A a, g : UsableLatest(before, a, g) # {}
              => UsableLatest(store, a, g) = UsableLatest(before, a, g)

-----------------------------------------------------------------------------

LEMMA FromIsUsable ==
  ASSUME NEW s
  PROVE  UsableSuccesses(s) \subseteq s /\ \A r \in UsableSuccesses(s) : Usable(r)
BY QueryFinds DEF UsableSuccesses

LEMMA TypesInductive == Spec => []TypeOK
<1>1. Init => TypeOK
  BY FromIsUsable DEF Init, TypeOK
<1>2. TypeOK /\ [Next]_vars => TypeOK'
  <2> SUFFICES ASSUME TypeOK, [Next]_vars PROVE TypeOK'
    OBVIOUS
  <2>1. CASE UNCHANGED vars
    BY <2>1 DEF vars, TypeOK
  <2>2. ASSUME NEW r \in todo, Merge(r) PROVE TypeOK'
    <3>1. r \in Records
      BY <2>2 DEF TypeOK, Stores
    <3>2. store' \in Stores
      <4>1. store' \in {store, Upsert(store, r)}
        BY <2>2 DEF Merge, MergeUsableRecord
      <4>2. Upsert(store, r) \in Stores
        BY <3>1 DEF TypeOK, Stores, Upsert
      <4> QED BY <4>1, <4>2 DEF TypeOK
    <3> QED BY <2>2, <3>2 DEF Merge, TypeOK
  <2> QED BY <2>1, <2>2 DEF Next
<1> QED BY <1>1, <1>2, PTL DEF Spec

\* One record merged leaves what was found for any group.
LEMMA MergeKeeps ==
  ASSUME NEW s, NEW r, NEW a, NEW g, UsableLatest(s, a, g) # {}
  PROVE  UsableLatest(MergeUsableRecord(s, r), a, g) = UsableLatest(s, a, g)
<1>1. SUFFICES ASSUME Usable(r), UsableLatest(s, r.auth, r.group) = {}
               PROVE  UsableLatest(Upsert(s, r), a, g) = UsableLatest(s, a, g)
  BY DEF MergeUsableRecord
<1>2. ASSUME NEW h, UsableLatest(s, a, h) # {}
      PROVE  Successes(UsableOf(Upsert(s, r)), a, h) = Successes(UsableOf(s), a, h)
  <2>1. r.auth # a \/ r.group # h
    BY <1>1, <1>2
  <2> QED BY <2>1, KeyTarget DEF Successes, Upsert, UsableOf
<1> QED BY <1>2, OthersChangeNothing

LEMMA DiskInductive == Spec => []DiskInv
<1>1. Init => DiskInv
  BY DEF Init, DiskInv
<1>2. DiskInv /\ [Next]_vars => DiskInv'
  <2> SUFFICES ASSUME DiskInv, [Next]_vars PROVE DiskInv'
    OBVIOUS
  <2>1. CASE UNCHANGED vars
    BY <2>1 DEF vars, DiskInv
  <2>2. ASSUME NEW r \in todo, Merge(r) PROVE DiskInv'
    <3>1. store' = MergeUsableRecord(store, r) /\ before' = before
      BY <2>2 DEF Merge
    <3>2. ASSUME NEW a, NEW g, UsableLatest(before, a, g) # {}
          PROVE  UsableLatest(store', a, g) = UsableLatest(before, a, g)
      <4>1. UsableLatest(store, a, g) = UsableLatest(before, a, g)
        BY <3>2 DEF DiskInv
      <4> QED BY <3>1, <3>2, <4>1, MergeKeeps
    <3> QED BY <3>1, <3>2 DEF DiskInv
  <2> QED BY <2>1, <2>2 DEF Next
<1> QED BY <1>1, <1>2, PTL DEF Spec

\* Stores stay sets of known records, no two with one key (store.go).
THEOREM StoresStayStores == Spec => []TypeOK
BY TypesInductive

\* A group that had a usable success keeps the very same one, its own or an
\* ungrouped one, whatever is merged and in whatever order (merge.go: what the
\* disk has for the group wins).
THEOREM DiskWins == Spec => []DiskFirst
<1>1. DiskInv => DiskFirst
  BY DEF DiskInv, DiskFirst
<1> QED BY <1>1, DiskInductive, PTL

-----------------------------------------------------------------------------
(* The loop and MergeAll *)

\* What the outcome asks of the records: the newest usable success of a group
\* is one record.
NoTies == Untied(Records)

\* Any store of records is finite, and its times are numbers.
LEMMA StoresAreFinite ==
  ASSUME NEW s \in SUBSET Records
  PROVE  IsFiniteSet(s) /\ Timed(s)
BY RecordsConstants, FS_Subset DEF Timed

\* The records handed over are one for each auth and group.
LEMMA OneEach ==
  ASSUME NoTies, NEW s \in SUBSET Records,
         NEW q \in UsableSuccesses(s), NEW r \in UsableSuccesses(s),
         q.auth = r.auth, q.group = r.group
  PROVE  q = r
<1> DEFINE U == UsableOf(s)
<1>1. ASSUME NEW x \in UsableSuccesses(s)
      PROVE  x \in Newest(Successes(U, x.auth, x.group))
  <2>1. PICK y \in s : x \in UsableLatest(s, y.auth, y.group)
    BY DEF UsableSuccesses
  <2>2. \/ x \in Newest(Successes(U, y.auth, y.group))
        \/ x \in Newest(Successes(U, y.auth, NoGroup))
    BY <2>1 DEF UsableLatest, PickLatest, UsableOf
  <2> QED BY <2>2 DEF Newest, Successes
<1>2. /\ q \in Newest(Successes(U, q.auth, q.group))
      /\ r \in Newest(Successes(U, q.auth, q.group))
  BY <1>1
<1>3. ~Newer(q, r) /\ ~Newer(r, q)
  BY <1>2 DEF Newest
<1>4. q \in Records /\ r \in Records /\ Usable(q) /\ Usable(r)
  BY FromIsUsable
<1>5. q.obs = r.obs /\ q.reset = r.reset
  BY <1>3, <1>4, RecordsConstants DEF Newer
<1> QED BY <1>4, <1>5 DEF NoTies, Untied

Merged == UsableSuccesses(from)
Fresh == {r \in Merged : Usable(r) /\ UsableLatest(before, r.auth, r.group) = {}}
Covered(r) == \E q \in Fresh : q # r /\ q.auth = r.auth /\ q.group = NoGroup
With(kept) == {q \in before : \A r \in kept : Key(q) # Key(r)} \cup kept

LoopInv ==
  /\ todo \subseteq Merged
  /\ \E kept \in SUBSET (Fresh \ todo) :
       store = With(kept) /\ \A r \in Fresh \ (todo \cup kept) : Covered(r)

\* A record that is kept was missing before, and takes the place of nothing kept.
LEMMA KeptWasFresh ==
  ASSUME NoTies, TypeOK, DiskInv, NEW kept \in SUBSET (Fresh \ todo), store = With(kept),
         NEW r \in todo, todo \subseteq Merged,
         UsableLatest(store, r.auth, r.group) = {}
  PROVE  r \in Fresh /\ Upsert(store, r) = With(kept \cup {r})
<1>1. r \in Merged /\ Usable(r)
  BY FromIsUsable DEF Merged
<1>2. UsableLatest(before, r.auth, r.group) = {}
  BY DEF DiskInv
<1>3. ASSUME NEW q \in kept PROVE Key(q) # Key(r)
  <2>1. q \in Merged /\ q # r
    BY DEF Fresh
  <2> QED BY <1>1, <2>1, KeyTarget, OneEach DEF TypeOK, Stores, Merged
<1>4. Upsert(store, r) = With(kept \cup {r})
  BY <1>3 DEF With, Upsert
<1> QED BY <1>1, <1>2, <1>4 DEF Fresh

\* A missing record that is passed over is covered by an ungrouped one.
LEMMA PassedIsCovered ==
  ASSUME NoTies, TypeOK, NEW kept \in SUBSET (Fresh \ todo), store = With(kept),
         NEW r \in todo, todo \subseteq Merged, r \in Fresh,
         UsableLatest(store, r.auth, r.group) # {}
  PROVE  Covered(r)
<1>1. PICK x : x \in UsableLatest(store, r.auth, r.group)
  OBVIOUS
<1>2. /\ x \in store /\ Usable(x) /\ x.auth = r.auth
      /\ x.group = r.group \/ x.group = NoGroup
  BY <1>1, QueryFinds
<1>3. x \notin before
  <2>1. UsableLatest(before, r.auth, r.group) = {} /\ before \in SUBSET Records
    BY DEF Fresh, TypeOK, Stores
  <2> QED BY <1>2, <2>1, FoundIfThere, StoresAreFinite
<1>4. x \in kept /\ x \in Merged /\ x \in Fresh /\ x # r
  BY <1>2, <1>3 DEF With, Fresh
<1>5. x.group # r.group
  BY <1>2, <1>4, OneEach DEF TypeOK, Stores, Merged
<1> QED BY <1>2, <1>4, <1>5 DEF Covered

LEMMA LoopInductive == ASSUME NoTies PROVE Spec => []LoopInv
<1>1. ASSUME TypeOK, DiskInv, LoopInv, [Next]_vars PROVE LoopInv'
  <2>1. CASE UNCHANGED vars
    <3>1. PICK kept \in SUBSET (Fresh \ todo) :
            store = With(kept) /\ \A q \in Fresh \ (todo \cup kept) : Covered(q)
      BY <1>1 DEF LoopInv
    <3>2. /\ UNCHANGED <<todo, store, Merged, Fresh>>
          /\ \A q : Covered(q)' <=> Covered(q)
          /\ With(kept)' = With(kept)
      BY <2>1 DEF vars, Merged, Fresh, Covered, With
    <3>3. todo \subseteq Merged
      BY <1>1 DEF LoopInv
    <3>4. kept \in SUBSET (Fresh' \ todo') /\ store' = With(kept)'
          /\ \A q \in Fresh' \ (todo' \cup kept) : Covered(q)'
      BY <3>1, <3>2
    <3> QED BY <3>2, <3>3, <3>4 DEF LoopInv
  <2>2. ASSUME NEW r \in todo, Merge(r) PROVE LoopInv'
    <3>1. PICK kept \in SUBSET (Fresh \ todo) :
            store = With(kept) /\ \A q \in Fresh \ (todo \cup kept) : Covered(q)
      BY <1>1 DEF LoopInv
    <3>2. /\ todo \subseteq Merged /\ todo' = todo \ {r} /\ Usable(r)
          /\ store' = MergeUsableRecord(store, r)
          /\ UNCHANGED <<Merged, Fresh>>
          /\ \A q : Covered(q)' <=> Covered(q)
          /\ \A K : With(K)' = With(K)
      BY <1>1, <2>2, FromIsUsable DEF LoopInv, Merge, Merged, Fresh, Covered, With
    <3>3. CASE UsableLatest(store, r.auth, r.group) = {}
      <4>1. r \in Fresh /\ store' = With(kept \cup {r})
        BY <1>1, <3>1, <3>2, <3>3, KeptWasFresh DEF MergeUsableRecord
      <4> DEFINE more == kept \cup {r}
      <4>2. more \in SUBSET (Fresh \ todo')
        BY <3>2, <4>1
      <4>3. \A q \in Fresh \ (todo' \cup more) : Covered(q)
        BY <3>1, <3>2
      <4>4. store' = With(more)'
        BY <3>2, <4>1
      <4> HIDE DEF more
      <4> QED BY <3>2, <4>2, <4>3, <4>4 DEF LoopInv
    <3>4. CASE UsableLatest(store, r.auth, r.group) # {}
      <4>1. store' = store
        BY <3>2, <3>4 DEF MergeUsableRecord
      <4>2. r \in Fresh => Covered(r)
        BY <1>1, <3>1, <3>2, <3>4, PassedIsCovered
      <4>3. \A q \in Fresh \ (todo' \cup kept) : Covered(q)
        BY <3>1, <3>2, <4>2
      <4>4. kept \in SUBSET (Fresh \ todo') /\ store' = With(kept)'
        BY <3>1, <3>2, <4>1
      <4> QED BY <3>2, <4>3, <4>4 DEF LoopInv
    <3> QED BY <3>3, <3>4
  <2> QED BY <1>1, <2>1, <2>2 DEF Next
<1>2. Init => LoopInv
  <2> SUFFICES ASSUME Init PROVE LoopInv
    OBVIOUS
  <2> DEFINE none == {}
  <2>1. none \in SUBSET (Fresh \ todo) /\ store = With(none)
    BY DEF Init, With
  <2>2. \A r \in Fresh \ (todo \cup none) : Covered(r)
    BY DEF Init, Fresh, Merged
  <2> HIDE DEF none
  <2> QED BY <2>1, <2>2 DEF LoopInv, Init, Merged
<1> QED BY <1>1, <1>2, TypesInductive, DiskInductive, PTL DEF Spec

\* The loop of MergeUsableSuccessFrom ends in one of the stores MergeAll names,
\* in whatever order the map hands out the records, for any records without
\* ties: the operator can stand for the loop.
THEOREM LoopIsMergeAll == ASSUME NoTies PROVE Spec => []LoopMatchesMergeAll
<1>1. ASSUME LoopInv, todo = {} PROVE store \in MergeAll(before, UsableSuccesses(from))
  <2>1. PICK kept \in SUBSET Fresh :
          store = With(kept) /\ \A r \in Fresh \ kept : Covered(r)
    BY <1>1 DEF LoopInv
  <2> DEFINE Shadowed == {r \in Fresh : \E q \in Fresh :
                            q # r /\ q.auth = r.auth /\ q.group = NoGroup}
             late == Fresh \ kept
  <2>2. late \in SUBSET Shadowed /\ Fresh \ late = kept
    BY <2>1 DEF Covered
  <2>3. MergeAll(before, UsableSuccesses(from)) = {With(Fresh \ l) : l \in SUBSET Shadowed}
    BY DEF MergeAll, With, Fresh, Merged
  <2>4. With(Fresh \ late) = store
    BY <2>1, <2>2
  <2> QED BY <2>2, <2>3, <2>4
<1>2. LoopInv => LoopMatchesMergeAll
  BY <1>1 DEF LoopMatchesMergeAll
<1> QED BY <1>2, LoopInductive, PTL

\* Without ties and without credentials that have both grouped and ungrouped
\* records, every group the disk lacks gets the success of the other store
\* (merge.go: the record of src is copied): only the records from before model
\* groups break that.
THEOREM MissingArrives ==
  ASSUME NoTies,
         \A q, r \in Records : q.auth = r.auth /\ q.group = NoGroup => r.group = NoGroup
  PROVE  Spec => []MissingIsCopied
<1>1. ASSUME TypeOK, LoopMatchesMergeAll, todo = {}, NEW r \in UsableSuccesses(from),
             UsableLatest(before, r.auth, r.group) = {}
      PROVE  UsableLatest(store, r.auth, r.group) = {r}
  <2>1. before \in SUBSET Records /\ from \in SUBSET Records
    BY <1>1 DEF TypeOK, Stores
  <2>2. r \in from /\ Usable(r)
    BY <1>1, FromIsUsable
  <2>3. \A q \in from : q.auth = r.auth /\ q.group = NoGroup => r.group = NoGroup
    BY <2>1, <2>2
  <2>4. r \in UsableLatest(from, r.auth, r.group)
    <3>1. r \in Newest(Successes(UsableOf(from), r.auth, r.group))
      BY <1>1, HandedOut DEF UsableOf
    <3>2. Successes(UsableOf(from), r.auth, r.group) # {}
      BY <3>1 DEF Newest
    <3> QED BY <3>1, <3>2 DEF UsableLatest, PickLatest, UsableOf
  <2>5. Untied(from)
    BY <2>1 DEF NoTies, Untied
  <2>6. store \in MergeAll(before, UsableSuccesses(from))
    BY <1>1 DEF LoopMatchesMergeAll
  <2>7. IsFiniteSet(before) /\ Timed(before) /\ Timed(from)
    BY <2>1, StoresAreFinite
  <2> DEFINE a == r.auth
             g == r.group
  <2>8. UsableLatest(before, a, g) = {} /\ r \in UsableLatest(from, a, g)
        /\ \A q \in from : q.auth = a /\ q.group = NoGroup => g = NoGroup
    BY <1>1, <2>3, <2>4
  <2> HIDE DEF a, g
  <2>9. UsableLatest(store, a, g) = {r}
    BY <2>5, <2>6, <2>7, <2>8, MergeAllBrings
  <2> QED BY <2>9 DEF a, g
<1>2. TypeOK /\ LoopMatchesMergeAll => MissingIsCopied
  BY <1>1 DEF MissingIsCopied
<1> QED BY <1>2, StoresStayStores, LoopIsMergeAll, PTL

=============================================================================

------------------------- MODULE StateStore_proofs --------------------------
(***************************************************************************)
(* Lemmas about the queries and merges of StateStore, for stores of any    *)
(* size.                                                                   *)
(***************************************************************************)
EXTENDS StateStore, FiniteSetTheorems, WellFoundedInduction, TLAPS

\* The fields the queries compare are numbers.
Timed(s) == \A r \in s : r.obs \in Int /\ r.reset \in Int

\* r is a success, and every other success of its auth and group is older.
IsNewest(s, r) ==
  /\ r \in s
  /\ r.result = "success"
  /\ \A q \in s :
       q.auth = r.auth /\ q.group = r.group /\ q.result = "success" /\ q # r
         => q.obs < r.obs

\* Two records with one key belong to one auth and group (store.go: key).
LEMMA KeyTarget ==
  ASSUME NEW q, NEW r, Key(q) = Key(r)
  PROVE  q.auth = r.auth /\ q.group = r.group
BY DEF Key

\* The query finds exactly the newest success (model_group.go:
\* pickLatestSuccessQuery).
LEMMA PicksNewest ==
  ASSUME NEW s, Timed(s), NEW r, IsNewest(s, r)
  PROVE  PickLatest(s, r.auth, r.group) = {r}
<1> DEFINE S == Successes(s, r.auth, r.group)
<1>1. r \in S
  BY DEF IsNewest, Successes
<1>2. \A q \in S : q # r => q.obs < r.obs
  BY DEF IsNewest, Successes
<1>3. \A q \in S : q.obs \in Int /\ q.reset \in Int
  BY DEF Timed, Successes
<1>4. r \in Newest(S)
  BY <1>1, <1>2, <1>3 DEF Newest, Newer
<1>5. \A q \in Newest(S) : q = r
  BY <1>1, <1>2, <1>3 DEF Newest, Newer
<1>6. Newest(S) = {r}
  BY <1>4, <1>5
<1> QED BY <1>1, <1>6 DEF PickLatest

\* Each usable success a store hands out is its own, is usable, and is a
\* newest one of its auth and group, whichever group was asked for (merge.go:
\* usableSuccessRecords).
LEMMA HandedOut ==
  ASSUME NEW s, NEW q \in UsableSuccesses(s)
  PROVE  /\ q \in s
         /\ Usable(q)
         /\ q \in Newest(Successes({p \in s : Usable(p)}, q.auth, q.group))
<1> DEFINE U == {p \in s : Usable(p)}
<1>1. PICK p \in s : q \in PickLatest(U, p.auth, p.group)
  BY DEF UsableSuccesses, UsableLatest
<1>2. \/ q \in Newest(Successes(U, p.auth, p.group))
      \/ q \in Newest(Successes(U, p.auth, NoGroup))
  BY <1>1 DEF PickLatest
<1>3. ASSUME NEW g, q \in Newest(Successes(U, p.auth, g))
      PROVE  q \in U /\ q.auth = p.auth /\ q.group = g
  BY <1>3 DEF Newest, Successes
<1> QED BY <1>2, <1>3

\* The activator's gate finds the newest usable success of its store, whatever
\* the cache holds and in whatever order the records are merged, provided the
\* store does not mix grouped and ungrouped records of one auth
\* (usable_cache.go: hardSkipStore).
LEMMA GateFindsNewest ==
  ASSUME NEW s, NEW cache, Timed(s), NEW r, IsNewest(s, r), Usable(r),
         \A q \in s : q.auth = r.auth /\ q.group = NoGroup
                        => r.group = NoGroup,
         NEW view \in GateViews(s, cache)
  PROVE  UsableLatest(view, r.auth, r.group) = {r}
<1> DEFINE U == UsableSuccesses(s)
           Same(q) == q.auth = r.auth /\ q.group = r.group
<1>1. IsNewest({p \in s : Usable(p)}, r) /\ Timed({p \in s : Usable(p)})
  BY DEF IsNewest, Timed
<1>2. UsableLatest(s, r.auth, r.group) = {r}
  BY <1>1, PicksNewest DEF UsableLatest
<1>3. r \in s
  BY DEF IsNewest
<1>4. r \in U
  BY <1>2, <1>3 DEF UsableSuccesses
<1>5. \A q \in U : Same(q) => q = r
  <2> SUFFICES ASSUME NEW q \in U, Same(q) PROVE q = r
      OBVIOUS
  <2>1. q \in Newest(Successes({p \in s : Usable(p)}, r.auth, r.group))
    BY HandedOut
  <2>2. Newest(Successes({p \in s : Usable(p)}, r.auth, r.group)) \subseteq
          PickLatest({p \in s : Usable(p)}, r.auth, r.group)
    <3>1. Newest(Successes({p \in s : Usable(p)}, r.auth, r.group))
            \subseteq Successes({p \in s : Usable(p)}, r.auth, r.group)
      BY DEF Newest
    <3> QED BY <2>1, <3>1 DEF PickLatest
  <2> QED BY <1>2, <2>1, <2>2 DEF UsableLatest
<1>6. \A a, g : UsableLatest({}, a, g) = {}
  BY DEF UsableLatest, PickLatest, Successes, Newest
<1>7. PICK v \in MergeAll({}, U) : view \in MergeAll(v, cache)
  BY DEF GateViews
<1>8. r \in v /\ v \subseteq U
  <2> DEFINE Fresh == {q \in U : Usable(q) /\ UsableLatest({}, q.auth, q.group) = {}}
             Shadowed == {q \in Fresh : \E p \in Fresh :
                            p # q /\ p.auth = q.auth /\ p.group = NoGroup}
  <2>1. r \in Fresh
    BY <1>4, <1>6
  <2>2. r \notin Shadowed
    <3> SUFFICES ASSUME NEW p \in Fresh, p # r, p.auth = r.auth,
                        p.group = NoGroup
                 PROVE  FALSE
        OBVIOUS
    <3>1. p \in s
      BY HandedOut
    <3>2. Same(p)
      BY <3>1
    <3> QED BY <1>5, <3>2
  <2>3. PICK late \in SUBSET Shadowed : v = Fresh \ late
    BY <1>7 DEF MergeAll
  <2> QED BY <2>1, <2>2, <2>3
<1>9. \A q \in v : Usable(q) /\ (Same(q) => q = r)
  BY <1>5, <1>8, HandedOut
<1>10. r.obs \in Int /\ r.reset \in Int /\ r.result = "success"
  BY DEF IsNewest, Timed
<1>11. ASSUME NEW w, r \in w, \A q \in w : Same(q) => q = r
       PROVE  UsableLatest(w, r.auth, r.group) = {r}
  <2>1. IsNewest({p \in w : Usable(p)}, r)
    BY <1>10, <1>11 DEF IsNewest
  <2>2. Successes({p \in w : Usable(p)}, r.auth, r.group) = {r}
    BY <1>10, <1>11 DEF Successes
  <2>3. Newest({r}) = {r}
    BY <1>10 DEF Newest, Newer
  <2> QED BY <2>2, <2>3 DEF UsableLatest, PickLatest
<1>12. r \in view /\ \A q \in view : Same(q) => q = r
  <2> DEFINE Fresh == {q \in cache : Usable(q) /\ UsableLatest(v, q.auth, q.group) = {}}
  <2>1. \A q \in Fresh : ~Same(q)
    BY <1>8, <1>9, <1>11
  <2>2. PICK kept \in SUBSET Fresh :
          view = {q \in v : \A p \in kept : Key(q) # Key(p)} \cup kept
    BY <1>7 DEF MergeAll
  <2>3. \A p \in kept : Key(r) # Key(p)
    BY <2>1, KeyTarget
  <2> QED BY <1>8, <1>9, <2>1, <2>2, <2>3
<1> QED BY <1>11, <1>12

-----------------------------------------------------------------------------
(* What a merge keeps and what it brings *)

UsableOf(s) == {r \in s : Usable(r)}

\* No two usable successes of one auth and group have the same times: of two
\* that have, Go takes the one its map hands out first.
Untied(s) ==
  \A q, r \in s :
    /\ Usable(q) /\ Usable(r)
    /\ q.auth = r.auth /\ q.group = r.group
    /\ q.obs = r.obs /\ q.reset = r.reset
    => q = r

\* What a query finds is in the store.
LEMMA QueryFinds ==
  ASSUME NEW s, NEW a, NEW g, NEW r \in UsableLatest(s, a, g)
  PROVE  /\ r \in s /\ Usable(r) /\ r.auth = a /\ (r.group = g \/ r.group = NoGroup)
         /\ r.result = "success"
BY DEF UsableLatest, PickLatest, Successes, Newest

\* A finite set of records has a newest one.
LEMMA NewestExists ==
  ASSUME NEW S, IsFiniteSet(S), Timed(S), S # {} PROVE Newest(S) # {}
<1> DEFINE Bad == {T \in SUBSET S : T # {} /\ Newest(T) = {}}
<1>1. SUFFICES ASSUME Bad # {} PROVE FALSE
  OBVIOUS
<1>2. IsWellFoundedOn(StrictSubsetOrdering(S), SUBSET S)
  BY FS_StrictSubsetOrderingWellFounded, FS_FiniteSubsetsOfFinite
<1>3. PICK T \in Bad : \A X \in Bad : <<X, T>> \notin StrictSubsetOrdering(S)
  BY <1>1, <1>2, WFMin
<1>4. PICK x \in T : TRUE
  OBVIOUS
<1> DEFINE Rest == T \ {x}
<1>5. Rest \notin Bad
  BY <1>3, <1>4 DEF StrictSubsetOrdering
<1>6. \A r \in T : r.obs \in Int /\ r.reset \in Int
  BY DEF Timed
<1>7. CASE Rest = {}
  <2>1. T = {x} /\ ~Newer(x, x)
    BY <1>4, <1>6, <1>7 DEF Newer
  <2>2. x \in Newest(T)
    BY <2>1 DEF Newest
  <2> QED BY <2>2
<1>8. CASE Rest # {}
  <2>1. PICK m \in Newest(Rest) : TRUE
    BY <1>5, <1>8
  <2>2. m \in T /\ \A q \in Rest : ~Newer(q, m)
    BY <2>1 DEF Newest
  <2>3. CASE Newer(x, m)
    <3>1. ASSUME NEW q \in T PROVE ~Newer(q, x)
      BY <1>4, <1>6, <2>2, <2>3 DEF Newer
    <3> QED BY <3>1, <1>4 DEF Newest
  <2>4. CASE ~Newer(x, m)
    <3>1. \A q \in T : ~Newer(q, m)
      BY <2>2, <2>4
    <3> QED BY <3>1, <2>2 DEF Newest
  <2> QED BY <2>3, <2>4
<1> QED BY <1>7, <1>8

\* Nothing usable is found for a group only where there is nothing.
LEMMA FoundIfThere ==
  ASSUME NEW s, IsFiniteSet(s), Timed(s), NEW x \in s, Usable(x), NEW g,
         x.group = g \/ x.group = NoGroup
  PROVE  UsableLatest(s, x.auth, g) # {}
<1> DEFINE U == UsableOf(s)
<1>1. ASSUME NEW h
      PROVE  IsFiniteSet(Successes(U, x.auth, h)) /\ Timed(Successes(U, x.auth, h))
  <2>1. Successes(U, x.auth, h) \subseteq s
    BY DEF Successes, UsableOf
  <2> QED BY <2>1, FS_Subset DEF Timed
<1>2. x \in Successes(U, x.auth, x.group)
  BY DEF Successes, UsableOf, Usable
<1>3. UsableLatest(s, x.auth, g) = PickLatest(U, x.auth, g)
  BY DEF UsableLatest, UsableOf
<1>4. CASE Successes(U, x.auth, g) # {}
  BY <1>1, <1>3, <1>4, NewestExists DEF PickLatest
<1>5. CASE Successes(U, x.auth, g) = {}
  <2>1. Successes(U, x.auth, NoGroup) # {}
    BY <1>2, <1>5
  <2> QED BY <1>1, <1>3, <1>5, <2>1, NewestExists DEF PickLatest
<1> QED BY <1>4, <1>5

\* Records of other groups do not change what is found for a group; nor does
\* an ungrouped record, unless nothing ungrouped was found before.
LEMMA OthersChangeNothing ==
  ASSUME NEW s, NEW v, NEW a, NEW g, UsableLatest(s, a, g) # {},
         Successes(UsableOf(v), a, g) = Successes(UsableOf(s), a, g),
         \/ Successes(UsableOf(v), a, NoGroup) = Successes(UsableOf(s), a, NoGroup)
         \/ UsableLatest(s, a, NoGroup) = {}
  PROVE  UsableLatest(v, a, g) = UsableLatest(s, a, g)
<1> DEFINE U == UsableOf(s)
           V == UsableOf(v)
<1>1. UsableLatest(s, a, g) = PickLatest(U, a, g)
      /\ UsableLatest(v, a, g) = PickLatest(V, a, g)
      /\ UsableLatest(s, a, NoGroup) = PickLatest(U, a, NoGroup)
  BY DEF UsableLatest, UsableOf
<1>2. CASE Successes(V, a, NoGroup) = Successes(U, a, NoGroup)
  BY <1>1, <1>2 DEF PickLatest
<1>3. CASE UsableLatest(s, a, NoGroup) = {}
  <2>1. Newest(Successes(U, a, NoGroup)) = {}
    BY <1>1, <1>3 DEF PickLatest
  <2>2. Successes(U, a, g) # {}
    BY <1>1, <2>1 DEF PickLatest
  <2> QED BY <1>1, <2>2 DEF PickLatest
<1> QED BY <1>2, <1>3

\* What was found for a group is found after a merge (merge.go: what the store
\* has for the group wins).
LEMMA MergeAllKeeps ==
  ASSUME NEW s, NEW R, NEW v \in MergeAll(s, R), NEW a, NEW g,
         UsableLatest(s, a, g) # {}
  PROVE  UsableLatest(v, a, g) = UsableLatest(s, a, g)
<1> DEFINE Missing == {r \in R : Usable(r) /\ UsableLatest(s, r.auth, r.group) = {}}
<1>1. PICK kept \in SUBSET Missing :
        v = {q \in s : \A r \in kept : Key(q) # Key(r)} \cup kept
  BY DEF MergeAll
<1>2. ASSUME NEW h, UsableLatest(s, a, h) # {}
      PROVE  Successes(UsableOf(v), a, h) = Successes(UsableOf(s), a, h)
  <2>1. \A r \in kept : r.auth # a \/ r.group # h
    BY <1>1, <1>2
  <2> QED BY <1>1, <2>1, KeyTarget DEF Successes, UsableOf
<1> QED BY <1>2, OthersChangeNothing

\* The newest of records without ties is one record.
LEMMA NewestIsOne ==
  ASSUME NEW s, Timed(s), Untied(s), NEW a, NEW g,
         NEW q \in Newest(Successes(UsableOf(s), a, g)),
         NEW r \in Newest(Successes(UsableOf(s), a, g))
  PROVE  q = r
<1>1. /\ q \in s /\ r \in s /\ Usable(q) /\ Usable(r)
      /\ q.auth = r.auth /\ q.group = r.group
      /\ ~Newer(q, r) /\ ~Newer(r, q)
  BY DEF Newest, Successes, UsableOf
<1>2. q.obs = r.obs /\ q.reset = r.reset
  BY <1>1 DEF Newer, Timed
<1> QED BY <1>1, <1>2 DEF Untied

\* A group for which a store has nothing gets the success of the store that is
\* merged into it, unless an ungrouped record of the credential can get there
\* first.
LEMMA MergeAllBrings ==
  ASSUME NEW s, IsFiniteSet(s), Timed(s), NEW from, Timed(from), Untied(from),
         NEW a, NEW g, \A q \in from : q.auth = a /\ q.group = NoGroup => g = NoGroup,
         UsableLatest(s, a, g) = {}, NEW x \in UsableLatest(from, a, g),
         NEW v \in MergeAll(s, UsableSuccesses(from))
  PROVE  UsableLatest(v, a, g) = {x}
<1> DEFINE R == UsableSuccesses(from)
           Missing == {r \in R : Usable(r) /\ UsableLatest(s, r.auth, r.group) = {}}
           Shadowed == {r \in Missing : \E q \in Missing :
                          q # r /\ q.auth = r.auth /\ q.group = NoGroup}
<1>1. /\ x \in from /\ Usable(x) /\ x.auth = a /\ x.group = g /\ x.result = "success"
      /\ x \in Newest(Successes(UsableOf(from), a, g))
  <2>1. x \in from /\ Usable(x) /\ x.auth = a /\ (x.group = g \/ x.group = NoGroup)
        /\ x.result = "success"
    BY QueryFinds
  <2>2. x.group = g
    BY <2>1
  <2>3. \/ x \in Newest(Successes(UsableOf(from), a, g))
        \/ x \in Newest(Successes(UsableOf(from), a, NoGroup))
    BY DEF UsableLatest, PickLatest, UsableOf
  <2>4. x \in Newest(Successes(UsableOf(from), a, x.group))
    BY <2>2, <2>3 DEF Newest, Successes
  <2> QED BY <2>1, <2>2, <2>4
<1>2. x \in R
  BY <1>1 DEF UsableSuccesses
<1>3. ASSUME NEW q \in R, q.auth = a, q.group = g PROVE q = x
  <2>1. UsableOf(from) = {p \in from : Usable(p)}
    BY DEF UsableOf
  <2>2. q \in Newest(Successes(UsableOf(from), a, g))
    BY <1>3, <2>1, HandedOut
  <2> QED BY <1>1, <2>2, NewestIsOne
<1>4. x \in Missing /\ x \notin Shadowed
  <2>1. x \in Missing
    BY <1>1, <1>2
  <2>2. ASSUME NEW q \in Missing, q # x, q.auth = x.auth, q.group = NoGroup PROVE FALSE
    <3>1. q \in from
      BY <2>2, HandedOut
    <3> QED BY <1>1, <1>3, <2>2, <3>1
  <2> QED BY <2>1, <2>2
<1>5. PICK kept \in SUBSET Missing :
        /\ x \in kept
        /\ v = {q \in s : \A r \in kept : Key(q) # Key(r)} \cup kept
  <2>1. PICK late \in SUBSET Shadowed :
          v = {q \in s : \A r \in Missing \ late : Key(q) # Key(r)} \cup (Missing \ late)
    BY DEF MergeAll
  <2> DEFINE kept == Missing \ late
  <2>2. kept \in SUBSET Missing /\ x \in kept
    BY <1>4
  <2> QED BY <2>1, <2>2
<1>6. Successes(UsableOf(v), a, g) = {x}
  <2>1. \A q \in s : Usable(q) => q.auth # a \/ q.group # g
    BY FoundIfThere
  <2>2. \A q \in kept : q.auth = a /\ q.group = g => q = x
    BY <1>3, <1>5
  <2> QED BY <1>1, <1>5, <2>1, <2>2 DEF Successes, UsableOf
<1>7. Newest({x}) = {x}
  BY <1>1 DEF Newest, Newer, Timed
<1> QED BY <1>6, <1>7 DEF UsableLatest, PickLatest, UsableOf

=============================================================================

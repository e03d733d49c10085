------------------------- MODULE WakeSession_proofs -------------------------
(***************************************************************************)
(* Proofs about WakeSession, for any number of wakes, picks, reloads and   *)
(* clock values, and any TTL and timeout.                                  *)
(***************************************************************************)
EXTENDS WakeSession, TLAPS

\* Looking a session up, and consuming one, can only take sessions away from a
\* manager, and only that one; what a lookup takes away has expired
\* (session.go: lookupLocked, Consume).
LEMMA ManagerOperations ==
  ASSUME TypeOK, NEW m \in Managers, NEW w \in Wakes
  PROVE  /\ AfterLookup(m, w) \in [Managers -> SUBSET Wakes]
         /\ AfterConsume(m, w) \in [Managers -> SUBSET Wakes]
         /\ \A n \in Managers, v \in Wakes :
              /\ v \in AfterLookup(m, w)[n] => v \in live[n]
              /\ v \in AfterConsume(m, w)[n] => v \in live[n]
              /\ v \in live[n] /\ v \notin AfterLookup(m, w)[n] =>
                   v = w /\ n = m /\ Expired(w)
              /\ v \in live[n] /\ v \notin AfterConsume(m, w)[n] =>
                   v = w /\ n = m
         /\ w \notin AfterConsume(m, w)[m]
BY DEF TypeOK, AfterLookup, AfterConsume, Found, Present, Without

\* Every run starts with no session held anywhere and no pick in progress.
LEMMA InitSessionInv == Init => SessionInv
<1> SUFFICES ASSUME Init PROVE SessionInv
    OBVIOUS
<1> USE SessionConstants
<1>1. TypeOK
  <2>1. 0 \in Managers /\ 0 \in 0 .. MaxNow /\ 0 \in Nat
    BY DEF Managers
  <2>2. now \in 0 .. MaxNow /\ current \in Managers /\ shutdown \in BOOLEAN
    BY <2>1 DEF Init
  <2>3. /\ live \in [Managers -> SUBSET Wakes]
        /\ pc \in [Wakes -> WakePc]
        /\ ppc \in [Picks -> PickPc]
    BY DEF Init, WakePc, PickPc
  <2>4. /\ home \in [Wakes -> Managers]
        /\ born \in [Wakes -> 0 .. MaxNow]
        /\ pmgr \in [Picks -> Managers]
        /\ pwake \in [Picks -> Wakes]
        /\ handled \in [Wakes -> Nat]
    BY <2>1 DEF Init
  <2> QED BY <2>2, <2>3, <2>4 DEF TypeOK
<1>2. OneHandledPick /\ NothingBeforeCreate
  BY DEF Init, OneHandledPick, NothingBeforeCreate
<1>3. HeldAtHome /\ HandledIsGone /\ WokenIsGone
  BY DEF Init, HeldAtHome, HandledIsGone, WokenIsGone
<1>4. UnhandledStays
  BY DEF Init, UnhandledStays
<1> QED BY <1>1, <1>2, <1>3, <1>4 DEF SessionInv

\* Every step of execute, of a pick and of the runtime preserves the
\* invariant.
LEMMA NextSessionInv == SessionInv /\ [Next]_vars => SessionInv'
<1> SUFFICES ASSUME SessionInv, [Next]_vars PROVE SessionInv'
    OBVIOUS
<1> USE SessionConstants DEF SessionInv
<1>1. ASSUME NEW w \in Wakes, Create(w) PROVE SessionInv'
  <2>1. CASE UNCHANGED <<live, home, born>>
    BY <1>1, <2>1
    DEF Create, Goto, WakePc, Ended, runtimeVars, pickVars,
        TypeOK, OneHandledPick, HeldAtHome, HandledIsGone, UnhandledStays,
        WokenIsGone, NothingBeforeCreate, Expired
  <2>2. CASE \E m \in 0 .. current :
               /\ Goto(w, "created")
               /\ live' = [live EXCEPT ![m] = @ \cup {w}]
               /\ home' = [home EXCEPT ![w] = m]
               /\ born' = [born EXCEPT ![w] = CreatedAt]
    <3>1. PICK m \in 0 .. current :
                 /\ pc' = [pc EXCEPT ![w] = "created"]
                 /\ live' = [live EXCEPT ![m] = @ \cup {w}]
                 /\ home' = [home EXCEPT ![w] = m]
                 /\ born' = [born EXCEPT ![w] = now]
      BY <2>2 DEF Goto, CreatedAt
    <3>2. /\ m \in Managers /\ pc[w] = "new" /\ handled[w] = 0
          /\ UNCHANGED <<now, current, shutdown, ppc, pmgr, pwake, handled>>
      BY <1>1 DEF Create, TypeOK, Managers, NothingBeforeCreate, runtimeVars,
                  pickVars
    <3>3. TypeOK'
      BY <3>1, <3>2 DEF TypeOK, WakePc
    <3>4. (OneHandledPick /\ HeldAtHome /\ NothingBeforeCreate)'
      BY <3>1, <3>2
      DEF TypeOK, OneHandledPick, HeldAtHome, NothingBeforeCreate
    <3>5. (HandledIsGone /\ WokenIsGone)'
      BY <3>1, <3>2 DEF TypeOK, HandledIsGone, WokenIsGone
    <3>6. UnhandledStays'
      BY <3>1, <3>2 DEF TypeOK, UnhandledStays, Expired
    <3> QED BY <3>3, <3>4, <3>5, <3>6
  <2> QED BY <1>1, <2>1, <2>2 DEF Create
<1>2. ASSUME NEW w \in Wakes, Abandon(w) PROVE SessionInv'
    BY <1>2
    DEF Abandon, Goto, WakePc, Ended, runtimeVars, pickVars,
        TypeOK, OneHandledPick, HeldAtHome, HandledIsGone,
        UnhandledStays, WokenIsGone, NothingBeforeCreate, Expired
<1>3. ASSUME NEW w \in Wakes, Send(w) PROVE SessionInv'
    BY <1>3
    DEF Send, Goto, WakePc, runtimeVars, pickVars,
        TypeOK, OneHandledPick, HeldAtHome, HandledIsGone,
        UnhandledStays, WokenIsGone, NothingBeforeCreate, Expired
<1>4. ASSUME NEW w \in Wakes, HostReplies(w) PROVE SessionInv'
    BY <1>4
    DEF HostReplies, Goto, WakePc, Ended, runtimeVars, pickVars,
        TypeOK, OneHandledPick, HeldAtHome, HandledIsGone,
        UnhandledStays, WokenIsGone, NothingBeforeCreate, Expired
<1>5. ASSUME NEW w \in Wakes, Verify(w) PROVE SessionInv'
  <2>1. /\ pc[w] = "replied" /\ home[w] \in Managers
        /\ \E v \in {"woken", "rejected", "missed"} :
             /\ pc' = [pc EXCEPT ![w] = v]
             /\ v # "missed" => w \notin live[home[w]]
        /\ live' = AfterLookup(home[w], w)
        /\ UNCHANGED <<now, current, shutdown, home, born, ppc, pmgr, pwake,
                      handled>>
    BY <1>5
    DEF Verify, Goto, Consumed, Present, TypeOK, runtimeVars, pickVars
  <2>2. TypeOK'
    BY <2>1, ManagerOperations DEF TypeOK, WakePc, Ended
  <2>3. (OneHandledPick /\ NothingBeforeCreate)'
    BY <2>1 DEF TypeOK, OneHandledPick, NothingBeforeCreate
  <2>4. (HeldAtHome /\ HandledIsGone)'
    BY <2>1, ManagerOperations DEF TypeOK, HeldAtHome, HandledIsGone
  <2>5. UnhandledStays'
    BY <2>1, ManagerOperations DEF TypeOK, UnhandledStays, Expired
  <2>6. WokenIsGone'
    BY <2>1, ManagerOperations DEF TypeOK, WokenIsGone, HeldAtHome
  <2> QED BY <2>2, <2>3, <2>4, <2>5, <2>6
<1>6. ASSUME NEW p \in Picks, Call(p) PROVE SessionInv'
    BY <1>6
    DEF Call, Known, PickPc, runtimeVars, wakeVars,
        TypeOK, OneHandledPick, HeldAtHome, HandledIsGone,
        UnhandledStays, WokenIsGone, NothingBeforeCreate, Expired
<1>7. ASSUME NEW p \in Picks, Lookup(p) PROVE SessionInv'
  <2>1. /\ pmgr[p] \in Managers /\ pwake[p] \in Wakes
        /\ \E l \in {"found", "idle"} : ppc' = [ppc EXCEPT ![p] = l]
        /\ live' = AfterLookup(pmgr[p], pwake[p])
        /\ UNCHANGED <<now, current, shutdown, pc, home, born, pmgr, pwake,
                      handled>>
    BY <1>7 DEF Lookup, TypeOK, runtimeVars, wakeVars
  <2>2. TypeOK'
    BY <2>1, ManagerOperations DEF TypeOK, PickPc
  <2>3. (OneHandledPick /\ NothingBeforeCreate)'
    BY <2>1 DEF OneHandledPick, NothingBeforeCreate
  <2>4. \A n \in Managers, v \in Wakes : v \in live'[n] => v \in live[n]
    BY <2>1, ManagerOperations
  <2>5. (HeldAtHome /\ HandledIsGone /\ WokenIsGone)'
    BY <2>1, <2>4 DEF HeldAtHome, HandledIsGone, WokenIsGone
  <2>6. UnhandledStays'
    BY <2>1, ManagerOperations DEF TypeOK, UnhandledStays, Expired
  <2> QED BY <2>2, <2>3, <2>5, <2>6
<1>8. ASSUME NEW p \in Picks, Consume(p) PROVE SessionInv'
  <2> DEFINE m == pmgr[p]
             w == pwake[p]
  <2>1. /\ m \in Managers /\ w \in Wakes
        /\ ppc' = [ppc EXCEPT ![p] = "idle"]
        /\ handled' = [handled EXCEPT ![w] =
                         IF Found(m, w) THEN @ + 1 ELSE @]
        /\ live' = AfterConsume(m, w)
        /\ UNCHANGED <<now, current, shutdown, pc, home, born, pmgr, pwake>>
    BY <1>8 DEF Consume, Handles, TypeOK, runtimeVars, wakeVars
  <2> HIDE DEF m, w
  <2>2. TypeOK'
    BY <2>1, ManagerOperations DEF TypeOK, PickPc
  <2>3. Found(m, w) => /\ handled[w] = 0
                       /\ pc[w] \notin {"new", "woken", "rejected"}
                       /\ home[w] = m
    BY <2>1
    DEF Found, Present, TypeOK, HandledIsGone, HeldAtHome, WokenIsGone
  <2>4. (OneHandledPick /\ NothingBeforeCreate)'
    BY <2>1, <2>3 DEF TypeOK, OneHandledPick, NothingBeforeCreate
  <2>5. (HeldAtHome /\ WokenIsGone)'
    BY <2>1, ManagerOperations DEF TypeOK, HeldAtHome, WokenIsGone
  <2>6. HandledIsGone'
    <3> SUFFICES ASSUME NEW v \in Wakes, handled'[v] > 0,
                        NEW n \in Managers
                 PROVE  v \notin live'[n]
        BY DEF HandledIsGone
    <3>1. CASE v = w /\ Found(m, w)
      <4>1. n # m => w \notin live[n]
        BY <2>3, <3>1 DEF HeldAtHome
      <4> QED BY <2>1, <3>1, <4>1, ManagerOperations
    <3>2. CASE ~(v = w /\ Found(m, w))
      <4>1. handled[v] > 0
        BY <2>1, <3>2 DEF TypeOK
      <4> QED BY <2>1, <4>1, ManagerOperations DEF HandledIsGone
    <3> QED BY <3>1, <3>2
  <2>7. UnhandledStays'
    <3> SUFFICES ASSUME NEW v \in Wakes,
                        pc'[v] \in {"created", "sent", "replied"},
                        handled'[v] = 0, ~Expired(v)'
                 PROVE  v \in live'[home'[v]]
        BY DEF UnhandledStays
    <3>1. handled[v] = 0 /\ ~(v = w /\ Found(m, w))
      BY <2>1 DEF TypeOK
    <3>2. v \in live[home[v]] /\ home[v] \in Managers /\ ~Expired(v)
      BY <2>1, <3>1 DEF UnhandledStays, TypeOK, Expired
    <3>3. v \in AfterConsume(m, w)[home[v]]
      BY <2>1, <3>1, <3>2
      DEF AfterConsume, AfterLookup, Without, Found, Present, TypeOK
    <3> QED BY <2>1, <3>3
  <2> QED BY <2>2, <2>4, <2>5, <2>6, <2>7
<1>9. ASSUME Reload PROVE SessionInv'
    BY <1>9
    DEF Reload, Managers, wakeVars, pickVars,
        TypeOK, OneHandledPick, HeldAtHome, HandledIsGone,
        UnhandledStays, WokenIsGone, NothingBeforeCreate, Expired
<1>10. ASSUME Shutdown PROVE SessionInv'
    BY <1>10
    DEF Shutdown, wakeVars, pickVars,
        TypeOK, OneHandledPick, HeldAtHome, HandledIsGone,
        UnhandledStays, WokenIsGone, NothingBeforeCreate, Expired
<1>11. ASSUME Tick PROVE SessionInv'
    BY <1>11
    DEF Tick, wakeVars, pickVars,
        TypeOK, OneHandledPick, HeldAtHome, HandledIsGone,
        UnhandledStays, WokenIsGone, NothingBeforeCreate, Expired
<1>12. CASE UNCHANGED vars
    BY <1>12 DEF vars, runtimeVars, wakeVars, pickVars,
        TypeOK, OneHandledPick, HeldAtHome, HandledIsGone,
        UnhandledStays, WokenIsGone, NothingBeforeCreate, Expired
<1> QED
    BY <1>1, <1>2, <1>3, <1>4, <1>5, <1>6, <1>7, <1>8, <1>9, <1>10, <1>11,
       <1>12
    DEF Next

-----------------------------------------------------------------------------

\* The invariant holds in every run.
THEOREM SessionInvariant == Spec => []SessionInv
  BY InitSessionInv, NextSessionInv, PTL DEF Spec

\* However picks and managers interleave, a nonce takes over at most one
\* scheduling decision (session.go: a session can be consumed only once).
THEOREM NonceHandledOnce == Spec => []OneHandledPick
<1>1. SessionInv => OneHandledPick
  BY DEF SessionInv
<1> QED BY <1>1, SessionInvariant, PTL

\* A verdict of execute is the truth about the pick, but for a session that
\* outlived its TTL (execute.go: activationSessionConsumed).
THEOREM VerdictsAreHonest == Spec => VerdictMatchesPick
<1>1. SessionInv /\ [Next]_vars => [\A w \in Wakes : VerdictIsHonest(w)]_vars
  <2> SUFFICES ASSUME SessionInv, [Next]_vars, NEW w \in Wakes,
                      pc[w] = "replied", pc'[w] # "replied"
               PROVE  \/ pc'[w] = "missed" /\ handled[w] = 0
                      \/ pc'[w] # "missed" /\ (handled[w] = 1 \/ Expired(w))
      BY DEF VerdictIsHonest
  <2>1. Verify(w)
    <3>1. /\ \A v \in Wakes : Create(v) \/ Abandon(v) \/ Send(v)
               \/ HostReplies(v) => pc'[w] = pc[w]
          /\ \A v \in Wakes : v # w /\ Verify(v) => pc'[w] = pc[w]
      BY DEF Create, Abandon, Send, HostReplies, Verify, Goto, SessionInv,
             TypeOK
    <3>2. \A p \in Picks : Call(p) \/ Lookup(p) \/ Consume(p) => pc' = pc
      BY DEF Call, Lookup, Consume, wakeVars
    <3>3. Reload \/ Shutdown \/ Tick \/ UNCHANGED vars => pc' = pc
      BY DEF Reload, Shutdown, Tick, vars, wakeVars
    <3> QED BY <3>1, <3>2, <3>3 DEF Next
  <2>2. home[w] \in Managers /\ handled[w] \in Nat /\ handled[w] <= 1
    BY DEF SessionInv, TypeOK, OneHandledPick
  <2>3. CASE Consumed(w)
    <3>1. handled[w] = 0 => Expired(w)
      BY <2>3 DEF Consumed, Present, SessionInv, UnhandledStays
    <3>2. pc'[w] # "missed"
      BY <2>1, <2>3 DEF Verify, Goto, SessionInv, TypeOK
    <3> QED BY <2>2, <3>1, <3>2
  <2>4. CASE ~Consumed(w)
    <3>1. handled[w] = 0
      BY <2>2, <2>4 DEF Consumed, Present, SessionInv, HandledIsGone
    <3>2. pc'[w] = "missed"
      BY <2>1, <2>4 DEF Verify, Goto, SessionInv, TypeOK
    <3> QED BY <3>1, <3>2
  <2> QED BY <2>3, <2>4
<1> QED BY <1>1, SessionInvariant, PTL DEF Spec, VerdictMatchesPick

\* After a consumed verdict no pick is ever handled for the nonce, however
\* long it was delayed (scheduler.go: Pick; execute.go: execute).
THEOREM VerdictIsFinal == Spec => NoPickAfterVerdict
<1>1. SessionInv /\ [Next]_vars =>
        [\A w \in Wakes :
           pc[w] \in {"woken", "rejected"} => handled'[w] = handled[w]]_vars
  <2> SUFFICES ASSUME SessionInv, [Next]_vars, NEW w \in Wakes,
                      pc[w] \in {"woken", "rejected"}
               PROVE  handled'[w] = handled[w]
      OBVIOUS
  <2>1. ASSUME NEW p \in Picks, Consume(p) PROVE handled'[w] = handled[w]
    <3>1. pmgr[p] \in Managers /\ pwake[p] \in Wakes
      BY DEF SessionInv, TypeOK
    <3>2. pwake[p] = w => ~Handles(p)
      BY <3>1 DEF Handles, Found, Present, SessionInv, WokenIsGone
    <3> QED BY <2>1, <3>1, <3>2 DEF Consume, SessionInv, TypeOK
  <2>2. \A v \in Wakes :
          Create(v) \/ Abandon(v) \/ Send(v) \/ HostReplies(v) \/ Verify(v)
            => handled' = handled
    BY DEF Create, Abandon, Send, HostReplies, Verify
  <2>3. \A p \in Picks : Call(p) \/ Lookup(p) => handled' = handled
    BY DEF Call, Lookup
  <2>4. Reload \/ Shutdown \/ Tick \/ UNCHANGED vars => handled' = handled
    BY DEF Reload, Shutdown, Tick, vars
  <2> QED BY <2>1, <2>2, <2>3, <2>4 DEF Next
<1> QED BY <1>1, SessionInvariant, PTL DEF Spec, NoPickAfterVerdict

=============================================================================

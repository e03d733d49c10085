------------------------- MODULE AutoScanner_proofs -------------------------
(***************************************************************************)
(* One scan at a time, silence after Shutdown, a summary that accounts for *)
(* every candidate, and no round lost, for every number of loops, workers  *)
(* and candidates and every configuration.                                 *)
(*                                                                         *)
(* The first invariant has what the first three properties rest on: the    *)
(* pool has work only while a scan gives it out or waits for it, every     *)
(* loop but the current one is cancelled, and Shutdown leaves no current   *)
(* one.  The second counts the candidates wherever they are.  The third    *)
(* measures, for the loop in force, how far back the last claim lies.      *)
(***************************************************************************)
EXTENDS AutoScanner, FiniteSetTheorems, TLAPS

Pooling == {"dispatch", "drain"}

Shape ==
  /\ pc \in [Loops -> LoopPc]
  /\ cancelled \in [Loops -> BOOLEAN]
  /\ work = [w \in Workers |-> work[w]]
  /\ stop \in Stops

PoolHasScan ==
  (queue # {} \/ \E w \in Workers : work[w] # Free)
    => \E l \in Loops : pc[l] \in Pooling

\* Loops are born in order.
Unborn ==
  /\ born \in 0 .. MaxLoops
  /\ \A l \in Loops : l > born => pc[l] = "unborn"

OthersCancelled ==
  /\ \A l \in Loops : pc[l] # "unborn" /\ ~cancelled[l] => l = current
  /\ shutdown => current = 0

\* After a clean return of Shutdown no scan gets as far as a candidate.
CleanStop ==
  /\ stop.state # "no" => shutdown
  /\ stop.state = "clean" =>
       \A l \in Loops : pc[l] \notin {"collect"} \cup Pooling

ScanInv ==
  Shape /\ Unborn /\ OneScan /\ PoolHasScan /\ OthersCancelled /\ CleanStop

-----------------------------------------------------------------------------

LEMMA InitScanInv == Init => ScanInv
  BY ScannerConstants
  DEF Init, ScanInv, Shape, Unborn, OneScan, PoolHasScan, OthersCancelled, CleanStop,
      Loops, LoopPc, Before, Scanning, Stops, Pooling

\* A step of one loop that neither claims nor gives up the slot.
LEMMA LoopKeeps ==
  ASSUME ScanInv, NEW l \in Loops, NEW q \in LoopPc, pc' = [pc EXCEPT ![l] = q],
         pc[l] # "unborn", q # "unborn",
         pc[l] \in Scanning <=> q \in Scanning,
         pc[l] \in Pooling => q \in Pooling,
         q \in {"collect"} \cup Pooling =>
           ~cancelled[l] \/ pc[l] \in {"collect"} \cup Pooling,
         queue' # {} => queue # {} \/ q \in Pooling,
         UNCHANGED <<cancelled, work, stop, running, current, born, shutdown>>
  PROVE  ScanInv'
<1>1. Shape' /\ Unborn'
  BY DEF ScanInv, Shape, Unborn
<1>2. OneScan'
  BY DEF ScanInv, Shape, OneScan
<1>3. PoolHasScan'
  BY DEF ScanInv, Shape, PoolHasScan
<1>4. OthersCancelled'
  BY DEF ScanInv, Shape, OthersCancelled
<1>5. CleanStop'
  <2> SUFFICES ASSUME stop.state = "clean"
               PROVE  q \notin {"collect"} \cup Pooling
    BY DEF ScanInv, Shape, CleanStop
  <2>1. shutdown /\ pc[l] \notin {"collect"} \cup Pooling
    BY DEF ScanInv, CleanStop
  <2>2. cancelled[l]
    BY <2>1 DEF ScanInv, OthersCancelled, Loops
  <2> QED BY <2>1, <2>2
<1> QED BY <1>1, <1>2, <1>3, <1>4, <1>5 DEF ScanInv

\* A step of a worker, which leaves the loops alone.
LEMMA WorkerKeeps ==
  ASSUME ScanInv, NEW w \in Workers, WorkerStep(w)
  PROVE  ScanInv'
<1>1. UNCHANGED <<pc, cancelled, stop, running, current, born, shutdown>>
  BY DEF WorkerStep, Take, CheckCooldown, Ask, Answer, Add, outsidePool,
         runtimeVars, loopVars, slotVars
<1>2. queue # {} \/ work[w] # Free
  BY DEF WorkerStep, Take, CheckCooldown, Ask, Answer, Add, Free
<1>3. work' = [v \in Workers |-> work'[v]]
  BY DEF WorkerStep, Take, CheckCooldown, Ask, Answer, Add, Becomes, Start,
         ScanInv, Shape
<1>4. \E l \in Loops : pc[l] \in Pooling
  BY <1>2 DEF ScanInv, PoolHasScan
<1> QED
  BY <1>1, <1>3, <1>4
  DEF ScanInv, Shape, Unborn, OneScan, PoolHasScan, OthersCancelled, CleanStop

\* A step that starts or stops a loop, or does neither.
LEMMA LifeKeeps ==
  ASSUME ScanInv, NEW cfg \in Configs,
         Reconfigure(cfg) \/ Shutdown
  PROVE  ScanInv'
<1>1. UNCHANGED <<running, queue, work>> /\ ~shutdown
  BY DEF Reconfigure, Shutdown, slotVars, scanVars
<1>2. /\ stop' \in Stops /\ stop'.state # "clean"
      /\ stop'.state # "no" => shutdown'
  BY <1>1, ScannerConstants
  DEF Reconfigure, Shutdown, ScanInv, Shape, CleanStop, Stops
<1>3. /\ cancelled' \in [Loops -> BOOLEAN]
      /\ \A l \in Loops : cancelled[l] \/ l = current \/ cancelled'[l] = cancelled[l]
  BY DEF Reconfigure, Shutdown, StartLoop, StopLoop, Cancel, ScanInv, Shape, slotVars
<1>4. CASE pc' = pc /\ UNCHANGED <<current, born, cancelled, shutdown>>
  BY <1>1, <1>2, <1>4
  DEF ScanInv, Shape, Unborn, OneScan, PoolHasScan, OthersCancelled, CleanStop
<1>5. CASE UNCHANGED <<pc, born>> /\ current' = 0 /\ Cancel
  <2>1. \A l \in Loops : pc[l] # "unborn" => cancelled'[l]
    BY <1>5 DEF ScanInv, Shape, OthersCancelled, Cancel, Loops
  <2> QED
    BY <1>1, <1>2, <1>3, <1>5, <2>1
    DEF ScanInv, Shape, Unborn, OneScan, PoolHasScan, OthersCancelled, CleanStop
<1>6. CASE /\ Cancel /\ born < MaxLoops /\ current' = born + 1 /\ ~shutdown'
           /\ born' = born + 1 /\ pc' = [pc EXCEPT ![born + 1] = "delay"]
  <2>1. \A l \in Loops : l # born + 1 /\ pc[l] # "unborn" => cancelled'[l]
    BY <1>6 DEF ScanInv, Shape, OthersCancelled, Cancel, Loops
  <2>2. /\ pc' \in [Loops -> LoopPc]
        /\ \A l \in Loops : pc'[l] = IF l = born + 1 THEN "delay" ELSE pc[l]
    BY <1>6 DEF ScanInv, Shape, LoopPc, Before
  <2>3. \A l \in Loops : l = born + 1 => pc[l] \notin Scanning \cup Pooling
    BY <1>6 DEF ScanInv, Unborn, Scanning, Pooling
  <2>4. Unborn'
    BY <1>6, <2>2, ScannerConstants DEF ScanInv, Unborn, Loops
  <2> QED
    BY <1>1, <1>2, <1>3, <1>6, <2>1, <2>2, <2>3, <2>4
    DEF ScanInv, Shape, OneScan, PoolHasScan, OthersCancelled, CleanStop, Scanning, Pooling
<1> QED
  BY <1>1, <1>4, <1>5, <1>6
  DEF Reconfigure, Shutdown, StartLoop, StopLoop

\* A loop claims the slot, or gives it up.
LEMMA SlotKeeps ==
  ASSUME ScanInv, NEW l \in Loops, Claim(l) \/ Release(l)
  PROVE  ScanInv'
<1>1. UNCHANGED <<cancelled, work, queue, stop, current, born, shutdown>>
  BY DEF Claim, Release, runtimeVars, scanVars
<1>2. PICK q \in LoopPc \ ({"unborn", "collect"} \cup Pooling) :
        /\ pc' = [pc EXCEPT ![l] = q]
        /\ pc[l] \notin {"unborn", "collect"} \cup Pooling
        /\ \/ q \notin Scanning /\ pc[l] \notin Scanning /\ running' = running
           \/ q \notin Scanning /\ pc[l] \in Scanning /\ ~running'
           \/ q \in Scanning /\ ~running /\ running'
  BY DEF Claim, Release, Claimable, Goto, LoopPc, Before, Scanning, Pooling
<1>3. pc' \in [Loops -> LoopPc] /\ \A k \in Loops : pc'[k] = IF k = l THEN q ELSE pc[k]
  BY <1>2 DEF ScanInv, Shape
<1>4. \A k \in Loops : pc[k] \in Pooling \/ pc'[k] \in Pooling => pc'[k] = pc[k]
  BY <1>2, <1>3
<1>5. OneScan'
  BY <1>2, <1>3 DEF ScanInv, OneScan
<1> QED
  BY <1>1, <1>2, <1>3, <1>4, <1>5
  DEF ScanInv, Shape, Unborn, PoolHasScan, OthersCancelled, CleanStop

LEMMA LoopStepKeeps ==
  ASSUME ScanInv, NEW l \in Loops, LoopStep(l)
  PROVE  ScanInv'
<1>1. CASE Claim(l) \/ Release(l)
  BY <1>1, SlotKeeps
<1>2. CASE ~Claim(l) /\ ~Release(l) /\ ~Finish(l)
  <2>1. UNCHANGED <<cancelled, work, stop, running, current, born, shutdown>>
    BY <1>2 DEF LoopStep, Wakes, Top, TakeSnapshot, After, List, Collect, Dispatch,
                runtimeVars, slotVars, scanVars
  <2>2. PICK q \in LoopPc \ {"unborn"} :
          /\ pc' = [pc EXCEPT ![l] = q]
          /\ pc[l] # "unborn"
          /\ pc[l] \in Scanning <=> q \in Scanning
          /\ pc[l] \in Pooling => q \in Pooling
          /\ q \in {"collect"} \cup Pooling =>
               ~cancelled[l] \/ pc[l] \in {"collect"} \cup Pooling
          /\ queue' # {} => queue # {} \/ q \in Pooling
    BY <1>2 DEF LoopStep, Wakes, Top, TakeSnapshot, After, List, Collect, Dispatch,
                Goto, Ends, Summarise, scanVars, Asleep, LoopPc, Before, Scanning,
                Pooling, ScanInv, Shape
  <2> QED
    BY <2>1, <2>2, LoopKeeps
<1>3. CASE Finish(l)
  <2>1. /\ UNCHANGED <<cancelled, work, queue, stop, running, current, born, shutdown>>
        /\ queue = {} /\ \A w \in Workers : work[w] = Free
        /\ pc[l] = "drain" /\ pc' = [pc EXCEPT ![l] = "release"]
    BY <1>3 DEF Finish, Drained, Summarise, Goto, runtimeVars, slotVars
  <2>2. /\ pc' \in [Loops -> LoopPc]
        /\ \A k \in Loops : pc'[k] = IF k = l THEN "release" ELSE pc[k]
    BY <2>1 DEF ScanInv, Shape, LoopPc, Scanning
  <2>3. OneScan'
    BY <2>1, <2>2 DEF ScanInv, OneScan, Scanning
  <2>4. Unborn' /\ OthersCancelled' /\ CleanStop'
    BY <2>1, <2>2 DEF ScanInv, Unborn, OthersCancelled, CleanStop, Pooling, Loops
  <2>5. Shape' /\ PoolHasScan'
    BY <2>1, <2>2 DEF ScanInv, Shape, PoolHasScan
  <2> QED
    BY <2>3, <2>4, <2>5 DEF ScanInv
<1> QED
  BY <1>1, <1>2, <1>3

LEMMA NextScanInv ==
  ASSUME ScanInv, [Next]_vars
  PROVE  ScanInv'
<1> USE DEF runtimeVars, loopVars, slotVars, scanVars
<1>1. ASSUME NEW cfg \in Configs, Reconfigure(cfg) \/ Shutdown
      PROVE  ScanInv'
  BY <1>1, LifeKeeps
<1>2. CASE ShutdownReturns
  <2>1. /\ stop' \in Stops
        /\ stop'.state = "clean" => ~running
        /\ UNCHANGED <<pc, cancelled, work, queue, running, current, born, shutdown>>
    BY <1>2, ScannerConstants DEF ShutdownReturns, Stops
  <2>2. shutdown
    BY <1>2 DEF ShutdownReturns, ScanInv, CleanStop
  <2>3. CleanStop'
    <3>1. ~running => \A l \in Loops : pc[l] \notin {"collect"} \cup Pooling
      BY DEF ScanInv, OneScan, Scanning, Pooling
    <3> QED
      BY <2>1, <2>2, <3>1 DEF CleanStop
  <2> QED
    BY <2>1, <2>3 DEF ScanInv, Shape, Unborn, OneScan, PoolHasScan, OthersCancelled
<1>3. ASSUME NEW l \in Loops, LoopStep(l)
      PROVE  ScanInv'
  BY <1>3, LoopStepKeeps
<1>4. ASSUME NEW w \in Workers, WorkerStep(w)
      PROVE  ScanInv'
  BY <1>4, WorkerKeeps
<1>5. CASE Tick \/ vars' = vars \/ \E a \in Auths : ManualSuccess(a)
  <2>1. UNCHANGED <<pc, cancelled, work, queue, running, current, born, shutdown>>
    BY <1>5 DEF Tick, vars, ManualSuccess
  <2>2. stop' \in Stops /\ stop'.state = stop.state
    BY <1>5, ScannerConstants
    DEF Tick, vars, ManualSuccess, ScanInv, Shape, Stops, Less
  <2> QED
    BY <2>1, <2>2
    DEF ScanInv, Shape, Unborn, OneScan, PoolHasScan, OthersCancelled, CleanStop
<1> QED
  BY <1>1, <1>2, <1>3, <1>4, <1>5, ScannerConstants DEF Next

-----------------------------------------------------------------------------

LEMMA AlwaysScanInv == Spec => []ScanInv
<1>1. Init => ScanInv
  BY InitScanInv
<1>2. ScanInv /\ [Next]_vars => ScanInv'
  BY NextScanInv
<1> QED
  BY <1>1, <1>2, PTL DEF Spec

\* At most one scan is under way, and autoScanRunning says so, whatever loops
\* the reconfigurations have cancelled and started (auto_scanner.go:193).
THEOREM ScansAreOne == Spec => []OneScan
<1>1. ScanInv => OneScan
  BY DEF ScanInv
<1> QED
  BY <1>1, AlwaysScanInv, PTL

\* Once Shutdown has returned because no scan was running, the pool stays idle:
\* a loop may still claim the slot, but it is cancelled and gets no candidate.
THEOREM CleanShutdownIsQuiet == Spec => []QuietAfterShutdown
<1>1. ScanInv => QuietAfterShutdown
  <2> SUFFICES ASSUME ScanInv, stop.state = "clean"
               PROVE  queue = {} /\ \A w \in Workers : work[w] = Free
    BY DEF QuietAfterShutdown
  <2>1. \A l \in Loops : pc[l] \notin Pooling
    BY DEF ScanInv, CleanStop
  <2> QED
    BY <2>1 DEF ScanInv, PoolHasScan
<1> QED
  BY <1>1, AlwaysScanInv, PTL

\* No request of the scanner leaves once Shutdown has set its flag: a worker
\* that is about to ask works for a scan whose loop is cancelled.
THEOREM ShutdownStopsWakes == Spec => NoWakeAfterShutdown
<1>1. ASSUME ScanInv, [Next]_vars, shutdown, NEW w \in Workers,
             work'[w].step = "asking"
      PROVE  work'[w] = work[w]
  <2>1. CASE UNCHANGED work
    BY <2>1
  <2>2. ASSUME NEW v \in Workers, WorkerStep(v)
        PROVE  work'[w] = work[w]
    <3>1. CASE w = v /\ Ask(v)
      <4>1. work[v] # Free
        BY <3>1 DEF Ask, Free
      <4>2. PICK l \in Loops : pc[l] \in Pooling
        BY <1>1, <2>2, <3>1, <4>1 DEF ScanInv, PoolHasScan
      <4>3. cancelled[l]
        BY <1>1, <4>2 DEF ScanInv, OthersCancelled, Pooling, Loops
      <4>4. ScanCancelled
        BY <4>2, <4>3 DEF ScanCancelled, Scanning, Pooling
      <4> QED
        BY <1>1, <3>1, <4>4 DEF Ask, Refused, Becomes, Job, ScanInv, Shape
    <3>2. CASE w = v /\ ~Ask(v)
      BY <1>1, <2>2, <3>2
      DEF WorkerStep, Take, CheckCooldown, Answer, Add, Start, Becomes, Job, Free,
          ScanInv, Shape
    <3>3. CASE w # v
      BY <1>1, <2>2, <3>3
      DEF WorkerStep, Take, CheckCooldown, Ask, Answer, Add, Start, Becomes,
          ScanInv, Shape
    <3> QED
      BY <3>1, <3>2, <3>3
  <2>3. CASE \A v \in Workers : ~WorkerStep(v)
    <3>1. UNCHANGED work
      BY <1>1, <2>3
      DEF Next, vars, Reconfigure, Shutdown, ShutdownReturns, ManualSuccess, Tick,
          LoopStep, Wakes, Top, TakeSnapshot, Claim, After, List, Collect, Dispatch,
          Finish, Release, scanVars
    <3> QED
      BY <3>1
  <2> QED
    BY <2>2, <2>3
<1>2. ScanInv /\ [Next]_vars =>
        (shutdown => \A w \in Workers : work'[w].step = "asking" => work'[w] = work[w])
  BY <1>1
<1> QED
  BY <1>2, AlwaysScanInv, PTL DEF Spec, NoWakeAfterShutdown

-----------------------------------------------------------------------------
(* The candidates of a scan *)

Busy == {w \in Workers : work[w] # Free}

\* The candidates of the scan that are somewhere: not yet with the pool, in
\* the channel, with a worker, or accounted for.
Held == Cardinality(pending) + Cardinality(queue) + Cardinality(Busy) + acc

PoolTypes ==
  /\ pending \in SUBSET Candidates
  /\ queue \in SUBSET Candidates
  /\ work \in [Workers -> Jobs \cup {Free}]
  /\ acc \in Nat /\ found \in Counts
  /\ summary \in Counts \cup {NoSummary}

\* No candidate is in two places, none is lost unless the scan is cancelled,
\* and between the scans there are none.
CountInv ==
  /\ PoolTypes
  /\ pending \cap queue = {}
  /\ Held <= found
  /\ \A l \in Loops : pc[l] \in Pooling /\ ~cancelled[l] => Held = found
  /\ pending # {} => \E l \in Loops : pc[l] = "dispatch"
  /\ found # 0 => \E l \in Loops : pc[l] \in Pooling

LEMMA Sizes ==
  ASSUME NEW S, S \subseteq Candidates \/ S \subseteq Workers
  PROVE  IsFiniteSet(S) /\ Cardinality(S) \in Nat
<1>1. IsFiniteSet(S)
  BY ScannerConstants, FS_Subset
<1> QED BY <1>1, FS_CardinalityType

LEMMA HeldIsNumber ==
  ASSUME PoolTypes
  PROVE  /\ Cardinality(pending) \in Nat /\ Cardinality(queue) \in Nat
         /\ Cardinality(Busy) \in Nat /\ acc \in Nat
         /\ found \in Nat /\ Held \in Nat
<1>1. Cardinality(pending) \in Nat /\ Cardinality(queue) \in Nat
  BY Sizes DEF PoolTypes
<1>2. Busy \subseteq Workers
  BY DEF Busy
<1>3. Cardinality(Busy) \in Nat
  BY <1>2, Sizes
<1>4. Cardinality(Candidates) \in Nat
  BY Sizes
<1> QED BY <1>1, <1>3, <1>4 DEF PoolTypes, Counts, Held

LEMMA NoneHeld == Cardinality({}) = 0
BY FS_EmptySet

LEMMA InitCount == Init => CountInv
<1> SUFFICES ASSUME Init PROVE CountInv
  OBVIOUS
<1>1. Busy = {} /\ pending = {} /\ queue = {} /\ acc = 0 /\ found = 0
  BY DEF Init, Busy
<1>2. Cardinality(Candidates) \in Nat
  BY Sizes
<1>3. PoolTypes
  BY <1>1, <1>2 DEF Init, PoolTypes, Counts
<1>4. Held = 0
  BY <1>1, NoneHeld DEF Held
<1> QED BY <1>1, <1>3, <1>4 DEF CountInv

\* A step that leaves the pool alone.
LEMMA PoolStays ==
  ASSUME CountInv, UNCHANGED <<pending, queue, found, work, acc>>,
         summary' \in Counts \cup {NoSummary},
         \A l \in Loops :
           /\ pc'[l] \in Pooling /\ ~cancelled'[l] => pc[l] \in Pooling /\ ~cancelled[l]
           /\ pc[l] = "dispatch" => pc'[l] = "dispatch"
           /\ pc[l] \in Pooling => pc'[l] \in Pooling
  PROVE  CountInv'
<1>1. Busy' = Busy
  BY DEF Busy
<1>2. Held' = Held
  BY <1>1 DEF Held
<1> QED BY <1>2 DEF CountInv, PoolTypes

\* Between the scans nothing is held.
LEMMA Idle ==
  ASSUME CountInv, \A l \in Loops : pc[l] \notin Pooling
  PROVE  pending = {} /\ queue = {} /\ Busy = {} /\ acc = 0 /\ found = 0
<1>1. found = 0 /\ Held <= 0 /\ PoolTypes
  BY DEF CountInv
<1>2. /\ Cardinality(pending) = 0 /\ Cardinality(queue) = 0 /\ Cardinality(Busy) = 0
      /\ acc = 0
  BY <1>1, HeldIsNumber DEF Held
<1>3. Busy \subseteq Workers
  BY DEF Busy
<1>4. IsFiniteSet(pending) /\ IsFiniteSet(queue) /\ IsFiniteSet(Busy)
  BY <1>1, <1>3, Sizes DEF PoolTypes
<1> QED BY <1>1, <1>2, <1>4, FS_EmptySet

LEMMA CollectCounts ==
  ASSUME ScanInv, CountInv, NEW l \in Loops, Collect(l) PROVE CountInv'
<1>0. /\ pc[l] = "collect" /\ pc \in [Loops -> LoopPc]
      /\ UNCHANGED <<cancelled, queue, work, acc>>
  BY DEF Collect, ScanInv, Shape
<1>1. \A k \in Loops : pc[k] \notin Pooling
  BY <1>0 DEF ScanInv, OneScan, Scanning, Pooling
<1>2. CASE cancelled[l]
  <2>1. /\ pc' = [pc EXCEPT ![l] = "release"]
        /\ UNCHANGED <<pending, found>> /\ summary' = 0
    BY <1>2 DEF Collect, Summarise, Goto
  <2>2. summary' \in Counts
    BY <2>1, Sizes DEF Counts
  <2>3. \A k \in Loops : pc'[k] \notin Pooling
    BY <1>0, <1>1, <2>1 DEF Pooling
  <2> QED BY <1>0, <1>1, <2>1, <2>2, <2>3, PoolStays DEF Pooling
<1>3. CASE ~cancelled[l]
  <2>1. PICK cs \in SUBSET Candidates :
          /\ pending' = cs /\ found' = Cardinality(cs)
          /\ pc' = [pc EXCEPT ![l] = "dispatch"] /\ summary' = summary
    BY <1>3 DEF Collect, Goto
  <2>2. /\ pending = {} /\ queue = {} /\ Busy = {} /\ acc = 0
    BY <1>1, Idle
  <2>3. Cardinality(cs) \in Counts
    <3>1. Cardinality(cs) <= Cardinality(Candidates)
      BY ScannerConstants, FS_Subset
    <3> QED BY <3>1, Sizes DEF Counts
  <2>4. PoolTypes'
    BY <1>0, <2>1, <2>3 DEF CountInv, PoolTypes
  <2>5. Held' = found'
    <3>1. Busy' = {}
      BY <1>0, <2>2 DEF Busy
    <3>2. Cardinality(cs) \in Nat
      BY Sizes
    <3> QED BY <1>0, <2>1, <2>2, <3>1, <3>2, NoneHeld DEF Held
  <2>6. pc'[l] = "dispatch"
    BY <1>0, <2>1
  <2>7. found' \in Nat
    BY <2>4, HeldIsNumber DEF PoolTypes, Counts
  <2> QED BY <1>0, <2>2, <2>4, <2>5, <2>6, <2>7 DEF CountInv, Pooling
<1> QED BY <1>2, <1>3

LEMMA DispatchCounts ==
  ASSUME ScanInv, CountInv, NEW l \in Loops, Dispatch(l) PROVE CountInv'
<1>0. /\ pc[l] = "dispatch" /\ pc \in [Loops -> LoopPc] /\ PoolTypes
      /\ UNCHANGED <<cancelled, work, acc, found, summary>>
      /\ \A k \in Loops : pc[k] \in Pooling => k = l
  BY DEF Dispatch, ScanInv, Shape, OneScan, Scanning, Pooling, CountInv
<1>1. Busy' = Busy
  BY <1>0 DEF Busy
<1>2. CASE cancelled[l] \/ pending = {}
  <2>1. /\ pc' = [pc EXCEPT ![l] = "drain"] /\ pending' = {} /\ queue' = queue
    BY <1>2 DEF Dispatch, Goto
  <2>2. pc'[l] = "drain" /\ \A k \in Loops \ {l} : pc'[k] = pc[k]
    BY <1>0, <2>1
  <2>3. Held' = Held - Cardinality(pending)
    BY <1>0, <1>1, <2>1, NoneHeld, HeldIsNumber DEF Held
  <2>4. ~cancelled[l] => Held' = Held
    BY <1>2, <2>3, NoneHeld, <1>0, HeldIsNumber
  <2>5. PoolTypes'
    BY <1>0, <2>1 DEF PoolTypes
  <2>6. Held' <= found'
    BY <1>0, <2>3, HeldIsNumber DEF CountInv
  <2>7. \A k \in Loops : pc'[k] \in Pooling /\ ~cancelled'[k] => Held' = found'
    BY <1>0, <2>2, <2>4 DEF CountInv, Pooling
  <2> QED BY <1>0, <2>1, <2>2, <2>5, <2>6, <2>7 DEF CountInv, Pooling
<1>3. CASE ~(cancelled[l] \/ pending = {})
  <2>1. PICK c \in pending : pending' = pending \ {c} /\ queue' = queue \cup {c}
    BY <1>3 DEF Dispatch
  <2>2. pc' = pc
    BY <1>3 DEF Dispatch
  <2>3. PoolTypes'
    BY <1>0, <2>1 DEF PoolTypes
  <2>4. Held' = Held
    <3>1. c \notin queue /\ IsFiniteSet(pending) /\ IsFiniteSet(queue)
      BY <1>0, <2>1, Sizes DEF CountInv, PoolTypes
    <3>2. /\ Cardinality(pending') = Cardinality(pending) - 1
          /\ Cardinality(queue') = Cardinality(queue) + 1
      BY <2>1, <3>1, FS_AddElement, FS_RemoveElement
    <3> QED BY <1>0, <1>1, <3>2, HeldIsNumber DEF Held
  <2> QED BY <1>0, <2>1, <2>2, <2>3, <2>4 DEF CountInv, Pooling
<1> QED BY <1>2, <1>3

LEMMA FinishCounts ==
  ASSUME ScanInv, CountInv, NEW l \in Loops, Finish(l)
  PROVE  CountInv' /\ (~cancelled[l] => summary' = found)
<1>0. /\ pc[l] = "drain" /\ pc' = [pc EXCEPT ![l] = "release"]
      /\ queue = {} /\ acc' = 0 /\ found' = 0 /\ summary' = acc
      /\ UNCHANGED <<cancelled, work, queue, pending>>
      /\ PoolTypes /\ pc \in [Loops -> LoopPc]
      /\ \A k \in Loops : pc[k] \in Scanning => k = l
  <2>1. /\ pc[l] = "drain" /\ pc' = [pc EXCEPT ![l] = "release"]
        /\ queue = {} /\ acc' = 0 /\ found' = 0 /\ summary' = acc
        /\ UNCHANGED <<cancelled, work, queue, pending>>
    BY DEF Finish, Drained, Summarise, Goto
  <2>2. \A k \in Loops : pc[k] \in Scanning => k = l
    BY <2>1 DEF ScanInv, OneScan, Scanning
  <2> QED BY <2>1, <2>2 DEF ScanInv, Shape, CountInv
<1>1. Busy = {} /\ Busy' = {}
  BY <1>0 DEF Finish, Drained, Busy
<1>2. pending = {}
  BY <1>0 DEF CountInv, Scanning
<1>3. Held = acc
  BY <1>0, <1>1, <1>2, NoneHeld, HeldIsNumber DEF Held
<1>4. summary' \in Counts
  <2>1. acc <= found
    BY <1>3 DEF CountInv
  <2> QED BY <1>0, <2>1, Sizes DEF PoolTypes, Counts
<1>5. Held' = 0
  BY <1>0, <1>1, <1>2, NoneHeld DEF Held
<1>6. PoolTypes'
  <2>1. 0 \in Counts
    BY Sizes DEF Counts
  <2> QED BY <1>0, <1>4, <2>1 DEF PoolTypes
<1>7. \A k \in Loops : pc'[k] \notin Pooling
  BY <1>0 DEF Scanning, Pooling
<1>8. CountInv'
  BY <1>0, <1>2, <1>5, <1>6, <1>7 DEF CountInv
<1>9. ~cancelled[l] => summary' = found
  BY <1>0, <1>3 DEF CountInv, Pooling
<1> QED BY <1>8, <1>9

\* What is left of a step of a worker.
LEMMA WorkersCount ==
  ASSUME CountInv, NEW w \in Workers, UNCHANGED <<pc, cancelled, pending, found, summary>>,
         queue' \subseteq queue, acc' \in Nat,
         work' \in [Workers -> Jobs \cup {Free}],
         Held \in Nat, Held' \in Int, Held' <= Held,
         Held' = Held \/ \A l \in Loops : pc[l] \in Pooling => cancelled[l]
  PROVE  CountInv'
<1>1. PoolTypes /\ PoolTypes'
  BY DEF CountInv, PoolTypes
<1>2. Held' <= found
  <2>1. found \in Nat /\ Held <= found
    BY <1>1, HeldIsNumber DEF CountInv
  <2> QED BY <2>1
<1> QED BY <1>1, <1>2 DEF CountInv

LEMMA Jobbing ==
  ASSUME PoolTypes, NEW w \in Workers, work[w].step # "free"
  PROVE  work[w].job \in Candidates /\ w \in Busy
BY DEF PoolTypes, Jobs, Free, Busy

LEMMA JobIsJob ==
  ASSUME NEW c \in Candidates, NEW step \in {"cooldown", "wake", "asking", "count"}
  PROVE  Job(step, c) \in Jobs /\ Job(step, c) # Free
BY DEF Job, Jobs, Free

LEMMA Changes ==
  ASSUME PoolTypes, NEW w \in Workers, NEW job \in Jobs \cup {Free},
         work' = [work EXCEPT ![w] = job]
  PROVE  /\ work' \in [Workers -> Jobs \cup {Free}]
         /\ work'[w] = job /\ \A v \in Workers \ {w} : work'[v] = work[v]
BY DEF PoolTypes

LEMMA BusySet ==
  ASSUME NEW w \in Workers, \A v \in Workers \ {w} : work'[v] = work[v]
  PROVE  /\ work'[w] # Free => Busy' = Busy \cup {w}
         /\ work'[w] = Free => Busy' = Busy \ {w}
BY DEF Busy

LEMMA TakeCounts ==
  ASSUME ScanInv, CountInv, NEW w \in Workers, Take(w) PROVE CountInv'
<1>0. /\ work[w] = Free /\ PoolTypes /\ w \notin Busy
      /\ UNCHANGED <<pc, cancelled, pending, found, summary, acc>>
  BY DEF Take, Receives, outsidePool, loopVars, CountInv, Busy
<1>1. PICK c \in queue : queue' = queue \ {c} /\ Start(w, c)
  BY DEF Take
<1>2. c \in Candidates /\ IsFiniteSet(queue)
  BY <1>0, Sizes DEF PoolTypes
<1>3. Cardinality(queue') = Cardinality(queue) - 1
  BY <1>1, <1>2, FS_RemoveElement
<1>4. IsFiniteSet(Busy)
  BY Sizes DEF Busy
<1>5. CASE ScanCancelled
  <2>1. work' = work
    BY <1>1, <1>5 DEF Start
  <2>2. work' \in [Workers -> Jobs \cup {Free}]
    BY <1>0, <2>1 DEF PoolTypes
  <2>3. Busy' = Busy
    BY <2>1 DEF Busy
  <2>4. Held' = Held - 1 /\ Held \in Nat
    BY <1>0, <1>3, <2>3, HeldIsNumber DEF Held
  <2>5. \A l \in Loops : pc[l] \in Pooling => cancelled[l]
    BY <1>5 DEF ScanCancelled, ScanInv, OneScan, Scanning, Pooling
  <2> QED BY <1>0, <1>1, <2>2, <2>4, <2>5, WorkersCount DEF PoolTypes
<1>6. CASE ~ScanCancelled
  <2>1. PICK step \in {"cooldown", "count"} : work' = [work EXCEPT ![w] = Job(step, c)]
    BY <1>1, <1>6 DEF Start, Becomes
  <2>2. Job(step, c) \in Jobs /\ Job(step, c) # Free
    BY <1>2, JobIsJob
  <2>3. Cardinality(Busy') = Cardinality(Busy) + 1
    <3> DEFINE job == Job(step, c)
    <3>1. job \in Jobs \cup {Free} /\ work' = [work EXCEPT ![w] = job] /\ job # Free
      BY <2>1, <2>2
    <3> HIDE DEF job
    <3>2. work'[w] = job /\ \A v \in Workers \ {w} : work'[v] = work[v]
      BY <1>0, <3>1, Changes
    <3>3. Busy' = Busy \cup {w}
      BY <3>1, <3>2, BusySet
    <3> QED BY <1>0, <1>4, <3>3, FS_AddElement
  <2>4. Held' = Held /\ Held \in Nat
    BY <1>0, <1>3, <2>3, HeldIsNumber DEF Held
  <2>5. work' \in [Workers -> Jobs \cup {Free}]
    BY <1>0, <2>1, <2>2 DEF PoolTypes
  <2> QED BY <1>0, <1>1, <2>4, <2>5, WorkersCount DEF PoolTypes
<1> QED BY <1>5, <1>6

LEMMA WorkCounts ==
  ASSUME ScanInv, CountInv, NEW w \in Workers, WorkerStep(w) PROVE CountInv'
<1>0. PoolTypes /\ IsFiniteSet(Busy)
  BY Sizes DEF CountInv, Busy
<1>1. CASE CheckCooldown(w) \/ Ask(w) \/ Answer(w)
  <2>1. /\ work[w].step # "free"
        /\ UNCHANGED <<pc, cancelled, pending, found, summary, acc, queue>>
    BY <1>1 DEF CheckCooldown, Ask, Answer, outsidePool, loopVars
  <2>2. work[w].job \in Candidates /\ w \in Busy
    BY <1>0, <2>1, Jobbing
  <2>3. PICK step \in {"count", "wake", "asking"} :
          work' = [work EXCEPT ![w] = Job(step, work[w].job)]
    BY <1>1 DEF CheckCooldown, Ask, Answer, Becomes
  <2> DEFINE job == Job(step, work[w].job)
  <2>4. job \in Jobs /\ job # Free
    BY <2>2, JobIsJob
  <2>5. work' = [work EXCEPT ![w] = job]
    BY <2>3
  <2> HIDE DEF job
  <2>8. /\ work' \in [Workers -> Jobs \cup {Free}]
        /\ work'[w] = job /\ \A v \in Workers \ {w} : work'[v] = work[v]
    BY <1>0, <2>4, <2>5, Changes
  <2>6. Busy' = Busy
    BY <2>2, <2>4, <2>8, BusySet
  <2>7. Held' = Held /\ Held \in Nat
    BY <1>0, <2>1, <2>6, HeldIsNumber DEF Held
  <2> QED BY <1>0, <2>1, <2>7, <2>8, WorkersCount DEF PoolTypes
<1>2. CASE Add(w)
  <2>1. /\ work[w].step # "free" /\ work' = [work EXCEPT ![w] = Free] /\ acc' = acc + 1
        /\ UNCHANGED <<pc, cancelled, pending, found, summary, queue>>
    BY <1>2 DEF Add, Becomes, outsidePool, loopVars
  <2>2. w \in Busy
    BY <1>0, <2>1, Jobbing
  <2>5. /\ work' \in [Workers -> Jobs \cup {Free}]
        /\ work'[w] = Free /\ \A v \in Workers \ {w} : work'[v] = work[v]
    BY <1>0, <2>1, Changes
  <2>6. Busy' = Busy \ {w}
    BY <2>5, BusySet
  <2>3. Cardinality(Busy') = Cardinality(Busy) - 1
    BY <1>0, <2>2, <2>6, FS_RemoveElement
  <2>4. Held' = Held /\ Held \in Nat /\ acc' \in Nat
    BY <1>0, <2>1, <2>3, HeldIsNumber DEF Held
  <2> QED BY <1>0, <2>1, <2>4, <2>5, WorkersCount
<1>3. CASE Take(w)
  BY <1>3, TakeCounts
<1> QED BY <1>1, <1>2, <1>3 DEF WorkerStep

LEMMA NextCount ==
  ASSUME ScanInv, CountInv, [Next]_vars PROVE CountInv'
<1> USE DEF runtimeVars, loopVars, slotVars, scanVars
<1>0. PoolTypes /\ pc \in [Loops -> LoopPc] /\ cancelled \in [Loops -> BOOLEAN]
  BY DEF CountInv, ScanInv, Shape
<1>1. ASSUME NEW cfg \in Configs, Reconfigure(cfg) \/ Shutdown PROVE CountInv'
  <2>1. /\ UNCHANGED <<pending, queue, found, work, acc, summary>>
        /\ \A l \in Loops : pc'[l] = pc[l] \/ (pc[l] = "unborn" /\ pc'[l] = "delay")
        /\ \A l \in Loops : cancelled[l] => cancelled'[l]
    <3>1. \A l \in Loops : cancelled[l] => cancelled'[l]
      BY <1>0, <1>1 DEF Reconfigure, Shutdown, StartLoop, StopLoop, Cancel
    <3>2. \A l \in Loops : pc'[l] = pc[l] \/ (pc[l] = "unborn" /\ pc'[l] = "delay")
      <4>1. pc' = pc \/ (born < MaxLoops /\ pc' = [pc EXCEPT ![born + 1] = "delay"])
        BY <1>1 DEF Reconfigure, Shutdown, StartLoop, StopLoop
      <4>2. \A l \in Loops : l = born + 1 => pc[l] = "unborn"
        BY DEF ScanInv, Unborn, Loops
      <4> QED BY <1>0, <4>1, <4>2
    <3> QED BY <1>1, <3>1, <3>2 DEF Reconfigure, Shutdown
  <2> QED BY <1>0, <2>1, PoolStays DEF PoolTypes, Pooling
<1>2. CASE ShutdownReturns
  BY <1>0, <1>2, PoolStays DEF ShutdownReturns, PoolTypes
<1>3. ASSUME NEW l \in Loops, LoopStep(l) PROVE CountInv'
  <2>1. CASE Wakes(l) \/ Top(l) \/ TakeSnapshot(l) \/ Claim(l) \/ After(l)
    <3>1. /\ UNCHANGED <<pending, queue, found, work, acc, summary, cancelled>>
          /\ pc[l] \notin Pooling
          /\ \E q \in {"top", "ended", "snapshot", "after", "claim", "list", "sleep"} :
               pc' = [pc EXCEPT ![l] = q]
      BY <2>1 DEF Wakes, Top, TakeSnapshot, Claim, After, Asleep, Pooling, Ends, Goto
    <3>2. pc'[l] \notin Pooling /\ \A k \in Loops \ {l} : pc'[k] = pc[k]
      BY <1>0, <3>1 DEF Pooling
    <3> QED BY <1>0, <3>1, <3>2, PoolStays DEF PoolTypes, Pooling
  <2>2. CASE List(l) \/ Release(l)
    <3>1. /\ UNCHANGED <<pending, queue, found, work, acc, cancelled>>
          /\ pc[l] \notin Pooling
          /\ \E q \in {"collect", "release", "after"} : pc' = [pc EXCEPT ![l] = q]
          /\ summary' \in {summary, 0, NoSummary}
      BY <2>2 DEF List, Release, Summarise, Pooling, Goto
    <3>2. pc'[l] \notin Pooling /\ \A k \in Loops \ {l} : pc'[k] = pc[k]
      BY <1>0, <3>1 DEF Pooling
    <3>3. summary' \in Counts \cup {NoSummary}
      BY <1>0, <3>1, Sizes DEF PoolTypes, Counts
    <3> QED BY <1>0, <3>1, <3>2, <3>3, PoolStays DEF Pooling
  <2> QED BY <1>3, <2>1, <2>2, CollectCounts, DispatchCounts, FinishCounts DEF LoopStep
<1>4. ASSUME NEW w \in Workers, WorkerStep(w) PROVE CountInv'
  BY <1>4, WorkCounts
<1>5. CASE Tick \/ vars' = vars \/ \E a \in Auths : ManualSuccess(a)
  BY <1>0, <1>5, PoolStays DEF Tick, ManualSuccess, vars, PoolTypes
<1> QED
  BY <1>1, <1>2, <1>3, <1>4, <1>5, ScannerConstants DEF Next

LEMMA AlwaysCounts == Spec => []CountInv
<1>1. Init => CountInv
  BY InitCount
<1>2. ScanInv /\ CountInv /\ [Next]_vars => CountInv'
  BY NextCount
<1> QED BY <1>1, <1>2, AlwaysScanInv, PTL DEF Spec

\* The one summary of a scan that nobody cancelled accounts for every
\* candidate it has collected, for any number of workers and candidates and
\* whatever their order (auto_scanner.go: the pool of scanAutoCandidates).
THEOREM CandidatesAreCounted == Spec => EveryCandidateCounted
<1>1. ASSUME ScanInv, CountInv, [Next]_vars, NEW l \in Loops,
             pc[l] = "drain", pc'[l] = "release", ~cancelled[l]
      PROVE  summary' = found
  <2>1. Finish(l)
    <3>1. pc \in [Loops -> LoopPc]
      BY <1>1 DEF ScanInv, Shape
    <3>2. ASSUME NEW k \in Loops, LoopStep(k) PROVE Finish(l)
      <4>1. k = l
        BY <1>1, <3>1, <3>2 DEF LoopStep, Wakes, Top, TakeSnapshot, Claim, After, List,
           Collect, Dispatch, Finish, Release, Ends, Summarise, Goto
      <4> QED BY <1>1, <3>2, <4>1 DEF LoopStep, Wakes, Top, TakeSnapshot, Claim, After, List,
           Collect, Dispatch, Release, Asleep
    <3>3. ASSUME NEW cfg \in Configs, Reconfigure(cfg) PROVE FALSE
      BY <1>1, <3>1, <3>3 DEF Reconfigure, StartLoop, StopLoop
    <3> QED
      BY <1>1, <3>2, <3>3 DEF Next, Shutdown, StopLoop, ShutdownReturns, WorkerStep, Take,
         CheckCooldown, Ask, Answer, Add, outsidePool, ManualSuccess, Tick, vars, loopVars
  <2> QED BY <1>1, <2>1, FinishCounts
<1>2. ScanInv /\ CountInv /\ [Next]_vars =>
        \A l \in Loops :
          pc[l] = "drain" /\ pc'[l] = "release" /\ ~cancelled[l] => summary' = found
  BY <1>1
<1> QED BY <1>2, AlwaysScanInv, AlwaysCounts, PTL DEF Spec, EveryCandidateCounted

-----------------------------------------------------------------------------
(* The rounds of a loop *)

\* The slack makes up for the time a round takes up to its claim.
StallFits == MaxStall <= Slack

SlotTypes ==
  /\ config \in Configs
  /\ {shutdown, running} \subseteq BOOLEAN
  /\ current \in 0 .. MaxLoops
  /\ robbed \in [Loops -> BOOLEAN]
  /\ clock \in [Loops -> Nat]
  /\ since \in 0 .. Longest
  /\ cool \in [Auths -> 0 .. MaxCooldown]

\* How far the last claim of anybody lies back, as a loop in force sees it
\* that has not been robbed of a round.
Gap(l) ==
  ~cancelled[l] /\ ~robbed[l] =>
    /\ pc[l] \in {"delay", "top", "snapshot", "claim"} => since + Slack >= config.interval
    /\ pc[l] \in Scanning \cup {"after"} => since + Slack >= clock[l]
    /\ pc[l] = "sleep" => since + clock[l] + Slack >= config.interval

RoundInv ==
  /\ \A l \in Loops :
       /\ pc[l] \in {"snapshot", "claim"} => clock[l] <= MaxStall
       /\ pc[l] = "unborn" /\ ~robbed[l] => since = Longest
       /\ Gap(l)

\* There is a longest interval.
LEMMA Intervalled ==
  /\ Longest \in Nat
  /\ \A c \in Configs : c.interval \in Nat \ {0} /\ c.interval <= Longest
<1>1. \E i \in Intervals : \A j \in Intervals : j <= i
  BY ScannerConstants
<1>2. Longest \in Intervals /\ \A j \in Intervals : j <= Longest
  BY <1>1 DEF Longest
<1>3. \A c \in Configs : c.interval \in Intervals /\ c.interval \in Nat \ {0}
  BY ScannerConstants DEF Intervals
<1>4. Intervals \subseteq Nat
  BY <1>3 DEF Intervals
<1> QED BY <1>2, <1>3, <1>4

LEMMA InitRounds == Init => SlotTypes /\ RoundInv
<1> SUFFICES ASSUME Init PROVE SlotTypes /\ RoundInv
  OBVIOUS
<1>1. SlotTypes
  <2>1. since \in 0 .. Longest /\ current \in 0 .. MaxLoops /\ config \in Configs
    BY ScannerConstants, Intervalled DEF Init
  <2>2. cool \in [Auths -> 0 .. MaxCooldown]
    BY ScannerConstants DEF Init
  <2>3. robbed \in [Loops -> BOOLEAN] /\ clock \in [Loops -> Nat]
    BY DEF Init
  <2> QED BY <2>1, <2>2, <2>3 DEF Init, SlotTypes
<1>2. \A l \in Loops : pc[l] = "unborn" /\ since = Longest
  BY DEF Init
<1>3. RoundInv
  BY <1>2 DEF RoundInv, Gap, Scanning
<1> QED BY <1>1, <1>3

LEMMA Cooling ==
  ASSUME SlotTypes, NEW c \in Candidates
  PROVE  Noted(AuthOf(c)) \in [Auths -> 0 .. MaxCooldown]
<1>1. Cooldown \in 0 .. MaxCooldown
  BY ScannerConstants, Intervalled DEF SlotTypes, Cooldown, Smaller
<1> QED BY <1>1, ScannerConstants DEF SlotTypes, Noted

LEMMA NextSlotTypes ==
  ASSUME ScanInv, CountInv, SlotTypes, [Next]_vars PROVE SlotTypes'
<1> USE DEF runtimeVars, loopVars, slotVars, scanVars
<1>0. /\ born \in 0 .. MaxLoops /\ Longest \in Nat /\ config.interval \in Nat
      /\ PoolTypes /\ MaxLoops \in Nat
  BY Intervalled, ScannerConstants DEF ScanInv, Unborn, CountInv, SlotTypes
<1>1. ASSUME NEW cfg \in Configs, Reconfigure(cfg) \/ Shutdown PROVE SlotTypes'
  <2>1. current' \in 0 .. MaxLoops
    BY <1>0, <1>1 DEF Reconfigure, Shutdown, StartLoop, StopLoop, SlotTypes
  <2>2. clock' \in [Loops -> Nat]
    BY <1>0, <1>1, ScannerConstants DEF Reconfigure, Shutdown, StartLoop, StopLoop, SlotTypes
  <2>3. config' \in Configs /\ shutdown' \in BOOLEAN /\ UNCHANGED <<running, robbed, since, cool>>
    BY <1>1 DEF Reconfigure, Shutdown, SlotTypes
  <2> QED BY <2>1, <2>2, <2>3 DEF SlotTypes
<1>2. CASE ShutdownReturns
  BY <1>2 DEF ShutdownReturns, SlotTypes
<1>3. ASSUME NEW l \in Loops, LoopStep(l) PROVE SlotTypes'
  <2>1. clock' \in [Loops -> Nat]
    <3>1. clock' = clock \/ \E t \in Nat : clock' = [clock EXCEPT ![l] = t]
      <4>1. Wait(clock[l]) \in Nat
        BY <1>0 DEF Wait, SlotTypes
      <4> QED BY <1>3, <4>1 DEF LoopStep, Wakes, Top, TakeSnapshot, Claim, After, List, Collect,
            Dispatch, Finish, Release, Ends, SetClock
    <3> QED BY <3>1 DEF SlotTypes
  <2>2. since' \in 0 .. Longest
    BY <1>0, <1>3 DEF LoopStep, Wakes, Top, TakeSnapshot, Claim, After, List, Collect,
       Dispatch, Finish, Release, SlotTypes
  <2>3. robbed' \in [Loops -> BOOLEAN] /\ running' \in BOOLEAN
    <3>1. CASE Claim(l)
      <4>1. CASE Claimable
        <5>1. running' = TRUE /\ robbed' = [k \in Loops |-> k # l]
          BY <3>1, <4>1 DEF Claim
        <5> QED BY <5>1
      <4>2. CASE ~Claimable
        BY <3>1, <4>2 DEF Claim, SlotTypes
      <4> QED BY <4>1, <4>2
    <3>2. CASE ~Claim(l)
      BY <1>3, <3>2 DEF LoopStep, Wakes, Top, TakeSnapshot, After, List, Collect,
         Dispatch, Finish, Release, SlotTypes
    <3> QED BY <3>1, <3>2
  <2>4. UNCHANGED <<config, shutdown, current, cool>>
    BY <1>3 DEF LoopStep, Wakes, Top, TakeSnapshot, Claim, After, List, Collect,
       Dispatch, Finish, Release
  <2> QED BY <2>1, <2>2, <2>3, <2>4 DEF SlotTypes
<1>4. ASSUME NEW w \in Workers, WorkerStep(w) PROVE SlotTypes'
  <2>1. UNCHANGED <<config, shutdown, running, current, robbed, clock, since>>
    BY <1>4 DEF WorkerStep, Take, CheckCooldown, Ask, Answer, Add, outsidePool
  <2>2. cool' \in [Auths -> 0 .. MaxCooldown]
    <3>1. CASE Answer(w)
      <4>1. work[w].job \in Candidates
        BY <1>0, <3>1, Jobbing DEF Answer
      <4> QED BY <3>1, <4>1, Cooling DEF Answer, SlotTypes
    <3>2. CASE ~Answer(w)
      BY <1>4, <3>2 DEF WorkerStep, Take, CheckCooldown, Ask, Add, AfterSkip, SlotTypes
    <3> QED BY <3>1, <3>2
  <2> QED BY <2>1, <2>2 DEF SlotTypes
<1>5. ASSUME NEW a \in Auths, ManualSuccess(a) PROVE SlotTypes'
  BY <1>5, ScannerConstants DEF ManualSuccess, SlotTypes
<1>6. CASE Tick
  <2>1. \A l \in Loops : ClockMoves(l) \in Nat
    BY <1>0 DEF SlotTypes, ClockMoves, Less, Smaller
  <2>2. \A a \in Auths : Less(cool[a]) \in 0 .. MaxCooldown
    BY ScannerConstants DEF SlotTypes, Less
  <2>3. Smaller(since + 1, Longest) \in 0 .. Longest
    BY <1>0 DEF SlotTypes, Smaller
  <2> QED BY <1>6, <2>1, <2>2, <2>3 DEF Tick, SlotTypes
<1>7. CASE vars' = vars
  BY <1>7 DEF vars, SlotTypes
<1> QED
  BY <1>1, <1>2, <1>3, <1>4, <1>5, <1>6, <1>7, ScannerConstants DEF Next

LEMMA AlwaysSlotTypes == Spec => []SlotTypes
<1>1. Init => SlotTypes
  BY InitRounds
<1>2. ScanInv /\ CountInv /\ SlotTypes /\ [Next]_vars => SlotTypes'
  BY NextSlotTypes
<1> QED BY <1>1, <1>2, AlwaysScanInv, AlwaysCounts, PTL DEF Spec

\* Every variable of the scanner stays in its range: the counters of a scan
\* never exceed the candidates there are, no clock turns negative
\* (auto_scanner.go).
THEOREM ScannerTypes == Spec => []TypeOK
<1>1. ScanInv /\ CountInv /\ SlotTypes => TypeOK
  <2> SUFFICES ASSUME ScanInv, CountInv, SlotTypes PROVE TypeOK
    OBVIOUS
  <2>1. PoolTypes /\ acc <= found
    <3>1. PoolTypes /\ Held <= found
      BY DEF CountInv
    <3> QED BY <3>1, HeldIsNumber DEF Held
  <2>2. acc \in Counts
    BY <2>1, Sizes DEF PoolTypes, Counts
  <2>3. ScanInv => Shape /\ born \in 0 .. MaxLoops
    BY DEF ScanInv, Unborn
  <2> QED BY <2>1, <2>2, <2>3 DEF Shape, SlotTypes, PoolTypes, TypeOK
<1> QED BY <1>1, AlwaysScanInv, AlwaysCounts, AlwaysSlotTypes, PTL

\* A step of the loop l, which robs the others or leaves them as they are.
LEMMA OneRound ==
  ASSUME RoundInv, NEW l \in Loops, UNCHANGED <<config, cancelled>>,
         \A k \in Loops \ {l} :
           /\ pc'[k] = pc[k] /\ clock'[k] = clock[k]
           /\ robbed'[k] \/ (~robbed[k] /\ since' = since),
         pc'[l] \in {"snapshot", "claim"} => clock'[l] <= MaxStall,
         pc'[l] # "unborn",
         Gap(l)'
  PROVE  RoundInv'
<1>1. ASSUME NEW k \in Loops, k # l
      PROVE  /\ pc'[k] \in {"snapshot", "claim"} => clock'[k] <= MaxStall
             /\ pc'[k] = "unborn" /\ ~robbed'[k] => since' = Longest
             /\ Gap(k)'
  BY <1>1 DEF RoundInv, Gap
<1> QED BY <1>1 DEF RoundInv

LEMMA LoopRounds ==
  ASSUME StallFits, ScanInv, SlotTypes, RoundInv, NEW l \in Loops, LoopStep(l)
  PROVE  RoundInv'
<1> USE DEF runtimeVars, loopVars, slotVars, scanVars, Goto, SetClock, Ends, Summarise
<1>0. /\ pc \in [Loops -> LoopPc] /\ clock \in [Loops -> Nat] /\ robbed \in [Loops -> BOOLEAN]
      /\ since \in Nat /\ config.interval \in Nat \ {0} /\ Slack \in Nat /\ MaxStall \in Nat
      /\ MaxStall <= Slack /\ clock[l] \in Nat
      /\ Gap(l) /\ (pc[l] \in {"snapshot", "claim"} => clock[l] <= MaxStall)
  BY ScannerConstants, Intervalled DEF StallFits, ScanInv, Shape, SlotTypes, RoundInv
<1>1. UNCHANGED <<config, cancelled>>
  BY DEF LoopStep, Wakes, Top, TakeSnapshot, Claim, After, List, Collect, Dispatch, Finish, Release
<1>2. ASSUME NEW p, p # "unborn", NEW t, pc' = [pc EXCEPT ![l] = p], clock' = [clock EXCEPT ![l] = t],
             UNCHANGED <<since, robbed>>,
             p \in {"snapshot", "claim"} => t <= MaxStall,
             ~cancelled[l] /\ ~robbed[l] =>
               /\ p \in {"delay", "top", "snapshot", "claim"} => since + Slack >= config.interval
               /\ p \in Scanning \cup {"after"} => since + Slack >= t
               /\ p = "sleep" => since + t + Slack >= config.interval
      PROVE  RoundInv'
  <2>1. /\ pc'[l] = p /\ clock'[l] = t
        /\ \A k \in Loops \ {l} : pc'[k] = pc[k] /\ clock'[k] = clock[k]
    BY <1>0, <1>2
  <2>2. Gap(l)'
    BY <1>1, <1>2, <2>1 DEF Gap
  <2>3. CASE \A k \in Loops \ {l} : ~robbed[k] \/ robbed'[k]
    BY <1>1, <1>2, <2>1, <2>2, <2>3, OneRound
  <2> QED BY <1>2, <2>3
<1>3. CASE Wakes(l)
  <2>1. CASE clock[l] = 0 /\ pc' = [pc EXCEPT ![l] = "top"] /\ clock' = clock
    <3>1. clock' = [clock EXCEPT ![l] = 0]
      BY <1>0, <2>1
    <3>2. ~cancelled[l] /\ ~robbed[l] => since + Slack >= config.interval
      BY <1>0, <1>3, <2>1 DEF Wakes, Asleep, Gap
    <3> QED BY <1>2, <1>3, <2>1, <3>1, <3>2 DEF Wakes, Scanning
  <2>2. CASE pc' = [pc EXCEPT ![l] = "ended"] /\ clock' = [clock EXCEPT ![l] = 0]
    BY <1>2, <1>3, <2>2 DEF Wakes, Scanning
  <2> QED BY <1>3, <2>1, <2>2 DEF Wakes
<1>4. CASE Top(l)
  <2>1. CASE cancelled[l]
    BY <1>2, <1>4, <2>1 DEF Top, Scanning
  <2>2. CASE ~cancelled[l]
    <3>1. pc' = [pc EXCEPT ![l] = "snapshot"] /\ clock' = [clock EXCEPT ![l] = 0]
      BY <1>4, <2>2 DEF Top
    <3>2. ~robbed[l] => since + Slack >= config.interval
      BY <1>0, <1>4, <2>2 DEF Top, Gap
    <3>3. UNCHANGED <<since, robbed>> /\ 0 <= MaxStall
      BY <1>0, <1>4 DEF Top
    <3> QED BY <1>2, <3>1, <3>2, <3>3 DEF Scanning
  <2> QED BY <2>1, <2>2
<1>5. CASE TakeSnapshot(l)
  <2>1. /\ clock' = [clock EXCEPT ![l] = clock[l]] /\ clock[l] <= MaxStall
        /\ UNCHANGED <<since, robbed>>
    BY <1>0, <1>5 DEF TakeSnapshot
  <2>2. CASE pc' = [pc EXCEPT ![l] = "after"]
    <3>1. since + Slack >= clock[l]
      BY <1>0, <2>1
    <3> QED BY <1>2, <2>1, <2>2, <3>1 DEF Scanning
  <2>3. CASE pc' = [pc EXCEPT ![l] = "claim"]
    <3>1. ~cancelled[l] /\ ~robbed[l] => since + Slack >= config.interval
      BY <1>0, <1>5 DEF TakeSnapshot, Gap
    <3> QED BY <1>2, <2>1, <2>3, <3>1 DEF Scanning
  <2> QED BY <1>5, <2>2, <2>3 DEF TakeSnapshot
<1>6. CASE Claim(l)
  <2>1. clock' = clock /\ clock[l] <= MaxStall
    BY <1>0, <1>6 DEF Claim
  <2>2. PICK p \in {"list", "after"} : pc' = [pc EXCEPT ![l] = p]
    BY <1>6 DEF Claim
  <2>3. pc'[l] = p /\ \A k \in Loops \ {l} : pc'[k] = pc[k]
    BY <1>0, <2>2
  <2>4. since' \in Nat /\ \A k \in Loops \ {l} : robbed'[k] \/ (~robbed[k] /\ since' = since)
    <3>1. CASE Claimable
      <4>1. robbed' = [k \in Loops |-> k # l] /\ since' = 0
        BY <1>6, <3>1 DEF Claim
      <4> QED BY <4>1
    <3>2. CASE ~Claimable
      <4>1. robbed' = [robbed EXCEPT ![l] = FALSE] /\ since' = since
        BY <1>6, <3>2 DEF Claim
      <4> QED BY <1>0, <4>1
    <3> QED BY <3>1, <3>2
  <2>5. since' + Slack >= clock[l]
    BY <1>0, <2>1, <2>4
  <2>6. Gap(l)'
    BY <2>1, <2>3, <2>5 DEF Gap
  <2> QED BY <1>1, <2>1, <2>3, <2>4, <2>6, OneRound
<1>7. CASE After(l)
  <2>1. CASE cancelled[l]
    BY <1>2, <1>7, <2>1 DEF After, Scanning
  <2>2. CASE ~cancelled[l]
    <3>1. pc' = [pc EXCEPT ![l] = "sleep"] /\ clock' = [clock EXCEPT ![l] = Wait(clock[l])]
      BY <1>7, <2>2 DEF After
    <3>2. Wait(clock[l]) + clock[l] >= config.interval /\ Wait(clock[l]) \in Nat
      BY <1>0 DEF Wait
    <3>3. ~robbed[l] => since + Slack >= clock[l]
      BY <1>0, <1>7, <2>2 DEF After, Gap
    <3>4. ~robbed[l] => since + Wait(clock[l]) + Slack >= config.interval
      BY <1>0, <3>2, <3>3
    <3> QED BY <1>2, <1>7, <3>1, <3>4 DEF After, Scanning
  <2> QED BY <2>1, <2>2
<1>8. CASE List(l) \/ Collect(l) \/ Dispatch(l) \/ Finish(l) \/ Release(l)
  <2>1. /\ pc[l] \in Scanning /\ UNCHANGED <<since, robbed, clock>>
        /\ clock' = [clock EXCEPT ![l] = clock[l]]
    BY <1>0, <1>8 DEF List, Collect, Dispatch, Finish, Release, Scanning
  <2>2. PICK p \in Scanning \cup {"after"} : pc' = [pc EXCEPT ![l] = p]
    <3>1. pc' = pc => pc' = [pc EXCEPT ![l] = pc[l]]
      BY <1>0
    <3>2. pc' = pc \/ \E p \in Scanning \cup {"after"} : pc' = [pc EXCEPT ![l] = p]
      BY <1>8 DEF List, Collect, Dispatch, Finish, Release, Scanning
    <3> QED BY <2>1, <3>1, <3>2
  <2>3. ~cancelled[l] /\ ~robbed[l] => since + Slack >= clock[l]
    BY <1>0, <2>1 DEF Gap
  <2>4. p \notin {"unborn", "delay", "top", "snapshot", "claim", "sleep"}
    BY <2>2 DEF Scanning
  <2> QED BY <1>2, <2>1, <2>2, <2>3, <2>4
<1> QED BY <1>3, <1>4, <1>5, <1>6, <1>7, <1>8 DEF LoopStep

\* A loop in force keeps its interval: a configuration that changes it, or
\* turns the scanner off, cancels the loop.
LEMMA LifeRounds ==
  ASSUME ScanInv, SlotTypes, RoundInv, NEW cfg \in Configs, Reconfigure(cfg) \/ Shutdown
  PROVE  RoundInv'
<1>0. /\ pc \in [Loops -> LoopPc] /\ clock \in [Loops -> Nat] /\ cancelled \in [Loops -> BOOLEAN]
      /\ UNCHANGED <<since, robbed>>
      /\ StartupDelay \in Nat /\ Slack \in Nat /\ Longest \in Nat
      /\ cfg.interval \in Nat /\ cfg.interval <= Longest
  BY ScannerConstants, Intervalled
  DEF ScanInv, Shape, SlotTypes, Reconfigure, Shutdown, slotVars
<1>1. CASE UNCHANGED <<pc, clock, cancelled>> /\ config'.interval = config.interval
  BY <1>0, <1>1 DEF RoundInv, Gap
<1>2. CASE UNCHANGED <<pc, clock>> /\ Cancel
  <2>1. \A l \in Loops : pc[l] # "unborn" => cancelled'[l]
    BY <1>0, <1>2 DEF ScanInv, OthersCancelled, Cancel, Loops
  <2> QED BY <1>0, <1>2, <2>1 DEF RoundInv, Gap, Scanning
<1>3. CASE /\ Cancel /\ born < MaxLoops /\ config' = cfg
           /\ pc' = [pc EXCEPT ![born + 1] = "delay"]
           /\ clock' = [clock EXCEPT ![born + 1] = StartupDelay]
  <2>1. \A l \in Loops : pc[l] # "unborn" => cancelled'[l]
    BY <1>0, <1>3 DEF ScanInv, OthersCancelled, Cancel, Loops
  <2>2. \A l \in Loops : /\ pc'[l] = IF l = born + 1 THEN "delay" ELSE pc[l]
                         /\ l # born + 1 => clock'[l] = clock[l]
    BY <1>0, <1>3
  <2>3. \A l \in Loops : l = born + 1 => pc[l] = "unborn"
    BY DEF ScanInv, Unborn, Loops
  <2>4. ASSUME NEW l \in Loops, l = born + 1
        PROVE  /\ pc'[l] = "delay" /\ Gap(l)'
    <3>1. ~robbed[l] => since = Longest
      BY <2>3, <2>4 DEF RoundInv
    <3> QED BY <1>0, <1>3, <2>2, <2>4, <3>1 DEF Gap, Scanning
  <2>5. ASSUME NEW l \in Loops, l # born + 1
        PROVE  /\ pc'[l] \in {"snapshot", "claim"} => clock'[l] <= MaxStall
               /\ pc'[l] = "unborn" /\ ~robbed'[l] => since' = Longest
               /\ Gap(l)'
    BY <1>0, <2>1, <2>2, <2>5 DEF RoundInv, Gap, Scanning
  <2> QED BY <2>4, <2>5 DEF RoundInv
<1> QED BY <1>1, <1>2, <1>3 DEF Reconfigure, Shutdown, StartLoop, StopLoop

LEMMA TickRounds ==
  ASSUME StallFits, ScanInv, SlotTypes, RoundInv, Tick PROVE RoundInv'
<1> SUFFICES ASSUME NEW l \in Loops
             PROVE  /\ pc'[l] \in {"snapshot", "claim"} => clock'[l] <= MaxStall
                    /\ pc'[l] = "unborn" /\ ~robbed'[l] => since' = Longest
                    /\ Gap(l)'
  BY DEF RoundInv
<1>0. /\ pc[l] \in LoopPc /\ clock[l] \in Nat /\ since \in 0 .. Longest /\ Longest \in Nat
      /\ config.interval \in Nat /\ config.interval <= Longest
      /\ Slack \in Nat /\ MaxStall \in Nat
      /\ UNCHANGED <<pc, robbed, cancelled, config>>
      /\ clock'[l] = ClockMoves(l)
      /\ since' = (IF since + 1 < Longest THEN since + 1 ELSE Longest)
      /\ (pc[l] \in {"snapshot", "claim"} => clock[l] < MaxStall)
  BY ScannerConstants, Intervalled DEF ScanInv, Shape, SlotTypes, Tick, Smaller
<1>1. /\ Gap(l)
      /\ pc[l] = "unborn" /\ ~robbed[l] => since = Longest
  BY DEF RoundInv
<1>2. pc[l] \in {"delay", "sleep"} => clock'[l] = IF clock[l] = 0 THEN 0 ELSE clock[l] - 1
  BY <1>0 DEF ClockMoves, Asleep, Less
<1>3. pc[l] \in Scanning \cup {"after", "snapshot", "claim"} =>
        clock'[l] = IF clock[l] + 1 < Longest THEN clock[l] + 1 ELSE Longest
  BY <1>0 DEF ClockMoves, Asleep, Smaller, Scanning
<1>4. pc'[l] \in {"snapshot", "claim"} => clock'[l] <= MaxStall
  BY <1>0, <1>3
<1>5. pc'[l] = "unborn" /\ ~robbed'[l] => since' = Longest
  BY <1>0, <1>1
<1>6. ASSUME ~cancelled[l], ~robbed[l], pc[l] \in {"delay", "top", "snapshot", "claim"}
      PROVE  since' + Slack >= config.interval
  BY <1>0, <1>1, <1>6 DEF Gap
<1>7. ASSUME ~cancelled[l], ~robbed[l], pc[l] \in Scanning \cup {"after"}
      PROVE  since' + Slack >= clock'[l]
  BY <1>0, <1>1, <1>3, <1>7 DEF Gap
<1>8. ASSUME ~cancelled[l], ~robbed[l], pc[l] = "sleep"
      PROVE  since' + clock'[l] + Slack >= config.interval
  BY <1>0, <1>1, <1>2, <1>8 DEF Gap
<1> QED BY <1>0, <1>4, <1>5, <1>6, <1>7, <1>8 DEF Gap

LEMMA AlwaysRounds == ASSUME StallFits PROVE Spec => []RoundInv
<1>1. ASSUME ScanInv, SlotTypes, RoundInv, [Next]_vars PROVE RoundInv'
  <2> USE <1>1 DEF runtimeVars, loopVars, slotVars
  <2>1. ASSUME UNCHANGED <<pc, clock, cancelled, config, since, robbed>> PROVE RoundInv'
    BY <2>1 DEF RoundInv, Gap
  <2>2. ASSUME NEW w \in Workers, WorkerStep(w) PROVE RoundInv'
    BY <2>1, <2>2 DEF WorkerStep, Take, CheckCooldown, Ask, Answer, Add, outsidePool
  <2>3. CASE ShutdownReturns \/ vars' = vars \/ \E a \in Auths : ManualSuccess(a)
    BY <2>1, <2>3 DEF ShutdownReturns, vars, ManualSuccess
  <2> QED
    BY <2>2, <2>3, LoopRounds, LifeRounds, TickRounds, ScannerConstants DEF Next
<1>2. Init => RoundInv
  BY InitRounds
<1> QED BY <1>1, <1>2, AlwaysScanInv, AlwaysSlotTypes, PTL DEF Spec

\* A loop in force loses a round only to another scan: if the slack covers the
\* time a round takes up to its claim, the gap to the loop's own last claim is
\* never too short (auto_scanner.go: claimAutoScanSlot, autoScanWait).
THEOREM NoRoundIsLost == ASSUME StallFits PROVE Spec => RoundsAreKept
<1>1. ASSUME ScanInv, SlotTypes, RoundInv, [Next]_vars, NEW l \in Loops,
             pc[l] = "claim", pc'[l] = "after", ~cancelled[l]
      PROVE  running \/ robbed[l]
  <2>0. pc \in [Loops -> LoopPc]
    BY <1>1 DEF ScanInv, Shape
  <2>1. Claim(l)
    <3>1. ASSUME NEW k \in Loops, LoopStep(k) PROVE Claim(l)
      <4>1. k = l
        BY <1>1, <2>0, <3>1 DEF LoopStep, Wakes, Top, TakeSnapshot, Claim, After, List,
           Collect, Dispatch, Finish, Release, Ends, Summarise, Goto
      <4> QED BY <1>1, <3>1, <4>1 DEF LoopStep, Wakes, Top, TakeSnapshot, Claim, After, List,
           Collect, Dispatch, Finish, Release, Asleep
    <3>2. ASSUME NEW cfg \in Configs, Reconfigure(cfg) PROVE FALSE
      BY <1>1, <2>0, <3>2 DEF Reconfigure, StartLoop, StopLoop
    <3> QED
      BY <1>1, <3>1, <3>2 DEF Next, Shutdown, StopLoop, ShutdownReturns, WorkerStep, Take,
         CheckCooldown, Ask, Answer, Add, outsidePool, ManualSuccess, Tick, vars, loopVars
  <2>2. ~Claimable
    BY <1>1, <2>0, <2>1 DEF Claim, Goto
  <2>3. ~robbed[l] => since + Slack >= config.interval
    BY <1>1 DEF RoundInv, Gap
  <2>4. since \in Nat /\ Slack \in Nat /\ config.interval \in Nat
    BY <1>1, ScannerConstants, Intervalled DEF SlotTypes
  <2> QED BY <2>2, <2>3, <2>4 DEF Claimable, MinGap
<1>2. ScanInv /\ SlotTypes /\ RoundInv /\ [Next]_vars =>
        \A l \in Loops :
          pc[l] = "claim" /\ pc'[l] = "after" /\ ~cancelled[l] => running \/ robbed[l]
  BY <1>1
<1> QED BY <1>2, AlwaysScanInv, AlwaysSlotTypes, AlwaysRounds, PTL DEF Spec, RoundsAreKept
=============================================================================

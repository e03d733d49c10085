------------------------- MODULE Activation_proofs --------------------------
(***************************************************************************)
(* The scanner alone, with any number of workers, run slots, targets,      *)
(* windows and observations, wakes no closed cycle, and keeps the promise  *)
(* of WakeOnce.                                                            *)
(*                                                                         *)
(* ScanInv says why no closed cycle is woken.  The scanner's pool holds a  *)
(* target once (OneEach), so that between evaluation and record nobody     *)
(* else changes what the store has on it; observations are later than all  *)
(* that is stored (Later), so that a success recorded is the newest; and   *)
(* the gate finds the newest, so that what is then recorded on the key of  *)
(* a success that counts is a wake, and never a skip (Judged).             *)
(*                                                                         *)
(* KeepInv says why a success that was reported outlives a crash.  With    *)
(* one run slot nobody records while another saves, so that every document *)
(* that is renamed into place is the store as it is.                       *)
(***************************************************************************)
EXTENDS ActivationSlots_proofs, StateStore_proofs

\* A plugin that is never reconfigured and serves only the scanner; it may
\* crash if it has one run slot.  Every window is one the gates rely on, and no
\* auth mixes grouped and ungrouped records.  The state file holds observations
\* of earlier processes.
ScannerAlone ==
  /\ Manual = {}
  /\ MaxReloads = 0
  /\ MaxCrashes = 0 \/ MaxConcurrency = 1
  /\ Windows \cap ShortWindows = {}
  /\ Unmixed
  /\ \A f \in StartFiles : \A r \in f : r.obs = 0

-----------------------------------------------------------------------------
(* The invariant *)

OneGeneration ==
  /\ generation = 0
  /\ reload = NoReload
  /\ crashes \in Nat

ScanTypes ==
  /\ now \in 1 .. MaxNow
  /\ store \in [Generations -> SUBSET Observations]
  /\ pc \in [Callers -> CallerPc]
  /\ gen = [c \in Callers |-> 0]
  /\ req \in [Callers -> Observations \cup {Nothing}]
  /\ \A c \in Callers : pc[c] # "idle" => req[c] \in Observations
  /\ closed \in [Targets -> SUBSET Observations]

OneEach ==
  \A c, d \in Callers :
    pc[c] # "idle" /\ pc[d] # "idle" /\ Target(req[c]) = Target(req[d]) => c = d

Later ==
  /\ \A r \in store[0] : r.obs < now
  /\ \A c \in Callers : pc[c] # "idle" => req[c].obs < now
  /\ \A c \in Callers, r \in store[0] :
       pc[c] \in Early /\ Target(r) = Target(req[c]) => r.obs < req[c].obs

ClosedHeld ==
  \A t \in Targets : \A r \in closed[t] :
    Target(r) = t /\ IsNewest(store[0], r)

Judged ==
  \A c \in Callers :
    /\ pc[c] = "evaluated" =>
         \A r \in closed[Target(req[c])] : Key(req[c]) = Key(r) => Recovered(req[c], r)
    /\ pc[c] = "skipping" =>
         \A r \in closed[Target(req[c])] : Key(req[c]) # Key(r)
    /\ pc[c] = "waking" => closed[Target(req[c])] = {}

ScanInv == OneGeneration /\ ScanTypes /\ OneEach /\ Later /\ ClosedHeld /\ Judged

\* What a crash leaves.  With one run slot nobody records between the copy of
\* the store and its rename.
FileHolds ==
  /\ file \subseteq Observations
  /\ \A r \in file : r.obs < now
  /\ \A t \in reported : \A r \in closed[t] : IsNewest(file, r)
  /\ \A c \in Callers : pc[c] = "saving" => draft[c] = store[0]

KeepInv ==
  /\ draft \in [Callers -> SUBSET Observations]
  /\ reported \subseteq Targets
  /\ \A t \in reported : closed[t] # {}
  /\ MaxConcurrency = 1 => FileHolds

-----------------------------------------------------------------------------
(* Lemmas about observations *)

\* Records with one key have one target.
LEMMA SameTarget ==
  ASSUME NEW q, NEW r, Key(q) = Key(r)
  PROVE  Target(q) = Target(r)
BY KeyTarget DEF Target

\* A success that counts is what every query of the gates finds.
LEMMA CountingSuccess ==
  ASSUME ScannerAlone, ScanInv, NEW t \in Targets, NEW r \in closed[t]
  PROVE  /\ r \in store[0]
         /\ r.auth = t.auth /\ r.group = t.group
         /\ LatestSuccess(store[0], t.auth, t.group) = {r}
         /\ \A cached : \A view \in GateViews(store[0], cached) :
              UsableLatest(view, t.auth, t.group) = {r}
<1>1. r \in Observations /\ Target(r) = t /\ IsNewest(store[0], r)
  BY DEF ScanInv, ScanTypes, ClosedHeld
<1>2. store[0] \subseteq Observations
  BY DEF ScanInv, ScanTypes, ScannerAlone, Generations
<1>3. Timed(store[0])
  BY <1>2, ObservationFields DEF Timed
<1>4. r.auth = t.auth /\ r.group = t.group /\ r \in store[0]
  BY <1>1 DEF Target, IsNewest
<1>5. Usable(r)
  BY <1>1, ObservationFields DEF Usable, IsNewest, ScannerAlone
<1>6. \A q \in store[0] : q.auth = r.auth /\ q.group = NoGroup => r.group = NoGroup
  <2> SUFFICES ASSUME NEW q \in store[0], q.auth = r.auth, q.group = NoGroup
               PROVE  r.group = NoGroup
      OBVIOUS
  <2>1. Target(q) \in Targets
    BY <1>2, ObservationFields
  <2>2. Target(q).auth = t.auth /\ Target(q).group = NoGroup
    BY <1>4 DEF Target
  <2> QED BY <1>4, <2>1, <2>2 DEF ScannerAlone, Unmixed
<1>7. PickLatest(store[0], r.auth, r.group) = {r}
  BY <1>1, <1>3, PicksNewest
<1>8. ASSUME NEW cached, NEW view \in GateViews(store[0], cached)
      PROVE  UsableLatest(view, r.auth, r.group) = {r}
  BY <1>1, <1>3, <1>5, <1>6, GateFindsNewest
<1> QED BY <1>4, <1>7, <1>8 DEF LatestSuccess

-----------------------------------------------------------------------------
(* The invariant holds at first *)

\* A process that has loaded its file has no caller and no closed cycle.
LEMMA InitScanInv ==
  ASSUME ScannerAlone, Init
  PROVE  ScanInv
<1>1. Generations = {0}
  BY DEF ScannerAlone, Generations
<1>2. file \subseteq {r \in Observations : r.obs = 0}
  BY ActivationConstants DEF Init, ScannerAlone
<1>3. store = [g \in Generations |-> file]
  BY <1>1 DEF Init, Fresh
<1>4. OneGeneration
  BY DEF Init, OneGeneration
<1>5. ScanTypes
  <2>1. now \in 1 .. MaxNow
    BY NumericConstants DEF Init
  <2>2. store \in [Generations -> SUBSET Observations]
    BY <1>2, <1>3
  <2> QED BY <2>1, <2>2 DEF Init, ScanTypes, CallerPc
<1>6. OneEach
  BY DEF Init, OneEach
<1>7. Later
  BY <1>1, <1>2, <1>3 DEF Init, Later, Early
<1>8. ClosedHeld
  BY DEF Init, ClosedHeld
<1>9. Judged
  BY DEF Init, Judged
<1> QED BY <1>4, <1>5, <1>6, <1>7, <1>8, <1>9 DEF ScanInv

-----------------------------------------------------------------------------
(* and in every step *)

\* Every part of the invariant is a matter of now, store, pc, gen, req, closed
\* and of there being one process.
LEMMA UnchangedScanInv ==
  ASSUME ScanInv,
         UNCHANGED <<now, generation, reload, crashes, store, pc, gen, req, closed>>
  PROVE  ScanInv'
BY DEF ScanInv, OneGeneration, ScanTypes, OneEach, Later, ClosedHeld, Judged

\* What the caller c leaves behind disturbs nobody.
LEMMA DoneScanInv ==
  ASSUME ScannerAlone, ScanInv, NEW c \in Callers,
         pc' = [pc EXCEPT ![c] = "idle"],
         req' = [req EXCEPT ![c] = Nothing],
         gen' = [gen EXCEPT ![c] = 0],
         UNCHANGED <<now, generation, reload, crashes, store, closed>>
  PROVE  ScanInv'
<1>1. pc \in [Callers -> CallerPc] /\ DOMAIN req = Callers
  BY DEF ScanInv, ScanTypes
<1>2. \A d \in Callers : pc'[d] # "idle" => d # c /\ pc'[d] = pc[d] /\ req'[d] = req[d]
  BY <1>1
<1>3. OneGeneration'
  BY DEF ScanInv, OneGeneration
<1>4. ScanTypes'
  <2>1. gen' = [d \in Callers |-> 0]
    BY DEF ScanInv, ScanTypes
  <2>2. pc' \in [Callers -> CallerPc]
    BY <1>1 DEF CallerPc
  <2>3. req' \in [Callers -> Observations \cup {Nothing}]
    BY DEF ScanInv, ScanTypes
  <2> QED BY <1>2, <2>1, <2>2, <2>3 DEF ScanInv, ScanTypes
<1>5. OneEach'
  BY <1>2 DEF ScanInv, OneEach
<1>6. Later'
  BY <1>2 DEF ScanInv, Later, Early
<1>7. ClosedHeld'
  BY DEF ScanInv, ClosedHeld
<1>8. Judged'
  BY <1>2 DEF ScanInv, Judged
<1> QED BY <1>3, <1>4, <1>5, <1>6, <1>7, <1>8 DEF ScanInv

\* A caller that saves what it recorded changes no part of the invariant.
LEMMA SavingScanInv ==
  ASSUME ScanInv, NEW c \in Callers, NEW label \in {"saving", "saved"},
         pc[c] \in {"stored", "saving"}, Goto(c, label),
         UNCHANGED <<now, generation, reload, crashes, store, req, gen, closed>>
  PROVE  ScanInv'
<1>1. pc \in [Callers -> CallerPc]
  BY DEF ScanInv, ScanTypes
<1>2. pc' \in [Callers -> CallerPc]
  BY <1>1 DEF Goto, CallerPc
<1>3. \A d \in Callers : (pc'[d] # "idle") <=> (pc[d] # "idle")
  BY <1>1 DEF Goto
<1>4. \A d \in Callers, l \in Early : pc'[d] = l => pc[d] = l
  BY <1>1 DEF Goto, Early
<1>5. OneGeneration'
  BY DEF ScanInv, OneGeneration
<1>6. ScanTypes'
  BY <1>2, <1>3 DEF ScanInv, ScanTypes
<1>7. OneEach'
  BY <1>3 DEF ScanInv, OneEach
<1>8. Later'
  BY <1>3, <1>4 DEF ScanInv, Later, Early
<1>9. ClosedHeld'
  BY DEF ScanInv, ClosedHeld
<1>10. Judged'
  BY <1>4 DEF ScanInv, Judged, Early
<1> QED BY <1>5, <1>6, <1>7, <1>8, <1>9, <1>10 DEF ScanInv

\* An observation is later than all before it, no other worker has its target,
\* and the evaluation has looked at the success that counts.
LEMMA EvaluateScanInv ==
  ASSUME ScannerAlone, ScanInv, NEW c \in Callers, Evaluate(c)
  PROVE  ScanInv'
<1>1. /\ generation = 0 /\ gen = [d \in Callers |-> 0]
      /\ pc \in [Callers -> CallerPc]
      /\ req \in [Callers -> Observations \cup {Nothing}]
      /\ now \in 1 .. MaxNow
      /\ Callers = Workers
  BY DEF ScanInv, OneGeneration, ScanTypes, ScannerAlone, Callers
<1>2. PICK t \in Targets, g \in 0 .. generation, w \in Windows,
           reset \in Resets, rem \in Remaining :
        /\ ScanAdmits(c, t, g)
        /\ Wanted(c, g, Observation(t, w, reset, now, rem))
        /\ req' = [req EXCEPT ![c] = Observation(t, w, reset, now, rem)]
        /\ gen' = [gen EXCEPT ![c] = g]
  BY <1>1 DEF Evaluate
<1> DEFINE q == Observation(t, w, reset, now, rem)
<1>3. g = 0
  BY <1>1
<1>4. q \in Observations /\ Target(q) = t /\ q.obs = now
  <2>1. now \in 0 .. MaxNow
    BY <1>1, NumericConstants
  <2> QED BY <2>1, ObservationMade
<1>5. /\ pc[c] = "idle" /\ now < MaxNow /\ now' = now + 1
      /\ pc' = [pc EXCEPT ![c] = "evaluated"]
      /\ UNCHANGED <<generation, reload, crashes, store, closed>>
  BY DEF Evaluate, Goto, processVars, boundVars, historyVars
<1>6. /\ req' \in [Callers -> Observations \cup {Nothing}]
      /\ req'[c] = q /\ pc'[c] = "evaluated"
      /\ \A d \in Callers : d # c => pc'[d] = pc[d] /\ req'[d] = req[d]
  <2> HIDE DEF q
  <2>1. req' = [req EXCEPT ![c] = q]
    BY <1>2 DEF q
  <2> QED BY <1>1, <1>4, <1>5, <2>1
<1>7. \A d \in Callers : d # c /\ pc[d] # "idle" => Target(req[d]) # t
  BY <1>1, <1>2 DEF ScanAdmits
<1>8. Activates(store[0], q)
  BY <1>2, <1>3 DEF Wanted
<1> HIDE DEF q
<1>9. OneGeneration'
  BY <1>5 DEF ScanInv, OneGeneration
<1>10. ScanTypes'
  <2>1. now' \in 1 .. MaxNow
    BY <1>1, <1>5, NumericConstants
  <2>2. gen' = [d \in Callers |-> 0]
    BY <1>1, <1>2, <1>3
  <2>3. pc' \in [Callers -> CallerPc]
    BY <1>1, <1>5 DEF CallerPc
  <2>4. \A d \in Callers : pc'[d] # "idle" => req'[d] \in Observations
    BY <1>4, <1>6 DEF ScanInv, ScanTypes
  <2> QED BY <1>5, <1>6, <2>1, <2>2, <2>3, <2>4 DEF ScanInv, ScanTypes
<1>11. OneEach'
  BY <1>4, <1>6, <1>7 DEF ScanInv, OneEach
<1>12. Later'
  <2>1. ASSUME NEW r \in Observations, r.obs < now
        PROVE  r.obs < now'
    <3>1. r.obs \in Int
      BY ObservationFields
    <3> QED BY <1>1, <1>5, <2>1, <3>1
  <2>2. store[0] \subseteq Observations
    BY DEF ScanInv, ScanTypes, ScannerAlone, Generations
  <2>3. q.obs < now'
    BY <1>1, <1>4, <1>5
  <2>4. \A r \in store'[0] : r.obs < now'
    BY <1>5, <2>1, <2>2 DEF ScanInv, Later
  <2>5. \A d \in Callers : pc'[d] # "idle" => req'[d].obs < now'
    BY <1>6, <2>1, <2>3 DEF ScanInv, Later, ScanTypes
  <2>6. \A d \in Callers, r \in store'[0] :
          pc'[d] \in Early /\ Target(r) = Target(req'[d]) => r.obs < req'[d].obs
    BY <1>4, <1>5, <1>6 DEF ScanInv, Later
  <2> QED BY <2>4, <2>5, <2>6 DEF Later
<1>13. ClosedHeld'
  BY <1>5 DEF ScanInv, ClosedHeld
<1>14. Judged'
  <2>1. \A r \in closed[t] : Key(q) = Key(r) => Recovered(q, r)
    <3> SUFFICES ASSUME NEW r \in closed[t], Key(q) = Key(r)
                 PROVE  Recovered(q, r)
        OBVIOUS
    <3>1. LatestSuccess(store[0], t.auth, t.group) = {r}
      BY CountingSuccess
    <3>2. q.auth = t.auth /\ q.group = t.group
      BY <1>4 DEF Target
    <3> QED BY <1>8, <3>1, <3>2 DEF Activates
  <2> QED BY <1>4, <1>5, <1>6, <2>1 DEF ScanInv, Judged
<1> QED BY <1>9, <1>10, <1>11, <1>12, <1>13, <1>14 DEF ScanInv

\* The gate finds the success that counts, so that a wake it lets pass begins
\* when that success is over (activator.go: Activate).
LEMMA GateIsRight ==
  ASSUME ScannerAlone, ScanInv, NEW c \in Callers, pc[c] = "evaluated",
         NEW cached, NEW view \in GateViews(store[0], cached),
         NEW r \in closed[Target(req[c])]
  PROVE  HardSkips(view, req[c], now) <=> ~Over(r, req[c], now)
<1>1. req[c] \in Observations
  BY DEF ScanInv, ScanTypes
<1>2. /\ Target(req[c]) \in Targets
      /\ Target(req[c]).auth = req[c].auth /\ Target(req[c]).group = req[c].group
  BY <1>1, ObservationFields DEF Target
<1>3. UsableLatest(view, req[c].auth, req[c].group) = {r} /\ r \in store[0]
  BY <1>2, CountingSuccess
<1>4. r.reset \in Int /\ now \in Int
  <2>1. r \in Observations
    BY <1>2 DEF ScanInv, ScanTypes
  <2> QED BY <2>1, ObservationFields DEF ScanInv, ScanTypes
<1> QED BY <1>3, <1>4 DEF HardSkips, Over

\* A wake reopens its cycle; a skip is not on the key of a success that counts,
\* for with that key the evaluation found the cycle refilled.
LEMMA EnterScanInv ==
  ASSUME ScannerAlone, ScanInv, NEW c \in Callers, Enter(c)
  PROVE  ScanInv'
<1> DEFINE T == Target(req[c])
<1>1. /\ pc \in [Callers -> CallerPc] /\ gen[c] = 0
      /\ req[c] \in Observations /\ T \in Targets
      /\ closed \in [Targets -> SUBSET Observations]
  BY ObservationFields DEF ScanInv, ScanTypes, Enter
<1>2. /\ pc[c] = "evaluated"
      /\ UNCHANGED <<now, generation, reload, crashes, store, req, gen>>
  BY DEF Enter, boundVars
<1>3. PICK view \in GateViews(store[0], cache[0]) :
        \/ /\ HardSkips(view, req[c], now)
           /\ pc' = [pc EXCEPT ![c] = "skipping"]
           /\ closed' = closed
        \/ /\ pc' = [pc EXCEPT ![c] = "waking"]
           /\ closed' = [closed EXCEPT ![T] = {}]
  BY <1>1 DEF Enter, Goto, historyVars
<1>4. /\ pc' \in [Callers -> CallerPc]
      /\ pc'[c] \in {"skipping", "waking"}
      /\ \A d \in Callers : d # c => pc'[d] = pc[d]
  BY <1>1, <1>3 DEF CallerPc
<1>5. closed' \in [Targets -> SUBSET Observations]
      /\ \A t \in Targets : closed'[t] \subseteq closed[t]
  BY <1>1, <1>3
<1>6. OneGeneration'
  BY <1>2 DEF ScanInv, OneGeneration
<1>7. ScanTypes'
  BY <1>2, <1>4, <1>5 DEF ScanInv, ScanTypes
<1>8. OneEach'
  BY <1>2, <1>4 DEF ScanInv, OneEach
<1>9. Later'
  BY <1>2, <1>4 DEF ScanInv, Later, Early
<1>10. ClosedHeld'
  BY <1>2, <1>5 DEF ScanInv, ClosedHeld
<1>11. Judged'
  <2>1. ASSUME NEW d \in Callers, d # c
        PROVE  /\ pc[d] # "idle" => Target(req[d]) \in Targets
               /\ pc'[d] = pc[d]
    BY <1>4, <2>1, ObservationFields DEF ScanInv, ScanTypes
  <2>2. ASSUME NEW d \in Callers, d # c
        PROVE  /\ pc'[d] = "evaluated" =>
                    \A r \in closed'[Target(req'[d])] :
                      Key(req'[d]) = Key(r) => Recovered(req'[d], r)
               /\ pc'[d] = "skipping" =>
                    \A r \in closed'[Target(req'[d])] : Key(req'[d]) # Key(r)
               /\ pc'[d] = "waking" => closed'[Target(req'[d])] = {}
    BY <1>2, <1>5, <2>1, <2>2 DEF ScanInv, Judged
  <2>3. CASE pc'[c] = "waking"
    <3>1. closed'[T] = {}
      BY <1>1, <1>3, <2>3
    <3> QED BY <1>2, <2>2, <2>3, <3>1 DEF Judged
  <2>4. CASE pc'[c] = "skipping"
    <3>1. HardSkips(view, req[c], now) /\ closed' = closed
      BY <1>1, <1>3, <2>4
    <3>2. \A r \in closed[T] : ~Over(r, req[c], now)
      BY <1>2, <3>1, GateIsRight
    <3>3. \A r \in closed[T] : Key(req[c]) # Key(r)
      BY <1>2, <3>2 DEF ScanInv, Judged, Over
    <3> QED BY <1>2, <2>2, <2>4, <3>1, <3>3 DEF Judged
  <2> QED BY <1>4, <2>3, <2>4
<1> QED BY <1>6, <1>7, <1>8, <1>9, <1>10, <1>11 DEF ScanInv

\* What is recorded is the newest on its target, and replaces no success that
\* counts (result_state.go: storeResult).
LEMMA RecordScanInv ==
  ASSUME ScannerAlone, ScanInv, NEW c \in Callers, Record(c)
  PROVE  ScanInv'
<1>1. /\ pc \in [Callers -> CallerPc] /\ gen[c] = 0
      /\ store \in [Generations -> SUBSET Observations] /\ 0 \in Generations
      /\ closed \in [Targets -> SUBSET Observations]
      /\ req \in [Callers -> Observations \cup {Nothing}]
  BY DEF ScanInv, ScanTypes, ScannerAlone, Generations
<1>2. /\ pc[c] \in {"waking", "skipping"}
      /\ pc' = [pc EXCEPT ![c] = "stored"]
      /\ UNCHANGED <<now, generation, reload, crashes, gen>>
  BY DEF Record, Goto, boundVars
<1>3. req[c] \in Observations /\ Target(req[c]) \in Targets
  BY <1>2, ObservationFields DEF ScanInv, ScanTypes
<1>4. PICK result \in Outcomes(c) :
        /\ req' = [req EXCEPT ![c] = [req[c] EXCEPT !.result = result]]
        /\ store' = [store EXCEPT ![0] = Upsert(@, [req[c] EXCEPT !.result = result])]
        /\ IF result = "success"
           THEN closed' = [closed EXCEPT ![Target([req[c] EXCEPT !.result = result])]
                                           = {[req[c] EXCEPT !.result = result]}]
           ELSE closed' = closed
  BY <1>1 DEF Record, historyVars
<1> DEFINE r == [req[c] EXCEPT !.result = result]
           T == Target(req[c])
<1>5. /\ r \in Observations /\ r.result = result /\ r.obs = req[c].obs
      /\ Target(r) = T /\ Key(r) = Key(req[c])
      /\ r.auth = T.auth /\ r.group = T.group
  <2>1. result \in Results
    BY <1>4 DEF Outcomes, Results
  <2> QED BY <1>3, <2>1, ObservationFields DEF Target
<1>6. result = "success" => pc[c] = "waking"
  BY <1>2, <1>4 DEF Outcomes
<1>7. /\ req' = [req EXCEPT ![c] = r]
      /\ store' = [store EXCEPT ![0] = Upsert(store[0], r)]
      /\ IF result = "success" THEN closed' = [closed EXCEPT ![T] = {r}]
                               ELSE closed' = closed
  BY <1>1, <1>4, <1>5
<1> HIDE DEF r
<1>8. /\ req' \in [Callers -> Observations \cup {Nothing}]
      /\ req'[c] = r
      /\ \A d \in Callers : d # c => req'[d] = req[d] /\ pc'[d] = pc[d]
      /\ pc'[c] = "stored" /\ pc[c] # "idle"
      /\ pc' \in [Callers -> CallerPc]
  BY <1>1, <1>2, <1>5, <1>7 DEF CallerPc
<1>9. store'[0] = {q \in store[0] : Key(q) # Key(r)} \cup {r}
  BY <1>1, <1>7 DEF Upsert
<1>10. \A d \in Callers : d # c /\ pc[d] # "idle" =>
          Target(req[d]) # T /\ Target(req[d]) \in Targets
  BY <1>8, ObservationFields DEF ScanInv, OneEach, ScanTypes
<1>11. \A t \in Targets : t # T => closed'[t] = closed[t]
  BY <1>1, <1>7
<1>12. OneGeneration'
  BY <1>2 DEF ScanInv, OneGeneration
<1>13. ScanTypes'
  <2>1. store' \in [Generations -> SUBSET Observations]
    BY <1>1, <1>5, <1>7 DEF Upsert
  <2>2. closed' \in [Targets -> SUBSET Observations]
    BY <1>1, <1>3, <1>5, <1>7
  <2>3. \A d \in Callers : pc'[d] # "idle" => req'[d] \in Observations
    BY <1>5, <1>8 DEF ScanInv, ScanTypes
  <2> QED BY <1>2, <1>8, <2>1, <2>2, <2>3 DEF ScanInv, ScanTypes
<1>14. OneEach'
  BY <1>5, <1>8, <1>10 DEF ScanInv, OneEach
<1>15. Later'
  <2>1. r.obs < now
    BY <1>5, <1>8 DEF ScanInv, Later
  <2>2. \A q \in store'[0] : q.obs < now'
    BY <1>2, <1>9, <2>1 DEF ScanInv, Later
  <2>3. \A d \in Callers : pc'[d] # "idle" => req'[d].obs < now'
    BY <1>2, <1>8, <2>1 DEF ScanInv, Later
  <2>4. ASSUME NEW d \in Callers, NEW q \in store'[0], pc'[d] \in Early,
               Target(q) = Target(req'[d])
        PROVE  q.obs < req'[d].obs
    <3>1. d # c /\ pc[d] \in Early /\ req'[d] = req[d] /\ pc[d] # "idle"
      BY <1>8, <2>4 DEF Early
    <3>2. q # r
      BY <1>5, <1>10, <2>4, <3>1
    <3> QED BY <1>9, <2>4, <3>1, <3>2 DEF ScanInv, Later
  <2> QED BY <2>2, <2>3, <2>4 DEF Later
<1>16. ClosedHeld'
  <2> SUFFICES ASSUME NEW t \in Targets, NEW p \in closed'[t]
               PROVE  Target(p) = t /\ IsNewest(store'[0], p)
      BY DEF ClosedHeld
  <2>1. ASSUME p \in closed[t], Key(p) # Key(r),
               t # T \/ r.result # "success"
        PROVE  Target(p) = t /\ IsNewest(store'[0], p)
    <3>1. Target(p) = t /\ IsNewest(store[0], p)
      BY <2>1 DEF ScanInv, ClosedHeld
    <3>2. p \in store'[0] /\ p.result = "success"
      BY <1>9, <2>1, <3>1 DEF IsNewest
    <3>3. r.auth = p.auth /\ r.group = p.group => r.result # "success"
      BY <1>5, <2>1, <3>1 DEF Target
    <3> QED BY <1>9, <3>1, <3>2, <3>3 DEF IsNewest
  <2>2. CASE t # T
    <3>1. p \in closed[t] /\ Target(p) = t
      BY <1>11, <2>2 DEF ScanInv, ClosedHeld
    <3>2. Key(p) # Key(r)
      BY <1>5, <2>2, <3>1, SameTarget
    <3> QED BY <2>1, <2>2, <3>1, <3>2
  <2>3. CASE t = T /\ result = "success"
    <3>1. p = r
      BY <1>1, <1>3, <1>7, <2>3
    <3>2. \A q \in store[0] : Target(q) = T => q.obs < r.obs
      BY <1>2, <1>5 DEF ScanInv, Later, Early
    <3>3. \A q \in store[0] : q.auth = r.auth /\ q.group = r.group => q.obs < r.obs
      BY <1>5, <3>2 DEF Target
    <3> QED BY <1>5, <1>9, <2>3, <3>1, <3>3 DEF IsNewest
  <2>4. CASE t = T /\ result # "success"
    <3>1. p \in closed[T]
      BY <1>7, <2>4
    <3>2. pc[c] = "skipping"
      BY <1>2, <3>1 DEF ScanInv, Judged
    <3>3. Key(p) # Key(r)
      BY <1>5, <3>1, <3>2 DEF ScanInv, Judged
    <3> QED BY <1>5, <2>1, <2>4, <3>1, <3>3
  <2> QED BY <2>2, <2>3, <2>4
<1>17. Judged'
  BY <1>8, <1>10, <1>11 DEF ScanInv, Judged
<1> QED BY <1>12, <1>13, <1>14, <1>15, <1>16, <1>17 DEF ScanInv

\* Time makes all that was observed older.
LEMMA TickScanInv ==
  ASSUME ScannerAlone, ScanInv, Tick
  PROVE  ScanInv'
<1>1. /\ now < MaxNow /\ now' = now + 1 /\ now \in 1 .. MaxNow
      /\ UNCHANGED <<generation, reload, crashes, store, pc, gen, req, closed>>
  BY DEF Tick, ScanInv, ScanTypes, processVars, callerVars, boundVars, historyVars
<1>2. now' \in 1 .. MaxNow
  BY <1>1, NumericConstants
<1>3. \A r \in Observations : r.obs < now => r.obs < now'
  BY <1>1, ObservationFields
<1>4. store[0] \subseteq Observations
  BY DEF ScanInv, ScanTypes, ScannerAlone, Generations
<1>5. Later'
  BY <1>1, <1>3, <1>4 DEF ScanInv, Later, ScanTypes
<1> QED BY <1>1, <1>2, <1>5
        DEF ScanInv, OneGeneration, ScanTypes, OneEach, ClosedHeld, Judged

\* The new process has what the file has, and every closed cycle that was
\* reported saved is in it; no caller is left.
LEMMA CrashScanInv ==
  ASSUME ScannerAlone, ScanInv, KeepInv, Crash
  PROVE  ScanInv'
<1>1. FileHolds
  <2>1. crashes \in Nat /\ crashes < MaxCrashes
    BY DEF ScanInv, OneGeneration, Crash
  <2> QED BY <2>1 DEF ScannerAlone, KeepInv
<1>2. Generations = {0}
  BY DEF ScannerAlone, Generations
<1>3. store' = [g \in Generations |-> file]
  BY <1>2 DEF Crash, Fresh
<1>4. \A t \in Targets : closed'[t] = IF t \in reported THEN closed[t] ELSE {}
  BY DEF Crash
<1>5. /\ now' = now /\ pc' = [c \in Callers |-> "idle"]
      /\ req' = [c \in Callers |-> Nothing] /\ gen' = [c \in Callers |-> 0]
  BY DEF Crash
<1>6. OneGeneration'
  BY DEF Crash, ScanInv, OneGeneration
<1>7. ScanTypes'
  <2>1. closed' \in [Targets -> SUBSET Observations]
    BY DEF Crash, ScanInv, ScanTypes
  <2>2. store' \in [Generations -> SUBSET Observations]
    BY <1>1, <1>3 DEF FileHolds
  <2> QED BY <1>5, <2>1, <2>2 DEF ScanInv, ScanTypes, CallerPc
<1>8. OneEach'
  BY <1>5 DEF OneEach
<1>9. Later'
  BY <1>1, <1>2, <1>3, <1>5 DEF FileHolds, Later, Early
<1>10. ClosedHeld'
  BY <1>1, <1>2, <1>3, <1>4 DEF FileHolds, ScanInv, ClosedHeld
<1>11. Judged'
  BY <1>5 DEF Judged
<1> QED BY <1>6, <1>7, <1>8, <1>9, <1>10, <1>11 DEF ScanInv

\* The other disjuncts of Next never happen: there is no reload.
LEMMA NextScanInv ==
  ASSUME ScannerAlone, ScanInv, KeepInv, [Next]_vars
  PROVE  ScanInv'
<1>1. ASSUME NEW c \in Callers, Busy(c) PROVE ScanInv'
  BY <1>1, DoneScanInv DEF Busy, Goto, processVars, boundVars, historyVars
<1>2. ASSUME NEW c \in Callers, Leave(c) PROVE ScanInv'
  BY <1>2, DoneScanInv DEF Leave, Goto, boundVars, historyVars
<1>3. ASSUME NEW c \in Callers, Snapshot(c) PROVE ScanInv'
  BY <1>3, SavingScanInv DEF Snapshot, processVars, boundVars, historyVars
<1>4. ASSUME NEW c \in Callers, Rename(c) PROVE ScanInv'
  BY <1>4, SavingScanInv DEF Rename, processVars, boundVars
<1>5. ASSUME NEW c \in Callers, SaveFails(c) PROVE ScanInv'
  BY <1>5, SavingScanInv DEF SaveFails, processVars, historyVars
<1>6. ~ReloadBegin /\ ~ReloadRead /\ ~ReloadMerge /\ ~ReloadSwap
  BY DEF ScanInv, OneGeneration, ScannerAlone, NoReload,
         ReloadBegin, ReloadRead, ReloadMerge, ReloadSwap
<1>7. CASE UNCHANGED vars
  BY <1>7, UnchangedScanInv
     DEF vars, processVars, callerVars, boundVars, historyVars
<1> QED BY <1>1, <1>2, <1>3, <1>4, <1>5, <1>6, <1>7, EvaluateScanInv,
           EnterScanInv, RecordScanInv, TickScanInv, CrashScanInv DEF Next

-----------------------------------------------------------------------------
(* What is kept outlives a crash *)

\* With one run slot, one caller runs.
LEMMA OneRunner ==
  ASSUME ScannerAlone, ScanInv, SlotInv, MaxConcurrency = 1,
         NEW c \in Callers, NEW d \in Callers,
         pc[c] \notin {"idle", "evaluated"}, pc[d] \notin {"idle", "evaluated"}
  PROVE  c = d
<1>1. /\ c \in slots[0] /\ d \in slots[0]
      /\ IsFiniteSet(slots[0]) /\ Cardinality(slots[0]) <= 1
  BY DEF ScannerAlone, ScanInv, ScanTypes, SlotInv, Holders, Generations
<1> SUFFICES ASSUME c # d PROVE FALSE
  OBVIOUS
<1>2. /\ IsFiniteSet(slots[0] \ {c})
      /\ Cardinality(slots[0] \ {c}) = Cardinality(slots[0]) - 1
  BY <1>1, FS_RemoveElement
<1>3. Cardinality(slots[0]) \in Nat /\ Cardinality(slots[0] \ {c}) \in Nat
  BY <1>1, <1>2, FS_CardinalityType
<1>4. Cardinality(slots[0] \ {c}) = 0
  BY <1>1, <1>2, <1>3
<1>5. slots[0] \ {c} = {}
  BY <1>2, <1>4, FS_EmptySet
<1> QED BY <1>1, <1>5

LEMMA InitKeepInv ==
  ASSUME ScannerAlone, Init
  PROVE  KeepInv
<1>1. file \subseteq {r \in Observations : r.obs = 0}
  BY ActivationConstants DEF Init, ScannerAlone
<1> QED BY <1>1 DEF Init, KeepInv, FileHolds

LEMMA UnchangedKeepInv ==
  ASSUME KeepInv,
         UNCHANGED <<now, store, file, pc, draft, closed, reported>>
  PROVE  KeepInv'
BY DEF KeepInv, FileHolds

\* Observing, leaving and waiting touch neither the file nor what is kept.
LEMMA ApartKeepInv ==
  ASSUME ScannerAlone, ScanInv, KeepInv,
         now' = now \/ now' = now + 1,
         \A c \in Callers : pc'[c] = "saving" => pc[c] = "saving",
         UNCHANGED <<store, file, draft, closed, reported>>
  PROVE  KeepInv'
<1>1. ASSUME NEW r \in Observations, r.obs < now PROVE r.obs < now'
  BY <1>1, ObservationFields DEF ScanInv, ScanTypes
<1> QED BY <1>1 DEF KeepInv, FileHolds

LEMMA EnterKeepInv ==
  ASSUME ScannerAlone, ScanInv, KeepInv, NEW c \in Callers, Enter(c)
  PROVE  KeepInv'
<1> DEFINE T == Target(req[c])
<1>1. /\ pc \in [Callers -> CallerPc]
      /\ req[c] \in Observations /\ T \in Targets
      /\ closed \in [Targets -> SUBSET Observations]
  BY ObservationFields DEF ScanInv, ScanTypes, Enter
<1>2. /\ UNCHANGED <<now, store, file, draft>>
      /\ \E label \in {"skipping", "waking"} : pc' = [pc EXCEPT ![c] = label]
      /\ \/ UNCHANGED <<closed, reported>>
         \/ closed' = [closed EXCEPT ![T] = {}] /\ reported' = reported \ {T}
  BY DEF Enter, Goto, historyVars, boundVars
<1>3. \A t \in reported' : t \in reported /\ closed'[t] = closed[t]
  BY <1>1, <1>2 DEF KeepInv
<1>4. \A d \in Callers : pc'[d] = "saving" => pc[d] = "saving"
  BY <1>1, <1>2
<1> QED BY <1>2, <1>3, <1>4 DEF KeepInv, FileHolds

LEMMA RecordKeepInv ==
  ASSUME ScannerAlone, ScanInv, SlotInv, KeepInv, NEW c \in Callers, Record(c)
  PROVE  KeepInv'
<1>1. /\ pc \in [Callers -> CallerPc]
      /\ pc[c] \in {"waking", "skipping"} /\ pc' = [pc EXCEPT ![c] = "stored"]
      /\ closed \in [Targets -> SUBSET Observations]
      /\ UNCHANGED <<now, file, draft>>
  BY DEF ScanInv, ScanTypes, Record, Goto
<1>2. \E r : \/ UNCHANGED <<closed, reported>>
             \/ /\ closed' = [closed EXCEPT ![Target(r)] = {r}]
                /\ reported' = reported \ {Target(r)}
  BY DEF Record, historyVars
<1>3. \A t \in reported' : t \in reported /\ closed'[t] = closed[t]
  BY <1>1, <1>2 DEF KeepInv
<1>4. ASSUME MaxConcurrency = 1 PROVE FileHolds'
  <2>1. \A d \in Callers : pc'[d] # "saving"
    BY <1>1, <1>4, OneRunner
  <2> QED BY <1>1, <1>3, <1>4, <2>1 DEF KeepInv, FileHolds
<1> QED BY <1>1, <1>3, <1>4 DEF KeepInv

LEMMA SnapshotKeepInv ==
  ASSUME ScannerAlone, ScanInv, KeepInv, NEW c \in Callers, Snapshot(c)
  PROVE  KeepInv'
<1>1. /\ pc \in [Callers -> CallerPc] /\ gen[c] = 0
      /\ store[0] \subseteq Observations
  BY DEF ScanInv, ScanTypes, ScannerAlone, Generations
<1>2. /\ draft' = [draft EXCEPT ![c] = store[0]]
      /\ pc' = [pc EXCEPT ![c] = "saving"]
      /\ UNCHANGED <<now, store, file, closed, reported>>
  BY <1>1 DEF Snapshot, Document, Goto, processVars, historyVars
<1>3. draft' \in [Callers -> SUBSET Observations]
  BY <1>1, <1>2 DEF KeepInv
<1>4. \A d \in Callers : pc'[d] = "saving" =>
        draft'[d] = store'[0] \/ (pc[d] = "saving" /\ draft'[d] = draft[d])
  BY <1>1, <1>2 DEF KeepInv
<1> QED BY <1>2, <1>3, <1>4 DEF KeepInv, FileHolds

\* What is renamed into place is the store as it is, and every success that
\* counts is in it.
LEMMA RenameKeepInv ==
  ASSUME ScannerAlone, ScanInv, KeepInv, NEW c \in Callers, Rename(c)
  PROVE  KeepInv'
<1>1. /\ pc \in [Callers -> CallerPc]
      /\ store[0] \subseteq Observations
  BY DEF ScanInv, ScanTypes, ScannerAlone, Generations
<1>2. /\ pc[c] = "saving" /\ pc' = [pc EXCEPT ![c] = "saved"]
      /\ draft' = [draft EXCEPT ![c] = {}]
      /\ file' = draft[c]
      /\ reported' = reported \cup {t \in Targets : closed[t] = {req[c]}}
      /\ UNCHANGED <<now, store, closed>>
  BY DEF Rename, Goto, processVars
<1>3. draft' \in [Callers -> SUBSET Observations]
  BY <1>2 DEF KeepInv
<1>4. reported' \subseteq Targets /\ \A t \in reported' : closed'[t] # {}
  BY <1>2 DEF KeepInv
<1>5. ASSUME MaxConcurrency = 1 PROVE FileHolds'
  <2>1. file' = store[0]
    BY <1>2, <1>5 DEF KeepInv, FileHolds
  <2>2. \A d \in Callers : pc'[d] = "saving" => pc[d] = "saving" /\ draft'[d] = draft[d]
    BY <1>1, <1>2 DEF KeepInv
  <2>3. \A t \in reported' : \A r \in closed'[t] : IsNewest(file', r)
    BY <1>2, <1>4, <2>1 DEF ScanInv, ClosedHeld
  <2> QED BY <1>1, <1>2, <1>5, <2>1, <2>2, <2>3 DEF KeepInv, FileHolds, ScanInv, Later
<1> QED BY <1>3, <1>4, <1>5 DEF KeepInv

LEMMA SaveFailsKeepInv ==
  ASSUME ScanInv, KeepInv, NEW c \in Callers, SaveFails(c)
  PROVE  KeepInv'
<1>1. /\ pc \in [Callers -> CallerPc]
      /\ pc' = [pc EXCEPT ![c] = "saved"]
      /\ draft' = [draft EXCEPT ![c] = {}]
      /\ UNCHANGED <<now, store, file, closed, reported>>
  BY DEF ScanInv, ScanTypes, SaveFails, Goto, processVars, historyVars
<1>2. \A d \in Callers : pc'[d] = "saving" => pc[d] = "saving" /\ draft'[d] = draft[d]
  BY <1>1 DEF KeepInv
<1>3. draft' \in [Callers -> SUBSET Observations]
  BY <1>1 DEF KeepInv
<1> QED BY <1>1, <1>2, <1>3 DEF KeepInv, FileHolds

LEMMA CrashKeepInv ==
  ASSUME ScanInv, KeepInv, Crash
  PROVE  KeepInv'
<1>1. /\ draft' = [c \in Callers |-> {}] /\ pc' = [c \in Callers |-> "idle"]
      /\ \A t \in reported : t \in Targets /\ closed'[t] = closed[t]
      /\ UNCHANGED <<now, file, reported>>
  BY DEF Crash, KeepInv
<1> QED BY <1>1 DEF KeepInv, FileHolds

LEMMA NextKeepInv ==
  ASSUME ScannerAlone, ScanInv, SlotInv, KeepInv, [Next]_vars
  PROVE  KeepInv'
<1>0. pc \in [Callers -> CallerPc]
  BY DEF ScanInv, ScanTypes
<1>1. ASSUME NEW c \in Callers, Evaluate(c) PROVE KeepInv'
  <2>1. /\ now' = now + 1 /\ pc' = [pc EXCEPT ![c] = "evaluated"]
        /\ UNCHANGED <<store, file, draft, closed, reported>>
    BY <1>1 DEF Evaluate, Goto, processVars, historyVars
  <2> QED BY <1>0, <2>1, ApartKeepInv
<1>2. ASSUME NEW c \in Callers, Busy(c) \/ Leave(c) PROVE KeepInv'
  <2>1. /\ now' = now /\ pc' = [pc EXCEPT ![c] = "idle"]
        /\ UNCHANGED <<store, file, draft, closed, reported>>
    BY <1>2 DEF Busy, Leave, Goto, processVars, historyVars
  <2> QED BY <1>0, <2>1, ApartKeepInv
<1>3. CASE Tick
  BY <1>3, ApartKeepInv DEF Tick, processVars, callerVars, historyVars
<1>4. ~ReloadBegin /\ ~ReloadRead /\ ~ReloadMerge /\ ~ReloadSwap
  BY DEF ScanInv, OneGeneration, ScannerAlone, NoReload,
         ReloadBegin, ReloadRead, ReloadMerge, ReloadSwap
<1>5. CASE UNCHANGED vars
  BY <1>5, UnchangedKeepInv DEF vars, processVars, callerVars, historyVars
<1> QED BY <1>1, <1>2, <1>3, <1>4, <1>5, EnterKeepInv, RecordKeepInv,
           SnapshotKeepInv, RenameKeepInv, SaveFailsKeepInv, CrashKeepInv DEF Next

-----------------------------------------------------------------------------
(* Theorems *)

\* The invariant of the scanner alone, from one scan to the next.
THEOREM ScanInvariant ==
  ASSUME ScannerAlone
  PROVE  Spec => []ScanInv
<1>1. Init => ScanInv /\ KeepInv
  BY InitScanInv, InitKeepInv
<1>2. ScanInv /\ KeepInv /\ SlotInv /\ [Next]_vars => ScanInv' /\ KeepInv'
  BY NextScanInv, NextKeepInv
<1> QED BY <1>1, <1>2, InitSlotInv, NextSlots, PTL DEF Spec

\* With the scanner alone, the success that closes a cycle is what every query
\* finds, for any number of workers, slots and targets.
THEOREM ScanKeepsNewest ==
  ASSUME ScannerAlone
  PROVE  Spec => []ClosedIsNewest
<1>1. ScanInv => ClosedIsNewest
  <2> SUFFICES ASSUME ScanInv, NEW t \in Targets, NEW r \in closed[t]
               PROVE  LatestSuccess(store[generation], t.auth, t.group) = {r}
      BY DEF ClosedIsNewest
  <2>1. LatestSuccess(store[0], t.auth, t.group) = {r}
    BY CountingSuccess
  <2> QED BY <2>1 DEF ScanInv, OneGeneration
<1> QED BY <1>1, ScanInvariant, PTL

\* With the scanner alone, no wake begins in a cycle that a success closed, for
\* any number of workers, slots and targets.
THEOREM ScanWakesNoClosedCycle ==
  ASSUME ScannerAlone
  PROVE  Spec => NoWakeInClosedCycle
<1> DEFINE Honest(c) == pc[c] = "evaluated" /\ pc'[c] = "waking" =>
                          \A r \in closed[Target(req[c])] : Over(r, req[c], now)
<1>1. ASSUME ScanInv, Next, NEW c \in Callers
      PROVE  Honest(c)
  <2> SUFFICES ASSUME pc[c] = "evaluated", pc'[c] = "waking",
                      NEW r \in closed[Target(req[c])]
               PROVE  Over(r, req[c], now)
      OBVIOUS
  <2>1. pc \in [Callers -> CallerPc] /\ gen[c] = 0
    BY <1>1 DEF ScanInv, ScanTypes
  <2>2. Enter(c)
    BY <1>1, <2>1
       DEF Next, Evaluate, Busy, Enter, Record, Snapshot, Rename, SaveFails,
           Leave, Goto, ReloadBegin, ReloadRead, ReloadMerge, ReloadSwap, Crash, Tick,
           callerVars
  <2>3. PICK view \in GateViews(store[0], cache[0]) : ~HardSkips(view, req[c], now)
    BY <2>1, <2>2 DEF Enter, Goto
  <2> QED BY <1>1, <2>3, GateIsRight
<1>2. ScanInv /\ [Next]_vars => [\A c \in Callers : Honest(c)]_vars
  BY <1>1
<1> QED BY <1>2, ScanInvariant, PTL DEF Spec, NoWakeInClosedCycle

-----------------------------------------------------------------------------
(* The scanner alone wakes each cycle once *)

\* What WakeOnce sees: the cycle a target is being woken in, and the cycle it
\* was last woken in.
Attempt == [t \in Targets |->
              {Seen(req[c]) : c \in {d \in Callers :
                 pc[d] = "waking" /\ Target(req[d]) = t}}]
Closed == [t \in Targets |-> {Seen(r) : r \in closed[t]}]

\* The steps of WakeOnce, told of what it sees.
LEMMA StutterStep ==
  ASSUME UNCHANGED <<now, Attempt, Closed, reported>>
  PROVE  [Promise!Next]_(Promise!vars)
BY Zenon DEF Attempt, Closed, Promise!vars

LEMMA BeginStep ==
  ASSUME NEW t \in Targets, NEW q \in [reset : AnyReset, rem : Remaining],
         Attempt[t] = {},
         \A r \in Closed[t] : r.reset <= now \/ Promise!Refilled(q, r),
         Attempt' = [Attempt EXCEPT ![t] = {q}],
         Closed' = [Closed EXCEPT ![t] = {}],
         reported' = reported \ {t},
         UNCHANGED now
  PROVE  [Promise!Next]_(Promise!vars)
<1>1. Promise!Begin(t)
  BY Zenon DEF Attempt, Closed, Promise!Begin, Promise!Open
<1> QED BY Zenon, <1>1 DEF Promise!Next

LEMMA SucceedStep ==
  ASSUME NEW t \in Targets,
         Attempt[t] # {},
         Attempt' = [Attempt EXCEPT ![t] = {}],
         Closed' = [Closed EXCEPT ![t] = Attempt[t]],
         UNCHANGED <<now, reported>>
  PROVE  [Promise!Next]_(Promise!vars)
<1>1. Promise!Succeed(t)
  BY Zenon DEF Attempt, Closed, Promise!Succeed
<1> QED BY Zenon, <1>1 DEF Promise!Next

LEMMA FailStep ==
  ASSUME NEW t \in Targets,
         Attempt[t] # {},
         Attempt' = [Attempt EXCEPT ![t] = {}],
         UNCHANGED <<now, Closed, reported>>
  PROVE  [Promise!Next]_(Promise!vars)
<1>1. Promise!Fail(t)
  BY Zenon DEF Attempt, Closed, Promise!Fail
<1> QED BY Zenon, <1>1 DEF Promise!Next

LEMMA KeepStep ==
  ASSUME NEW t \in Targets,
         Closed[t] # {},
         reported' = reported \cup {t},
         UNCHANGED <<now, Attempt, Closed>>
  PROVE  [Promise!Next]_(Promise!vars)
<1>1. Promise!Keep(t)
  BY Zenon DEF Attempt, Closed, Promise!Keep
<1> QED BY Zenon, <1>1 DEF Promise!Next

LEMMA RestartStep ==
  ASSUME Attempt' = [t \in Targets |-> {}],
         Closed' = [t \in Targets |-> IF t \in reported THEN Closed[t] ELSE {}],
         UNCHANGED <<now, reported>>
  PROVE  [Promise!Next]_(Promise!vars)
<1>1. Promise!Restart
  BY Zenon DEF Attempt, Closed, Promise!Restart
<1> QED BY Zenon, <1>1 DEF Promise!Next

LEMMA TickStep ==
  ASSUME now' = now + 1, UNCHANGED <<Attempt, Closed, reported>>
  PROVE  [Promise!Next]_(Promise!vars)
<1>1. Promise!Tick
  BY Zenon DEF Attempt, Closed, Promise!Tick
<1> QED BY Zenon, <1>1 DEF Promise!Next

\* A step that changes no caller that is waking leaves every attempt as it is.
LEMMA SameAttempt ==
  ASSUME \A c \in Callers :
           /\ pc'[c] = "waking" <=> pc[c] = "waking"
           /\ pc[c] = "waking" => req'[c] = req[c]
  PROVE  Attempt' = Attempt
<1>1. ASSUME NEW t \in Targets
      PROVE  {d \in Callers : pc'[d] = "waking" /\ Target(req'[d]) = t}
               = {d \in Callers : pc[d] = "waking" /\ Target(req[d]) = t}
  OBVIOUS
<1>2. ASSUME NEW t \in Targets
      PROVE  Attempt'[t] = Attempt[t]
  BY <1>1 DEF Attempt
<1> QED BY <1>2 DEF Attempt

\* The attempt on the target of a caller is the caller's own.
LEMMA OwnAttempt ==
  ASSUME ScanInv, NEW c \in Callers, pc[c] # "idle"
  PROVE  /\ Target(req[c]) \in Targets
         /\ pc[c] = "waking" => Attempt[Target(req[c])] = {Seen(req[c])}
         /\ pc[c] # "waking" => Attempt[Target(req[c])] = {}
<1> DEFINE T == Target(req[c])
           W == {d \in Callers : pc[d] = "waking" /\ Target(req[d]) = T}
<1>1. T \in Targets
  BY ObservationFields DEF ScanInv, ScanTypes
<1>2. \A d \in W : d = c
  BY DEF ScanInv, OneEach
<1>3. Attempt[T] = {Seen(req[d]) : d \in W}
  BY <1>1 DEF Attempt
<1>4. CASE pc[c] = "waking"
  BY <1>1, <1>2, <1>3, <1>4
<1>5. CASE pc[c] # "waking"
  <2>1. W = {}
    BY <1>2, <1>5
  <2> QED BY <1>1, <1>3, <1>5, <2>1
<1> QED BY <1>1, <1>4, <1>5

\* A caller that begins or ends a wake changes the attempt on its own target.
LEMMA OthersAttempt ==
  ASSUME ScanInv, NEW c \in Callers, pc[c] # "idle",
         pc'[c] # "waking" \/ Target(req'[c]) = Target(req[c]),
         \A d \in Callers : d # c => pc'[d] = pc[d] /\ req'[d] = req[d]
  PROVE  Attempt' = [Attempt EXCEPT ![Target(req[c])] = Attempt'[Target(req[c])]]
<1> DEFINE T == Target(req[c])
<1>1. ASSUME NEW t \in Targets, t # T
      PROVE  Attempt'[t] = Attempt[t]
  <2>1. {d \in Callers : pc'[d] = "waking" /\ Target(req'[d]) = t}
          = {d \in Callers : pc[d] = "waking" /\ Target(req[d]) = t}
    BY <1>1
  <2>2. \A d \in Callers : pc[d] = "waking" /\ Target(req[d]) = t => req'[d] = req[d]
    BY <1>1
  <2> QED BY <2>1, <2>2 DEF Attempt
<1> QED BY <1>1 DEF Attempt

\* A wake that the gate lets pass begins in an open cycle.
LEMMA EnterPromise ==
  ASSUME ScannerAlone, ScanInv, NEW c \in Callers, Enter(c)
  PROVE  [Promise!Next]_(Promise!vars)
<1> DEFINE T == Target(req[c])
           q == Seen(req[c])
<1>1. /\ pc \in [Callers -> CallerPc] /\ gen[c] = 0
      /\ req[c] \in Observations /\ T \in Targets
      /\ closed \in [Targets -> SUBSET Observations]
      /\ pc[c] = "evaluated"
  BY ObservationFields DEF ScanInv, ScanTypes, Enter
<1>2. UNCHANGED <<now, req>>
  BY DEF Enter
<1>3. PICK view \in GateViews(store[0], cache[0]) :
        \/ /\ pc' = [pc EXCEPT ![c] = "skipping"]
           /\ UNCHANGED <<closed, reported>>
        \/ /\ ~HardSkips(view, req[c], now)
           /\ pc' = [pc EXCEPT ![c] = "waking"]
           /\ closed' = [closed EXCEPT ![T] = {}]
           /\ reported' = reported \ {T}
  BY <1>1 DEF Enter, Goto, historyVars
<1>4. \A d \in Callers : d # c => pc'[d] = pc[d] /\ req'[d] = req[d]
  BY <1>1, <1>2, <1>3
<1>5. CASE pc'[c] = "skipping"
  <2>1. UNCHANGED <<closed, reported>>
    BY <1>1, <1>3, <1>5
  <2>2. Attempt' = Attempt
    BY <1>1, <1>2, <1>4, <1>5, SameAttempt
  <2>3. Closed' = Closed
    BY <2>1 DEF Closed
  <2> QED BY <1>1, <1>2, <2>1, <2>2, <2>3, StutterStep
<1>6. CASE pc'[c] = "waking"
  <2>1. /\ ~HardSkips(view, req[c], now)
        /\ closed' = [closed EXCEPT ![T] = {}]
        /\ reported' = reported \ {T}
    BY <1>1, <1>3, <1>6
  <2>2. Attempt[T] = {}
    BY <1>1, OwnAttempt
  <2>3. q \in [reset : AnyReset, rem : Remaining]
    BY <1>1 DEF Seen, Observations
  <2>4. \A r \in Closed[T] : r.reset <= now \/ Promise!Refilled(q, r)
    <3>1. \A r \in closed[T] : Over(r, req[c], now)
      BY <1>1, <1>3, <2>1, GateIsRight
    <3>2. \A r \in closed[T] : r.reset <= now \/ Promise!Refilled(q, Seen(r))
      BY <3>1 DEF Over, Recovered, HasSnapshot, NoSnapshot, Promise!Refilled, Seen
    <3> QED BY <1>1, <3>2 DEF Closed, Seen
  <2>5. Attempt' = [Attempt EXCEPT ![T] = {q}]
    <3>1. Attempt' = [Attempt EXCEPT ![T] = Attempt'[T]]
      BY <1>1, <1>2, <1>4, OthersAttempt
    <3>2. \A d \in Callers : pc'[d] = "waking" /\ Target(req'[d]) = T <=> d = c
      BY <1>1, <1>2, <1>4, <1>6 DEF ScanInv, OneEach
    <3>3. {d \in Callers : pc'[d] = "waking" /\ Target(req'[d]) = T} = {c}
      BY <3>2
    <3>4. Attempt'[T] = {q}
      BY <1>1, <1>2, <3>3 DEF Attempt
    <3> QED BY <3>1, <3>4
  <2>6. Closed' = [Closed EXCEPT ![T] = {}]
    BY <1>1, <2>1 DEF Closed
  <2> QED BY <1>1, <1>2, <2>1, <2>2, <2>3, <2>4, <2>5, <2>6, BeginStep
<1> QED BY <1>1, <1>3, <1>5, <1>6

\* The record of a wake ends the attempt, and closes its cycle if it succeeded.
LEMMA RecordPromise ==
  ASSUME ScannerAlone, ScanInv, KeepInv, NEW c \in Callers, Record(c)
  PROVE  [Promise!Next]_(Promise!vars)
<1> DEFINE T == Target(req[c])
<1>1. /\ pc \in [Callers -> CallerPc] /\ pc[c] \in {"waking", "skipping"}
      /\ req \in [Callers -> Observations \cup {Nothing}]
      /\ req[c] \in Observations /\ T \in Targets
      /\ closed \in [Targets -> SUBSET Observations]
      /\ pc' = [pc EXCEPT ![c] = "stored"]
      /\ now' = now
  BY ObservationFields DEF ScanInv, ScanTypes, Record, Goto
<1>2. PICK result \in Outcomes(c) :
        /\ req' = [req EXCEPT ![c] = [req[c] EXCEPT !.result = result]]
        /\ IF result = "success"
           THEN /\ closed' = [closed EXCEPT ![Target([req[c] EXCEPT !.result = result])]
                                              = {[req[c] EXCEPT !.result = result]}]
                /\ reported' = reported \ {Target([req[c] EXCEPT !.result = result])}
           ELSE UNCHANGED <<closed, reported>>
  BY DEF Record, historyVars
<1> DEFINE r == [req[c] EXCEPT !.result = result]
<1>3. result \in Results
  BY <1>2 DEF Outcomes, Results
<1>4. r \in Observations /\ Target(r) = T
  BY <1>1, <1>3, ObservationFields
<1>5. Seen(r) = Seen(req[c])
  BY <1>1 DEF Observations, Seen
<1>6. /\ req' = [req EXCEPT ![c] = r]
      /\ result = "success" => closed' = [closed EXCEPT ![T] = {r}] /\ reported' = reported \ {T}
      /\ result # "success" => UNCHANGED <<closed, reported>>
  BY <1>2, <1>4
<1> HIDE DEF r
<1>7. \A d \in Callers : d # c => pc'[d] = pc[d] /\ req'[d] = req[d]
  BY <1>1, <1>6
<1>8. CASE pc[c] = "skipping"
  <2>1. UNCHANGED <<closed, reported>>
    BY <1>2, <1>6, <1>8 DEF Outcomes
  <2>2. Attempt' = Attempt
    BY <1>1, <1>7, <1>8, SameAttempt
  <2>3. Closed' = Closed
    BY <2>1 DEF Closed
  <2> QED BY <1>1, <2>1, <2>2, <2>3, StutterStep
<1>9. CASE pc[c] = "waking"
  <2>1. Attempt[T] = {Seen(req[c])}
    BY <1>1, <1>9, OwnAttempt
  <2>2. Attempt' = [Attempt EXCEPT ![T] = {}]
    <3>1. Attempt' = [Attempt EXCEPT ![T] = Attempt'[T]]
      BY <1>1, <1>7, OthersAttempt
    <3>2. \A d \in Callers : d # c /\ pc[d] = "waking" => Target(req[d]) # T
      BY <1>9 DEF ScanInv, OneEach
    <3>3. {d \in Callers : pc'[d] = "waking" /\ Target(req'[d]) = T} = {}
      BY <1>1, <1>7, <3>2
    <3>4. Attempt'[T] = {}
      BY <1>1, <3>3 DEF Attempt
    <3> QED BY <3>1, <3>4
  <2>3. CASE result = "success"
    <3>1. T \notin reported
      BY <1>9 DEF ScanInv, Judged, KeepInv
    <3>2. reported' = reported /\ closed' = [closed EXCEPT ![T] = {r}]
      BY <1>6, <2>3, <3>1
    <3>3. Closed' = [Closed EXCEPT ![T] = Attempt[T]]
      BY <1>1, <1>5, <2>1, <3>2 DEF Closed
    <3> QED BY <1>1, <2>1, <2>2, <3>2, <3>3, SucceedStep
  <2>4. CASE result # "success"
    <3>1. reported' = reported /\ Closed' = Closed
      BY <1>6, <2>4 DEF Closed
    <3> QED BY <1>1, <2>1, <2>2, <3>1, FailStep
  <2> QED BY <2>3, <2>4
<1> QED BY <1>1, <1>8, <1>9

\* A rename keeps at most the success of its caller.
LEMMA RenamePromise ==
  ASSUME ScannerAlone, ScanInv, NEW c \in Callers, Rename(c)
  PROVE  [Promise!Next]_(Promise!vars)
<1> DEFINE own == {t \in Targets : closed[t] = {req[c]}}
<1>1. /\ pc \in [Callers -> CallerPc] /\ pc[c] = "saving"
      /\ pc' = [pc EXCEPT ![c] = "saved"]
      /\ reported' = reported \cup own
      /\ UNCHANGED <<now, req, closed>>
  BY DEF ScanInv, ScanTypes, Rename, Goto
<1>2. Attempt' = Attempt
  BY <1>1, SameAttempt
<1>3. Closed' = Closed
  BY <1>1 DEF Closed
<1>4. \A t \in own : t = Target(req[c])
  BY DEF ScanInv, ClosedHeld
<1>5. CASE own = {}
  BY <1>1, <1>2, <1>3, <1>5, StutterStep
<1>6. ASSUME NEW t \in own
      PROVE  [Promise!Next]_(Promise!vars)
  <2>1. own = {t} /\ t \in Targets
    BY <1>4, <1>6
  <2>2. Closed[t] # {}
    BY <2>1, <1>6 DEF Closed
  <2> QED BY <1>1, <1>2, <1>3, <2>1, <2>2, KeepStep
<1> QED BY <1>5, <1>6

\* A process that dies forgets what was not kept.
LEMMA CrashPromise ==
  ASSUME Crash
  PROVE  [Promise!Next]_(Promise!vars)
<1>1. /\ pc' = [c \in Callers |-> "idle"]
      /\ closed' = [t \in Targets |-> IF t \in reported THEN closed[t] ELSE {}]
      /\ UNCHANGED <<now, reported>>
  BY DEF Crash
<1>2. Attempt' = [t \in Targets |-> {}]
  BY <1>1 DEF Attempt
<1>3. Closed' = [t \in Targets |-> IF t \in reported THEN Closed[t] ELSE {}]
  BY <1>1 DEF Closed
<1> QED BY <1>1, <1>2, <1>3, RestartStep

LEMMA NextPromise ==
  ASSUME ScannerAlone, ScanInv, KeepInv, [Next]_vars
  PROVE  [Promise!Next]_(Promise!vars)
<1>0. pc \in [Callers -> CallerPc]
  BY DEF ScanInv, ScanTypes
<1>1. ASSUME NEW c \in Callers, Evaluate(c) PROVE [Promise!Next]_(Promise!vars)
  <2>1. /\ pc[c] = "idle" /\ pc' = [pc EXCEPT ![c] = "evaluated"]
        /\ \A d \in Callers : d # c => req'[d] = req[d]
        /\ now' = now + 1
        /\ UNCHANGED <<closed, reported>>
    BY <1>1 DEF Evaluate, Goto, historyVars, ScanInv, ScanTypes
  <2>2. Attempt' = Attempt
    BY <1>0, <2>1, SameAttempt
  <2>3. Closed' = Closed
    BY <2>1 DEF Closed
  <2> QED BY <2>1, <2>2, <2>3, TickStep
<1>2. ASSUME NEW c \in Callers,
             Busy(c) \/ Snapshot(c) \/ SaveFails(c) \/ Leave(c)
      PROVE  [Promise!Next]_(Promise!vars)
  <2>1. /\ pc[c] # "waking"
        /\ \E label \in {"idle", "saving", "saved"} : pc' = [pc EXCEPT ![c] = label]
        /\ \A d \in Callers : d # c => req'[d] = req[d]
        /\ UNCHANGED <<now, closed, reported>>
    BY <1>2 DEF Busy, Snapshot, SaveFails, Leave, Goto, historyVars, ScanInv, ScanTypes
  <2>2. Attempt' = Attempt
    BY <1>0, <2>1, SameAttempt
  <2>3. Closed' = Closed
    BY <2>1 DEF Closed
  <2> QED BY <2>1, <2>2, <2>3, StutterStep
<1>3. CASE Tick
  <2>1. now' = now + 1 /\ UNCHANGED <<pc, req, closed, reported>>
    BY <1>3 DEF Tick, callerVars, historyVars
  <2> QED BY <2>1, TickStep DEF Attempt, Closed
<1>4. ~ReloadBegin /\ ~ReloadRead /\ ~ReloadMerge /\ ~ReloadSwap
  BY DEF ScanInv, OneGeneration, ScannerAlone, NoReload,
         ReloadBegin, ReloadRead, ReloadMerge, ReloadSwap
<1>5. CASE UNCHANGED vars
  <2>1. UNCHANGED <<now, pc, req, closed, reported>>
    BY <1>5 DEF vars, callerVars, historyVars
  <2> QED BY <2>1, StutterStep DEF Attempt, Closed
<1> QED BY <1>1, <1>2, <1>3, <1>4, <1>5, EnterPromise, RecordPromise,
           RenamePromise, CrashPromise DEF Next

\* The scanner alone, with any number of workers, slots and targets, and with
\* crashes if it has one slot, implements the promise of WakeOnce: a cycle is
\* woken once, one attempt on a target is made at a time, and a success whose
\* save was reported outlives the process (activator.go: Activate;
\* store.go: SaveAtomic).
THEOREM ScanWakesOnce ==
  ASSUME ScannerAlone
  PROVE  Spec => WakesOnce
<1>1. Init => Promise!Init
  <2> SUFFICES ASSUME Init PROVE Promise!Init
    OBVIOUS
  <2>1. /\ now \in Nat /\ reported = {}
        /\ pc = [c \in Callers |-> "idle"] /\ closed = [t \in Targets |-> {}]
    BY DEF Init
  <2>2. Attempt = [t \in Targets |-> {}]
    BY <2>1 DEF Attempt
  <2>3. Closed = [t \in Targets |-> {}]
    BY <2>1 DEF Closed
  <2> QED BY Zenon, <2>1, <2>2, <2>3 DEF Promise!Init, Attempt, Closed
<1>2. Init => ScanInv /\ KeepInv
  BY InitScanInv, InitKeepInv
<1>3. ScanInv /\ KeepInv /\ SlotInv /\ [Next]_vars => ScanInv' /\ KeepInv'
  BY NextScanInv, NextKeepInv
<1>4. ScanInv /\ KeepInv /\ [Next]_vars => [Promise!Next]_(Promise!vars)
  BY NextPromise
<1> QED BY <1>1, <1>2, <1>3, <1>4, InitSlotInv, NextSlots, PTL
        DEF Spec, WakesOnce, Promise!Spec

=============================================================================

----------------------- MODULE ActivationSlots_proofs -----------------------
(***************************************************************************)
(* What holds for every number of callers, slots, reloads, crashes and     *)
(* failed saves: run slots come back, records are observations, and a      *)
(* reload inherits what it read and what that lacks.                       *)
(*                                                                         *)
(* A slot belongs to the generation its holder carries with it (gen), and  *)
(* a generation is one a reload has made: nothing more is needed, since no *)
(* step but the holder's own, and a crash, touches either.  Types need one *)
(* thing more: a caller that is at work has an observation (TypeInv).      *)
(*                                                                         *)
(* That a query finds one record, so that a merge has one to bring, is not *)
(* a matter of types: of all records there are, in stores, drafts and the  *)
(* file, no two of one target have the same times (Instants), and a store  *)
(* is finite, so that there is a newest one (Finite).                      *)
(***************************************************************************)
EXTENDS Activation, StateStore_proofs, FiniteSetTheorems, TLAPS

Holders(g) ==
  {c \in Callers : pc[c] \notin {"idle", "evaluated"} /\ gen[c] = g}

SlotShape ==
  /\ pc = [c \in Callers |-> pc[c]]
  /\ gen \in [Callers -> Generations]
  /\ slots = [g \in Generations |-> slots[g]]
  /\ generation \in Generations
  /\ DOMAIN reload = {"phase", "cached", "loaded", "had"}
  /\ reload.phase # "none" => generation < MaxReloads

SlotInv ==
  /\ SlotShape
  /\ \A g \in Generations :
       /\ slots[g] = Holders(g)
       /\ IsFiniteSet(slots[g])
       /\ Cardinality(slots[g]) <= MaxConcurrency

-----------------------------------------------------------------------------

LEMMA NoSlots ==
  /\ IsFiniteSet({})
  /\ Cardinality({}) <= MaxConcurrency
<1>1. IsFiniteSet({}) /\ Cardinality({}) = 0
  BY FS_EmptySet
<1> QED BY <1>1, ActivationConstants

LEMMA InitSlotInv == Init => SlotInv
<1> SUFFICES ASSUME Init PROVE SlotInv
  OBVIOUS
<1>1. SlotShape
  BY ActivationConstants DEF Init, SlotShape, Generations, NoReload
<1>2. ASSUME NEW g \in Generations
      PROVE  slots[g] = {} /\ Holders(g) = {}
  BY DEF Init, Holders
<1> QED BY <1>1, <1>2, NoSlots DEF SlotInv

\* A caller that stays on its side of the slot changes no holder.
LEMMA SlotsKept ==
  ASSUME SlotInv, SlotShape', slots' = slots,
         \A c \in Callers :
           /\ pc'[c] \in {"idle", "evaluated"} <=> pc[c] \in {"idle", "evaluated"}
           /\ pc[c] \notin {"idle", "evaluated"} => gen'[c] = gen[c]
  PROVE  SlotInv'
<1>1. ASSUME NEW g \in Generations PROVE Holders(g)' = Holders(g)
  BY DEF Holders
<1> QED BY <1>1 DEF SlotInv

\* Steps of a caller that neither takes nor gives back a slot.
LEMMA CallerSlots ==
  ASSUME SlotInv, NEW c \in Callers,
         \/ Evaluate(c) \/ Busy(c) \/ Record(c) \/ Snapshot(c) \/ Rename(c)
         \/ SaveFails(c)
  PROVE  SlotInv'
<1> USE DEF Goto
<1>0. SlotShape
  BY DEF SlotInv
<1>1. CASE Evaluate(c)
  <2>1. PICK g \in 0 .. generation : gen' = [gen EXCEPT ![c] = g]
    BY <1>1 DEF Evaluate
  <2>2. g \in Generations
    BY <1>0, ActivationConstants DEF SlotShape, Generations
  <2>3. /\ pc[c] = "idle" /\ pc' = [pc EXCEPT ![c] = "evaluated"]
        /\ UNCHANGED <<slots, generation, reload>>
    BY <1>1 DEF Evaluate, processVars
  <2>4. SlotShape'
    BY <1>0, <2>1, <2>2, <2>3 DEF SlotShape
  <2> QED BY <1>0, <2>1, <2>3, <2>4, SlotsKept DEF SlotShape
<1>2. CASE Busy(c)
  <2>1. /\ pc[c] = "evaluated" /\ pc' = [pc EXCEPT ![c] = "idle"]
        /\ gen' = [gen EXCEPT ![c] = 0]
        /\ UNCHANGED <<slots, generation, reload>>
    BY <1>2 DEF Busy, processVars
  <2>2. 0 \in Generations
    BY ActivationConstants DEF Generations
  <2>3. SlotShape'
    BY <1>0, <2>1, <2>2 DEF SlotShape
  <2> QED BY <1>0, <2>1, <2>3, SlotsKept DEF SlotShape
<1>3. CASE Record(c) \/ Snapshot(c) \/ Rename(c) \/ SaveFails(c)
  <2>1. /\ pc[c] \in {"waking", "skipping", "stored", "saving"}
        /\ \E p \in {"stored", "saving", "saved"} : pc' = [pc EXCEPT ![c] = p]
        /\ UNCHANGED <<gen, slots, generation, reload>>
    BY <1>3 DEF Record, Snapshot, Rename, SaveFails, processVars
  <2>2. SlotShape'
    BY <1>0, <2>1 DEF SlotShape
  <2> QED BY <1>0, <2>1, <2>2, SlotsKept DEF SlotShape
<1> QED BY <1>1, <1>2, <1>3

LEMMA EnterSlots ==
  ASSUME SlotInv, NEW c \in Callers, Enter(c) PROVE SlotInv'
<1> DEFINE h == gen[c]
<1>0. SlotShape /\ h \in Generations
  BY DEF SlotInv, SlotShape
<1>1. /\ pc[c] = "evaluated"
      /\ \E p \in {"skipping", "waking"} : pc' = [pc EXCEPT ![c] = p]
      /\ slots' = [slots EXCEPT ![h] = slots[h] \cup {c}]
      /\ Cardinality(slots[h]) < MaxConcurrency
      /\ UNCHANGED <<gen, generation, reload>>
  BY DEF Enter, Goto, SlotFree
<1>2. SlotShape'
  BY <1>0, <1>1 DEF SlotShape
<1>3. ASSUME NEW g \in Generations
      PROVE  /\ slots'[g] = Holders(g)'
             /\ IsFiniteSet(slots'[g]) /\ Cardinality(slots'[g]) <= MaxConcurrency
  <2>1. slots[g] = Holders(g) /\ IsFiniteSet(slots[g])
        /\ Cardinality(slots[g]) <= MaxConcurrency
    BY DEF SlotInv
  <2>2. CASE g = h
    <3>1. slots'[g] = slots[g] \cup {c}
      BY <1>0, <1>1, <2>2 DEF SlotShape
    <3>2. Holders(g)' = Holders(g) \cup {c}
      BY <1>0, <1>1, <2>2 DEF SlotShape, Holders
    <3>3. c \notin slots[g]
      BY <1>1, <2>1 DEF Holders
    <3>4. IsFiniteSet(slots'[g]) /\ Cardinality(slots'[g]) = Cardinality(slots[g]) + 1
      BY <2>1, <3>1, <3>3, FS_AddElement
    <3>5. Cardinality(slots[g]) \in Nat
      BY <2>1, FS_CardinalityType
    <3> QED BY <1>1, <2>1, <2>2, <3>1, <3>2, <3>4, <3>5, ActivationConstants
  <2>3. CASE g # h
    <3>1. slots'[g] = slots[g]
      BY <1>0, <1>1, <2>3 DEF SlotShape
    <3>2. Holders(g)' = Holders(g)
      BY <1>0, <1>1, <2>3 DEF SlotShape, Holders
    <3> QED BY <2>1, <3>1, <3>2
  <2> QED BY <2>2, <2>3
<1> QED BY <1>2, <1>3 DEF SlotInv

LEMMA LeaveSlots ==
  ASSUME SlotInv, NEW c \in Callers, Leave(c) PROVE SlotInv'
<1> DEFINE h == gen[c]
<1>0. SlotShape /\ h \in Generations
  BY DEF SlotInv, SlotShape
<1>1. /\ pc[c] = "saved" /\ pc' = [pc EXCEPT ![c] = "idle"]
      /\ slots' = [slots EXCEPT ![h] = slots[h] \ {c}]
      /\ gen' = [gen EXCEPT ![c] = 0]
      /\ UNCHANGED <<generation, reload>>
  BY DEF Leave, Goto
<1>2. 0 \in Generations
  BY ActivationConstants DEF Generations
<1>3. SlotShape'
  BY <1>0, <1>1, <1>2 DEF SlotShape
<1>4. ASSUME NEW g \in Generations
      PROVE  /\ slots'[g] = Holders(g)'
             /\ IsFiniteSet(slots'[g]) /\ Cardinality(slots'[g]) <= MaxConcurrency
  <2>1. slots[g] = Holders(g) /\ IsFiniteSet(slots[g])
        /\ Cardinality(slots[g]) <= MaxConcurrency
    BY DEF SlotInv
  <2>2. Holders(g)' = Holders(g) \ {c}
    BY <1>0, <1>1 DEF SlotShape, Holders
  <2>3. CASE g = h
    <3>1. slots'[g] = slots[g] \ {c} /\ c \in slots[g]
      BY <1>0, <1>1, <2>1, <2>3 DEF SlotShape, Holders
    <3>2. IsFiniteSet(slots'[g]) /\ Cardinality(slots'[g]) = Cardinality(slots[g]) - 1
      BY <2>1, <3>1, FS_RemoveElement
    <3>3. Cardinality(slots[g]) \in Nat
      BY <2>1, FS_CardinalityType
    <3> QED BY <2>1, <2>2, <3>1, <3>2, <3>3, ActivationConstants
  <2>4. CASE g # h
    <3>1. slots'[g] = slots[g] /\ Holders(g) \ {c} = Holders(g)
      BY <1>0, <1>1, <2>4 DEF SlotShape, Holders
    <3> QED BY <2>1, <2>2, <3>1
  <2> QED BY <2>3, <2>4
<1> QED BY <1>3, <1>4 DEF SlotInv

\* A reload touches no slot: the callers of the old generation keep theirs.
LEMMA ReloadSlots ==
  ASSUME SlotInv, ReloadBegin \/ ReloadRead \/ ReloadMerge \/ ReloadSwap
  PROVE  SlotInv'
<1>0. SlotShape
  BY DEF SlotInv
<1>1. UNCHANGED <<pc, gen, slots>>
  BY DEF ReloadBegin, ReloadRead, ReloadMerge, ReloadSwap, callerVars
<1>2. CASE ReloadBegin \/ ReloadRead \/ ReloadMerge
  <2>1. /\ generation' = generation /\ generation < MaxReloads
        /\ DOMAIN reload' = {"phase", "cached", "loaded", "had"}
    BY <1>0, <1>2 DEF ReloadBegin, ReloadRead, ReloadMerge, SlotShape, NoReload
  <2>2. SlotShape'
    BY <1>0, <1>1, <2>1 DEF SlotShape
  <2> QED BY <1>1, <2>2, SlotsKept
<1>3. CASE ReloadSwap
  <2>1. generation' \in Generations /\ reload' = NoReload
    BY <1>0, <1>3, ActivationConstants DEF ReloadSwap, SlotShape, Generations
  <2>2. SlotShape'
    BY <1>0, <1>1, <2>1 DEF SlotShape, NoReload
  <2> QED BY <1>1, <2>2, SlotsKept
<1> QED BY <1>2, <1>3

\* The slots of a process end with it, and so do their holders.
LEMMA CrashSlots == ASSUME SlotInv, Crash PROVE SlotInv'
<1>1. SlotShape'
  BY ActivationConstants DEF Crash, SlotShape, Generations, NoReload
<1>2. ASSUME NEW g \in Generations
      PROVE  slots'[g] = {} /\ Holders(g)' = {}
  BY DEF Crash, Holders
<1> QED BY <1>1, <1>2, NoSlots DEF SlotInv

LEMMA NextSlots == SlotInv /\ [Next]_vars => SlotInv'
<1> SUFFICES ASSUME SlotInv, [Next]_vars PROVE SlotInv'
  OBVIOUS
<1>1. ASSUME NEW c \in Callers,
             \/ Evaluate(c) \/ Busy(c) \/ Record(c) \/ Snapshot(c) \/ Rename(c)
             \/ SaveFails(c)
      PROVE  SlotInv'
  BY <1>1, CallerSlots
<1>2. ASSUME NEW c \in Callers, Enter(c) \/ Leave(c) PROVE SlotInv'
  BY <1>2, EnterSlots, LeaveSlots
<1>3. CASE ReloadBegin \/ ReloadRead \/ ReloadMerge \/ ReloadSwap
  BY <1>3, ReloadSlots
<1>4. CASE Crash
  BY <1>4, CrashSlots
<1>5. CASE Tick \/ UNCHANGED vars
  BY <1>5 DEF Tick, vars, processVars, callerVars, SlotInv, SlotShape, Holders
<1> QED BY <1>1, <1>2, <1>3, <1>4, <1>5 DEF Next

\* For any number of callers, run slots, reloads, crashes and failed saves,
\* the slots taken are those of the running callers, each from the activator
\* it came from, and never more than max_concurrency (tryAcquireRunSlot,
\* releaseRunSlot).
THEOREM SlotsComeBack == Spec => []SlotsAreHeld
<1>1. SlotInv => SlotsAreHeld
  BY DEF SlotInv, SlotsAreHeld, Holders
<1> QED BY <1>1, InitSlotInv, NextSlots, PTL DEF Spec

-----------------------------------------------------------------------------
(* Lemmas about observations *)

\* Times, quotas and the bound of the clock are numbers.
LEMMA NumericConstants ==
  /\ AnyReset \subseteq Int
  /\ Remaining \subseteq Int
  /\ MaxNow \in Nat /\ MaxNow >= 1
<1>1. /\ AnyReset \subseteq Nat
      /\ Remaining \subseteq Nat \cup {NoSnapshot}
      /\ MaxNow \in Nat \ {0}
  BY Zenon, ActivationConstants
<1> QED BY <1>1 DEF NoSnapshot

\* The fields of an observation, and what becomes of it when it gets a result
\* (result_state.go: storeResult).
LEMMA ObservationFields ==
  ASSUME NEW r \in Observations
  PROVE  /\ r.obs \in Int /\ r.reset \in Int /\ r.rem \in Int
         /\ r.window \in Windows
         /\ Target(r) \in Targets
         /\ \A result \in Results :
              /\ [r EXCEPT !.result = result] \in Observations
              /\ [r EXCEPT !.result = result].obs = r.obs
              /\ [r EXCEPT !.result = result].result = result
              /\ Target([r EXCEPT !.result = result]) = Target(r)
              /\ Key([r EXCEPT !.result = result]) = Key(r)
<1>1. r.obs \in 0 .. MaxNow /\ r.reset \in AnyReset /\ r.rem \in Remaining
      /\ r.window \in Windows /\ Target(r) \in Targets
  BY DEF Observations
<1>2. r.obs \in Int /\ r.reset \in Int /\ r.rem \in Int
  <2>1. r.obs \in Int
    BY <1>1, NumericConstants
  <2>2. r.reset \in Int
    BY Zenon, <1>1, NumericConstants
  <2>3. r.rem \in Int
    BY Zenon, <1>1, NumericConstants
  <2> QED BY <2>1, <2>2, <2>3
<1>3. ASSUME NEW result \in Results
      PROVE  /\ [r EXCEPT !.result = result] \in Observations
             /\ [r EXCEPT !.result = result].obs = r.obs
             /\ [r EXCEPT !.result = result].result = result
             /\ Target([r EXCEPT !.result = result]) = Target(r)
             /\ Key([r EXCEPT !.result = result]) = Key(r)
  BY DEF Observations, Target, Key
<1> QED BY <1>1, <1>2, <1>3

\* An observation of a target is an observation, of that target.
LEMMA ObservationMade ==
  ASSUME NEW t \in Targets, NEW w \in Windows, NEW reset \in Resets,
         NEW obs \in 0 .. MaxNow, NEW rem \in Remaining
  PROVE  /\ Observation(t, w, reset, obs, rem) \in Observations
         /\ Target(Observation(t, w, reset, obs, rem)) = t
         /\ Observation(t, w, reset, obs, rem).obs = obs
<1>1. t = [auth |-> t.auth, group |-> t.group]
  BY ActivationConstants
<1>2. reset \in AnyReset
  BY DEF AnyReset
<1> QED BY <1>1, <1>2 DEF Observation, Observations, Target

-----------------------------------------------------------------------------
(* Types *)

\* A caller that is at work has an observation.
TypeInv ==
  /\ TypeOK
  /\ \A c \in Callers : pc[c] # "idle" => req[c] \in Observations

\* What a query finds, what is merged and what is remembered was there before.
LEMMA QueriesSelect ==
  ASSUME NEW s
  PROVE  UsableSuccesses(s) \subseteq s
BY DEF UsableSuccesses, UsableLatest, PickLatest, Newest, Successes

LEMMA MergeSelects ==
  ASSUME NEW s, NEW R, NEW v \in MergeAll(s, R)
  PROVE  v \subseteq s \cup R
BY DEF MergeAll

LEMMA RecordSelects ==
  ASSUME NEW s, NEW r
  PROVE  Upsert(s, r) \subseteq s \cup {r} /\ Remember(s, r) \subseteq s \cup {r}
BY DEF Upsert, Remember

\* A process that has loaded records has no others.
LEMMA FreshTypes ==
  ASSUME NEW r, r \subseteq Observations
  PROVE  /\ Fresh(r).store \in [Generations -> SUBSET Observations]
         /\ Fresh(r).remembered \subseteq Observations
BY QueriesSelect DEF Fresh

LEMMA InitTypes == Init => TypeInv
<1> SUFFICES ASSUME Init PROVE TypeInv
  OBVIOUS
<1>1. file \subseteq Observations
  BY ActivationConstants DEF Init
<1>2. store \in [Generations -> SUBSET Observations] /\ remembered \subseteq Observations
  BY <1>1, FreshTypes DEF Init
<1>3. now \in 1 .. MaxNow
  BY NumericConstants DEF Init
<1>4. generation \in Generations /\ crashes \in 0 .. MaxCrashes /\ saveErrors \in 0 .. MaxSaveErrors
  BY ActivationConstants DEF Init, Generations
<1>5. gen \in [Callers -> Generations]
  BY <1>4 DEF Init
<1>6. reload \in [phase : {"none", "begun", "read", "merged"},
                 cached : SUBSET Observations, loaded : SUBSET Observations,
                 had : SUBSET Observations]
  BY DEF Init, NoReload
<1>7. /\ cache \in [Generations -> SUBSET Observations]
      /\ slots \in [Generations -> SUBSET Callers]
      /\ pc \in [Callers -> CallerPc]
      /\ req \in [Callers -> Observations \cup {Nothing}]
      /\ draft \in [Callers -> SUBSET Observations]
      /\ closed \in [Targets -> SUBSET Observations]
      /\ reported \subseteq Targets
      /\ \A c \in Callers : pc[c] = "idle"
  BY DEF Init, CallerPc
<1> QED BY <1>1, <1>2, <1>3, <1>4, <1>5, <1>6, <1>7 DEF TypeInv, TypeOK

\* An observation begins and the clock goes on.
LEMMA EvaluateTypes ==
  ASSUME TypeInv, NEW c \in Callers, Evaluate(c)
  PROVE  TypeInv'
<1>1. /\ now < MaxNow /\ now' = now + 1 /\ now \in 1 .. MaxNow
      /\ pc' = [pc EXCEPT ![c] = "evaluated"]
      /\ UNCHANGED <<processVars, file, draft, boundVars, historyVars>>
  BY DEF Evaluate, Goto, TypeInv, TypeOK
<1>2. PICK t \in Targets, g \in 0 .. generation, w \in Windows,
           reset \in Resets, rem \in Remaining :
        /\ req' = [req EXCEPT ![c] = Observation(t, w, reset, now, rem)]
        /\ gen' = [gen EXCEPT ![c] = g]
  BY DEF Evaluate
<1>3. now' \in 1 .. MaxNow /\ now \in 0 .. MaxNow
  BY <1>1, NumericConstants
<1>4. Observation(t, w, reset, now, rem) \in Observations
  BY <1>3, ObservationMade
<1>5. g \in Generations
  BY ActivationConstants DEF TypeInv, TypeOK, Generations
<1>6. /\ pc' \in [Callers -> CallerPc]
      /\ req' \in [Callers -> Observations \cup {Nothing}]
      /\ gen' \in [Callers -> Generations]
      /\ \A d \in Callers : pc'[d] # "idle" => req'[d] \in Observations
  BY <1>1, <1>2, <1>4, <1>5 DEF TypeInv, TypeOK, CallerPc
<1> QED BY <1>1, <1>3, <1>6
        DEF TypeInv, TypeOK, processVars, boundVars, historyVars

\* A caller that is done, or finds no slot, is idle.
LEMMA DoneTypes ==
  ASSUME TypeInv, NEW c \in Callers, Busy(c) \/ Leave(c)
  PROVE  TypeInv'
<1>1. /\ pc' = [pc EXCEPT ![c] = "idle"]
      /\ req' = [req EXCEPT ![c] = Nothing]
      /\ gen' = [gen EXCEPT ![c] = 0]
      /\ UNCHANGED <<now, generation, store, cache, reload, file, draft, boundVars,
                     historyVars>>
  BY DEF Busy, Leave, Goto, processVars
<1>2. /\ pc' \in [Callers -> CallerPc]
      /\ req' \in [Callers -> Observations \cup {Nothing}]
      /\ gen' \in [Callers -> Generations]
      /\ \A d \in Callers : pc'[d] # "idle" => req'[d] \in Observations
  BY <1>1, ActivationConstants DEF TypeInv, TypeOK, CallerPc, Generations
<1>3. slots' \in [Generations -> SUBSET Callers]
  BY DEF Busy, Leave, processVars, TypeInv, TypeOK
<1>4. remembered' \subseteq Observations
  <2>1. CASE Busy(c)
    BY <2>1 DEF Busy, processVars, TypeInv, TypeOK
  <2>2. CASE Leave(c)
    <3>1. /\ remembered' = Remember(remembered, req[c])
          /\ remembered \subseteq Observations /\ req[c] \in Observations
      BY <2>2 DEF Leave, TypeInv, TypeOK
    <3> QED BY <3>1, RecordSelects
  <2> QED BY <2>1, <2>2
<1> QED BY <1>1, <1>2, <1>3, <1>4 DEF TypeInv, TypeOK, boundVars, historyVars

LEMMA EnterTypes ==
  ASSUME TypeInv, NEW c \in Callers, Enter(c)
  PROVE  TypeInv'
<1>1. /\ \E label \in {"skipping", "waking"} : pc' = [pc EXCEPT ![c] = label]
      /\ pc[c] = "evaluated"
      /\ slots' = [slots EXCEPT ![gen[c]] = slots[gen[c]] \cup {c}]
      /\ \/ UNCHANGED <<closed, reported>>
         \/ /\ closed' = [closed EXCEPT ![Target(req[c])] = {}]
            /\ reported' = reported \ {Target(req[c])}
      /\ UNCHANGED <<now, generation, store, cache, remembered, reload, file, req,
                     gen, draft, boundVars>>
  BY DEF Enter, Goto, historyVars
<1>2. pc' \in [Callers -> CallerPc]
      /\ \A d \in Callers : pc'[d] # "idle" => req'[d] \in Observations
  BY <1>1 DEF TypeInv, TypeOK, CallerPc
<1>3. slots' \in [Generations -> SUBSET Callers]
  BY <1>1 DEF TypeInv, TypeOK
<1>4. closed' \in [Targets -> SUBSET Observations] /\ reported' \subseteq Targets
  BY <1>1 DEF TypeInv, TypeOK
<1> QED BY <1>1, <1>2, <1>3, <1>4 DEF TypeInv, TypeOK, boundVars

\* A record is the observation with a result.
LEMMA RecordTypes ==
  ASSUME TypeInv, NEW c \in Callers, Record(c)
  PROVE  TypeInv'
<1>1. /\ pc[c] \in {"waking", "skipping"} /\ pc' = [pc EXCEPT ![c] = "stored"]
      /\ req[c] \in Observations
      /\ UNCHANGED <<now, generation, slots, remembered, reload, file, gen, draft,
                     boundVars>>
  BY DEF Record, Goto, TypeInv
<1>2. PICK result \in Outcomes(c) :
        /\ req' = [req EXCEPT ![c] = [req[c] EXCEPT !.result = result]]
        /\ store' = [store EXCEPT ![gen[c]] = Upsert(@, [req[c] EXCEPT !.result = result])]
        /\ cache' = [cache EXCEPT ![gen[c]] = Remember(@, [req[c] EXCEPT !.result = result])]
        /\ IF result = "success"
           THEN /\ closed' = [closed EXCEPT ![Target([req[c] EXCEPT !.result = result])]
                                              = {[req[c] EXCEPT !.result = result]}]
                /\ reported' = reported \ {Target([req[c] EXCEPT !.result = result])}
           ELSE UNCHANGED historyVars
  BY DEF Record
<1> DEFINE r == [req[c] EXCEPT !.result = result]
<1>3. r \in Observations
  BY <1>1, <1>2, ObservationFields DEF Outcomes, Results
<1> HIDE DEF r
<1>4. /\ req' = [req EXCEPT ![c] = r]
      /\ store' = [store EXCEPT ![gen[c]] = Upsert(@, r)]
      /\ cache' = [cache EXCEPT ![gen[c]] = Remember(@, r)]
      /\ \/ closed' = [closed EXCEPT ![Target(r)] = {r}] /\ reported' = reported \ {Target(r)}
         \/ UNCHANGED <<closed, reported>>
  BY <1>2 DEF r, historyVars
<1>5. /\ pc' \in [Callers -> CallerPc]
      /\ req' \in [Callers -> Observations \cup {Nothing}]
      /\ \A d \in Callers : pc'[d] # "idle" => req'[d] \in Observations
  BY <1>1, <1>3, <1>4 DEF TypeInv, TypeOK, CallerPc
<1>6. /\ store' \in [Generations -> SUBSET Observations]
      /\ cache' \in [Generations -> SUBSET Observations]
  <2> DEFINE g == gen[c]
  <2>1. g \in Generations /\ store[g] \subseteq Observations /\ cache[g] \subseteq Observations
    BY DEF TypeInv, TypeOK
  <2>2. Upsert(store[g], r) \subseteq Observations
    BY <1>3, <2>1, RecordSelects
  <2>3. Remember(cache[g], r) \subseteq Observations
    BY <1>3, <2>1, RecordSelects
  <2> QED BY <1>4, <2>1, <2>2, <2>3 DEF TypeInv, TypeOK
<1>7. closed' \in [Targets -> SUBSET Observations] /\ reported' \subseteq Targets
  BY <1>3, <1>4 DEF TypeInv, TypeOK
<1> QED BY <1>1, <1>5, <1>6, <1>7 DEF TypeInv, TypeOK, boundVars

\* Saving moves records between the store, the draft and the file.
LEMMA SaveTypes ==
  ASSUME TypeInv, NEW c \in Callers, Snapshot(c) \/ Rename(c) \/ SaveFails(c)
  PROVE  TypeInv'
<1>1. /\ pc[c] # "idle"
      /\ \E label \in {"saving", "saved"} : pc' = [pc EXCEPT ![c] = label]
      /\ UNCHANGED <<now, processVars, req, gen, crashes, closed>>
  BY DEF Snapshot, Rename, SaveFails, Goto, boundVars, historyVars
<1>2. /\ pc' \in [Callers -> CallerPc]
      /\ \A d \in Callers : pc'[d] # "idle" => req'[d] \in Observations
  BY <1>1 DEF TypeInv, TypeOK, CallerPc
<1>3. draft' \in [Callers -> SUBSET Observations]
  BY DEF Snapshot, Document, Rename, SaveFails, TypeInv, TypeOK
<1>4. file' \subseteq Observations
  BY DEF Snapshot, Rename, SaveFails, TypeInv, TypeOK
<1>5. saveErrors' \in 0 .. MaxSaveErrors
  BY ActivationConstants DEF Snapshot, Rename, SaveFails, TypeInv, TypeOK, boundVars
<1>6. reported' \subseteq Targets
  BY DEF Snapshot, Rename, SaveFails, TypeInv, TypeOK, historyVars
<1> QED BY <1>1, <1>2, <1>3, <1>4, <1>5, <1>6 DEF TypeInv, TypeOK, processVars

\* A reload reads, merges and hands on records.
LEMMA ReloadTypes ==
  ASSUME TypeInv, SlotInv, ReloadBegin \/ ReloadRead \/ ReloadMerge \/ ReloadSwap
  PROVE  TypeInv'
<1>1. UNCHANGED <<now, cache, slots, file, callerVars, boundVars, historyVars>>
  BY DEF ReloadBegin, ReloadRead, ReloadMerge, ReloadSwap
<1> DEFINE Shapes == [phase : {"none", "begun", "read", "merged"},
                      cached : SUBSET Observations, loaded : SUBSET Observations,
                      had : SUBSET Observations]
<1>2. reload \in Shapes /\ store[generation] \subseteq Observations
  BY DEF TypeInv, TypeOK
<1>3. reload' \in Shapes
  <2>1. CASE ReloadBegin
    <3>1. reload' = [phase |-> "begun", cached |-> remembered, loaded |-> {},
                     had |-> store[generation] \cap UNION {closed[t] : t \in Targets}]
      BY <2>1 DEF ReloadBegin, NoReload
    <3> QED BY <1>2, <3>1 DEF TypeInv, TypeOK
  <2>2. CASE ReloadRead
    BY <1>2, <2>2 DEF ReloadRead, TypeInv, TypeOK
  <2>3. CASE ReloadMerge
    <3>1. PICK s \in Inherited(reload.loaded, reload.cached) :
            reload' = [reload EXCEPT !.phase = "merged", !.loaded = s]
      BY <2>3 DEF ReloadMerge
    <3>2. PICK v \in MergeAll(reload.loaded, UsableSuccesses(store[generation])) :
            s \in MergeAll(v, reload.cached)
      BY <3>1 DEF Inherited
    <3>3. v \subseteq Observations
      BY <1>2, <3>2, QueriesSelect, MergeSelects
    <3>4. s \subseteq Observations
      BY <1>2, <3>2, <3>3, MergeSelects
    <3> QED BY <1>2, <3>1, <3>4
  <2>4. CASE ReloadSwap
    BY <2>4 DEF ReloadSwap, NoReload
  <2> QED BY <2>1, <2>2, <2>3, <2>4
<1>4. UNCHANGED <<generation, store, remembered>>
      \/ /\ generation' \in Generations
         /\ store' \in [Generations -> SUBSET Observations]
         /\ remembered' \subseteq Observations
  <2>1. CASE ReloadSwap
    <3>1. reload.loaded \subseteq Observations
      BY <1>2
    <3>2. UsableSuccesses(reload.loaded) \subseteq Observations
      BY <3>1, QueriesSelect
    <3>3. remembered' \subseteq Observations
      BY <2>1, <3>2 DEF ReloadSwap, Seed, TypeInv, TypeOK
    <3>4. store' \in [Generations -> SUBSET Observations]
      BY <2>1, <3>1 DEF ReloadSwap, TypeInv, TypeOK
    <3>5. generation + 1 \in Generations
      BY <2>1, ActivationConstants DEF ReloadSwap, SlotInv, SlotShape, Generations
    <3> QED BY <2>1, <3>3, <3>4, <3>5 DEF ReloadSwap
  <2> QED BY <2>1 DEF ReloadBegin, ReloadRead, ReloadMerge, ReloadSwap
<1> QED BY <1>1, <1>3, <1>4 DEF TypeInv, TypeOK, callerVars, boundVars, historyVars

LEMMA CrashTypes ==
  ASSUME TypeInv, Crash
  PROVE  TypeInv'
<1>1. /\ store' = Fresh(file).store /\ remembered' = Fresh(file).remembered
      /\ file \subseteq Observations
  BY DEF Crash, TypeInv, TypeOK
<1>2. store' \in [Generations -> SUBSET Observations] /\ remembered' \subseteq Observations
  BY <1>1, FreshTypes
<1>3. 0 \in Generations /\ crashes' \in 0 .. MaxCrashes
  BY ActivationConstants DEF Crash, TypeInv, TypeOK, Generations
<1>4. reload' \in [phase : {"none", "begun", "read", "merged"},
                   cached : SUBSET Observations, loaded : SUBSET Observations,
                   had : SUBSET Observations]
  BY DEF Crash, NoReload
<1>5. /\ cache' \in [Generations -> SUBSET Observations]
      /\ slots' \in [Generations -> SUBSET Callers]
      /\ pc' \in [Callers -> CallerPc]
      /\ req' \in [Callers -> Observations \cup {Nothing}]
      /\ gen' \in [Callers -> Generations]
      /\ draft' \in [Callers -> SUBSET Observations]
      /\ \A c \in Callers : pc'[c] = "idle"
  BY <1>3 DEF Crash, CallerPc
<1>6. closed' \in [Targets -> SUBSET Observations]
  BY DEF Crash, TypeInv, TypeOK
<1> QED BY <1>2, <1>3, <1>4, <1>5, <1>6 DEF Crash, TypeInv, TypeOK

LEMMA NextTypes == TypeInv /\ SlotInv /\ [Next]_vars => TypeInv'
<1> SUFFICES ASSUME TypeInv, SlotInv, [Next]_vars PROVE TypeInv'
  OBVIOUS
<1>1. ASSUME NEW c \in Callers,
             \/ Evaluate(c) \/ Busy(c) \/ Enter(c) \/ Record(c)
             \/ Snapshot(c) \/ Rename(c) \/ SaveFails(c) \/ Leave(c)
      PROVE  TypeInv'
  BY <1>1, EvaluateTypes, DoneTypes, EnterTypes, RecordTypes, SaveTypes
<1>2. CASE ReloadBegin \/ ReloadRead \/ ReloadMerge \/ ReloadSwap
  BY <1>2, ReloadTypes
<1>3. CASE Tick
  <2>1. now' \in 1 .. MaxNow
    BY <1>3, NumericConstants DEF Tick, TypeInv, TypeOK
  <2> QED BY <1>3, <2>1
          DEF Tick, TypeInv, TypeOK, processVars, callerVars, boundVars, historyVars
<1>4. CASE UNCHANGED vars
  BY <1>4 DEF vars, TypeInv, TypeOK, processVars, callerVars, boundVars, historyVars
<1> QED BY <1>1, <1>2, <1>3, <1>4, CrashTypes DEF Next

\* Every store, cache, draft and the state file hold observations of targets,
\* and every caller at work carries one, for any number of callers, reloads,
\* crashes and failed saves.
THEOREM TypesAreKept == Spec => []TypeOK
<1>1. TypeInv => TypeOK
  BY DEF TypeInv
<1> QED BY <1>1, InitTypes, NextTypes, InitSlotInv, NextSlots, PTL DEF Spec

-----------------------------------------------------------------------------
(* What a reload inherits *)

\* No credential has both grouped and ungrouped targets: it is of Codex, or it
\* is of Antigravity and known by its groups.
Unmixed ==
  \A s, t \in Targets : s.auth = t.auth /\ s.group = NoGroup => t.group = NoGroup

\* A state file was written by an earlier process.
EarlierFiles ==
  \A f \in StartFiles : IsFiniteSet(f) /\ Untied(f) /\ \A r \in f : r.obs = 0

Early == {"evaluated", "waking", "skipping"}
Late == {"stored", "saving", "saved"}

\* Every record there is, in a store, on its way to the file, or in the file.
Known ==
  file \cup remembered \cup reload.loaded \cup reload.cached
    \cup (UNION {store[g] : g \in Generations})
    \cup (UNION {draft[c] : c \in Callers})
    \cup {req[c] : c \in {d \in Callers : pc[d] \in Late}}

\* No two observations are of one instant, whatever becomes of them.
Instants ==
  /\ Untied(Known)
  /\ \A r \in Known : r.obs < now
  /\ \A c \in Callers :
       pc[c] \in Early =>
         /\ req[c].obs < now
         /\ \A r \in Known : r.obs # req[c].obs
         /\ \A d \in Callers \ {c} : pc[d] \in Early => req[d].obs # req[c].obs

Finite ==
  /\ IsFiniteSet(file) /\ IsFiniteSet(remembered)
  /\ IsFiniteSet(reload.loaded) /\ IsFiniteSet(reload.cached)
  /\ \A g \in Generations : IsFiniteSet(store[g])
  /\ \A c \in Callers : IsFiniteSet(draft[c])

-----------------------------------------------------------------------------

LEMMA KnownTypes == ASSUME TypeInv PROVE Known \subseteq Observations
<1>1. /\ file \subseteq Observations /\ remembered \subseteq Observations
      /\ reload.loaded \subseteq Observations /\ reload.cached \subseteq Observations
      /\ \A g \in Generations : store[g] \subseteq Observations
      /\ \A c \in Callers : draft[c] \subseteq Observations
      /\ \A c \in Callers : pc[c] \in Late => req[c] \in Observations
  BY DEF TypeInv, TypeOK, Late
<1> QED BY <1>1 DEF Known

LEMMA KnownParts ==
  /\ file \subseteq Known /\ remembered \subseteq Known
  /\ reload.loaded \subseteq Known /\ reload.cached \subseteq Known
  /\ \A g \in Generations : store[g] \subseteq Known
  /\ \A c \in Callers : draft[c] \subseteq Known
  /\ \A c \in Callers : pc[c] \in Late => req[c] \in Known
BY DEF Known

LEMMA KnownWithin ==
  ASSUME NEW K,
         file' \subseteq K, remembered' \subseteq K,
         reload'.loaded \subseteq K, reload'.cached \subseteq K,
         \A g \in Generations : store'[g] \subseteq K,
         \A c \in Callers : draft'[c] \subseteq K,
         \A c \in Callers : pc'[c] \in Late => req'[c] \in K
  PROVE  Known' \subseteq K
BY DEF Known

\* A step that brings no new record and begins no observation.
LEMMA InstantsKept ==
  ASSUME TypeInv, TypeInv', Instants, Known' \subseteq Known, now' >= now,
         \A c \in Callers : pc'[c] \in Early => pc[c] \in Early /\ req'[c] = req[c]
  PROVE  Instants'
<1>1. now \in Int /\ now' \in Int
  BY DEF TypeInv, TypeOK
<1>2. \A r \in Known' : r \in Known /\ r.obs \in Int
  BY KnownTypes, ObservationFields
<1>3. \A c \in Callers : pc[c] \in Early => req[c].obs \in Int
  BY ObservationFields DEF TypeInv, Early
<1>4. Untied(Known)'
  BY <1>2 DEF Instants, Untied
<1>5. \A r \in Known' : r.obs < now'
  BY <1>1, <1>2 DEF Instants
<1>6. ASSUME NEW c \in Callers, pc'[c] \in Early
      PROVE  /\ req'[c].obs < now'
             /\ \A r \in Known' : r.obs # req'[c].obs
             /\ \A d \in Callers \ {c} : pc'[d] \in Early => req'[d].obs # req'[c].obs
  BY <1>1, <1>2, <1>3, <1>6 DEF Instants
<1> QED BY <1>4, <1>5, <1>6 DEF Instants

LEMMA InitInstants ==
  ASSUME EarlierFiles, Init PROVE Instants /\ Finite
<1>1. /\ file \in StartFiles /\ now = 1
      /\ IsFiniteSet(file) /\ Untied(file) /\ \A r \in file : r.obs = 0
  BY DEF Init, EarlierFiles
<1>2. /\ remembered \subseteq file
      /\ \A g \in Generations : store[g] \subseteq file
      /\ reload.loaded = {} /\ reload.cached = {}
      /\ \A c \in Callers : draft[c] = {} /\ pc[c] = "idle"
  BY QueriesSelect DEF Init, Fresh, NoReload
<1>3. Known = file
  BY <1>2 DEF Known, Late
<1>4. Instants
  BY <1>1, <1>2, <1>3 DEF Instants, Early
<1>5. Finite
  BY <1>1, <1>2, FS_Subset, FS_EmptySet DEF Finite
<1> QED BY <1>4, <1>5

\* The observation that begins is of this instant, which is then over.
LEMMA EvaluateInstants ==
  ASSUME TypeInv, Instants, NEW c \in Callers, Evaluate(c) PROVE Instants'
<1>1. PICK q :
        /\ q.obs = now
        /\ req' = [req EXCEPT ![c] = q]
  BY DEF Evaluate, Observation
<1>2. /\ pc[c] = "idle" /\ pc' = [pc EXCEPT ![c] = "evaluated"]
      /\ now' = now + 1 /\ now \in Int
      /\ UNCHANGED <<remembered, reload, store, file, draft>>
  BY DEF Evaluate, Goto, processVars, TypeInv, TypeOK
<1>3. /\ \A d \in Callers : pc'[d] \in Late <=> pc[d] \in Late
      /\ \A d \in Callers : pc'[d] \in Late => req'[d] = req[d]
      /\ pc'[c] \in Early /\ req'[c] = q
      /\ \A d \in Callers \ {c} : pc'[d] = pc[d] /\ req'[d] = req[d]
  BY <1>1, <1>2 DEF TypeInv, TypeOK, Late, Early
<1>4. Known' \subseteq Known
  BY <1>2, <1>3, KnownParts, KnownWithin
<1>5. \A r \in Known' : r \in Known /\ r.obs \in Int /\ r.obs < now
  BY <1>4, KnownTypes, ObservationFields DEF Instants
<1>6. \A d \in Callers : pc[d] \in Early => req[d].obs \in Int /\ req[d].obs < now
  BY ObservationFields DEF TypeInv, Early, Instants
<1>7. Untied(Known)' /\ \A r \in Known' : r.obs < now'
  BY <1>2, <1>5 DEF Instants, Untied
<1>8. ASSUME NEW d \in Callers, pc'[d] \in Early
      PROVE  /\ req'[d].obs < now'
             /\ \A r \in Known' : r.obs # req'[d].obs
             /\ \A e \in Callers \ {d} : pc'[e] \in Early => req'[e].obs # req'[d].obs
  <2>1. CASE d = c
    BY <1>1, <1>2, <1>3, <1>5, <1>6, <2>1
  <2>2. CASE d # c
    BY <1>1, <1>2, <1>3, <1>5, <1>6, <1>8, <2>2 DEF Instants
  <2> QED BY <2>1, <2>2
<1> QED BY <1>7, <1>8 DEF Instants

\* The record of an observation has its instant.
LEMMA RecordInstants ==
  ASSUME TypeInv, Instants, NEW c \in Callers, Record(c) PROVE Instants'
<1>1. PICK result \in Outcomes(c) :
        /\ req' = [req EXCEPT ![c] = [req[c] EXCEPT !.result = result]]
        /\ store' = [store EXCEPT ![gen[c]] = Upsert(@, [req[c] EXCEPT !.result = result])]
  BY DEF Record
<1> DEFINE r == [req[c] EXCEPT !.result = result]
<1>2. pc[c] \in Early /\ req[c] \in Observations /\ result \in Results
  BY <1>1 DEF Record, TypeInv, Outcomes, Results, Early
<1>3. r.obs = req[c].obs
  BY <1>2, ObservationFields
<1> HIDE DEF r
<1>4. /\ req' = [req EXCEPT ![c] = r]
      /\ store' = [store EXCEPT ![gen[c]] = Upsert(@, r)]
      /\ pc' = [pc EXCEPT ![c] = "stored"]
      /\ UNCHANGED <<now, remembered, reload, file, draft>>
  BY <1>1 DEF r, Record, Goto
<1>5. /\ req'[c] = r /\ pc'[c] \notin Early
      /\ \A d \in Callers \ {c} : pc'[d] = pc[d] /\ req'[d] = req[d]
  BY <1>4 DEF TypeInv, TypeOK, Early
<1>6. Known' \subseteq Known \cup {r}
  <2>1. \A g \in Generations : store'[g] \subseteq store[g] \cup {r}
    BY <1>4, RecordSelects DEF TypeInv, TypeOK
  <2>2. \A d \in Callers : pc'[d] \in Late => req'[d] \in Known \cup {r}
    BY <1>5, KnownParts
  <2> QED BY <1>4, <2>1, <2>2, KnownParts, KnownWithin
<1>7. \A q \in Known : q.obs # r.obs /\ q.obs < now
  BY <1>2, <1>3 DEF Instants
<1>8. r.obs < now
  BY <1>2, <1>3 DEF Instants
<1>9. Untied(Known)' /\ \A q \in Known' : q.obs < now'
  BY <1>4, <1>6, <1>7, <1>8 DEF Instants, Untied
<1>10. ASSUME NEW d \in Callers, pc'[d] \in Early
       PROVE  /\ req'[d].obs < now'
              /\ \A q \in Known' : q.obs # req'[d].obs
              /\ \A e \in Callers \ {d} : pc'[e] \in Early => req'[e].obs # req'[d].obs
  <2>1. d # c /\ pc[d] \in Early /\ req'[d] = req[d]
    BY <1>5, <1>10
  <2>2. req[d].obs # r.obs
    BY <1>2, <1>3, <2>1 DEF Instants
  <2>3. \A q \in Known' : q.obs # req'[d].obs
    BY <1>6, <2>1, <2>2 DEF Instants
  <2>4. \A e \in Callers \ {d} : pc'[e] \in Early => req'[e].obs # req'[d].obs
    BY <1>5, <2>1 DEF Instants
  <2> QED BY <1>4, <2>1, <2>3, <2>4 DEF Instants
<1> QED BY <1>9, <1>10 DEF Instants

\* A caller that is not about to record moves records from one place to another.
LEMMA CallerInstants ==
  ASSUME TypeInv, TypeInv', Instants, NEW c \in Callers,
         \/ Busy(c) \/ Enter(c) \/ Snapshot(c) \/ Rename(c) \/ SaveFails(c) \/ Leave(c)
  PROVE  Instants'
<1>1. /\ UNCHANGED <<now, store, reload>> /\ now \in Int
      /\ \A d \in Callers \ {c} : pc'[d] = pc[d] /\ req'[d] = req[d]
  BY DEF Busy, Enter, Snapshot, Rename, SaveFails, Leave, Goto, TypeInv, TypeOK, processVars
<1>2. pc'[c] \in Early => pc[c] \in Early /\ req'[c] = req[c]
  BY DEF Busy, Enter, Snapshot, Rename, SaveFails, Leave, Goto, TypeInv, TypeOK, Early
<1>3. pc'[c] \in Late => pc[c] \in Late /\ req'[c] = req[c]
  BY DEF Busy, Enter, Snapshot, Rename, SaveFails, Leave, Goto, TypeInv, TypeOK, Late
<1>4. file' \subseteq Known /\ \A d \in Callers : draft'[d] \subseteq Known
  BY KnownParts
     DEF Busy, Enter, Snapshot, Document, Rename, SaveFails, Leave, TypeInv, TypeOK, processVars
<1>5. remembered' \subseteq Known
  <2>1. CASE Leave(c)
    <3>1. remembered' \subseteq remembered \cup {req[c]}
      BY <2>1, RecordSelects DEF Leave
    <3>2. req[c] \in Known
      BY <2>1, KnownParts DEF Leave, Late
    <3> QED BY <3>1, <3>2, KnownParts
  <2>2. CASE ~Leave(c)
    BY <2>2, KnownParts DEF Busy, Enter, Snapshot, Rename, SaveFails, processVars
  <2> QED BY <2>1, <2>2
<1>6. \A d \in Callers : pc'[d] \in Late => req'[d] \in Known
  BY <1>1, <1>3, KnownParts
<1>7. Known' \subseteq Known
  BY <1>1, <1>4, <1>5, <1>6, KnownParts, KnownWithin
<1> QED BY <1>1, <1>2, <1>7, InstantsKept

LEMMA ReloadInstants ==
  ASSUME TypeInv, TypeInv', Instants,
         ReloadBegin \/ ReloadRead \/ ReloadMerge \/ ReloadSwap
  PROVE  Instants'
<1>0. now \in Int
  BY DEF TypeInv, TypeOK
<1>1. UNCHANGED <<now, file, pc, req, draft>>
  BY DEF ReloadBegin, ReloadRead, ReloadMerge, ReloadSwap, callerVars
<1>2. reload'.loaded \subseteq Known /\ reload'.cached \subseteq Known
  <2>1. CASE ReloadMerge
    <3>1. PICK s \in Inherited(reload.loaded, reload.cached) :
            reload' = [reload EXCEPT !.phase = "merged", !.loaded = s]
      BY <2>1 DEF ReloadMerge
    <3>2. PICK v \in MergeAll(reload.loaded, UsableSuccesses(store[generation])) :
            s \in MergeAll(v, reload.cached)
      BY <3>1 DEF Inherited
    <3>3. v \subseteq Known
      <4>1. store[generation] \subseteq Known
        BY KnownParts DEF TypeInv, TypeOK
      <4> QED BY <3>2, <4>1, QueriesSelect, MergeSelects, KnownParts
    <3>4. s \subseteq Known
      BY <3>2, <3>3, MergeSelects, KnownParts
    <3> QED BY <3>1, <3>4, KnownParts DEF TypeInv, TypeOK
  <2>2. CASE ReloadBegin
    BY <2>2, KnownParts DEF ReloadBegin, NoReload
  <2>3. CASE ReloadRead
    BY <2>3, KnownParts DEF ReloadRead, TypeInv, TypeOK
  <2>4. CASE ReloadSwap
    BY <2>4 DEF ReloadSwap, NoReload
  <2> QED BY <2>1, <2>2, <2>3, <2>4
<1>3. remembered' \subseteq Known /\ \A g \in Generations : store'[g] \subseteq Known
  <2>1. CASE ReloadSwap
    <3>1. remembered' \subseteq remembered \cup reload.loaded
      BY <2>1, QueriesSelect DEF ReloadSwap, Seed
    <3>2. \A g \in Generations : store'[g] \subseteq store[g] \cup reload.loaded
      BY <2>1 DEF ReloadSwap, TypeInv, TypeOK
    <3> QED BY <3>1, <3>2, KnownParts
  <2>2. CASE ~ReloadSwap
    BY <2>2, KnownParts DEF ReloadBegin, ReloadRead, ReloadMerge
  <2> QED BY <2>1, <2>2
<1>4. Known' \subseteq Known
  BY <1>1, <1>2, <1>3, KnownParts, KnownWithin
<1> QED BY <1>0, <1>1, <1>4, InstantsKept

LEMMA CrashInstants ==
  ASSUME TypeInv, TypeInv', Instants, Crash PROVE Instants'
<1>1. /\ UNCHANGED <<now, file>> /\ now \in Int
      /\ \A c \in Callers : pc'[c] = "idle" /\ draft'[c] = {}
      /\ remembered' \subseteq file
      /\ \A g \in Generations : store'[g] \subseteq file
      /\ reload'.loaded = {} /\ reload'.cached = {}
  BY QueriesSelect DEF Crash, Fresh, NoReload, TypeInv, TypeOK
<1>2. Known' \subseteq Known
  BY <1>1, KnownParts, KnownWithin DEF Late
<1> QED BY <1>1, <1>2, InstantsKept DEF Early

LEMMA NextInstants ==
  ASSUME TypeInv, TypeInv', Instants, [Next]_vars PROVE Instants'
<1>1. ASSUME NEW c \in Callers,
             \/ Evaluate(c) \/ Busy(c) \/ Enter(c) \/ Record(c)
             \/ Snapshot(c) \/ Rename(c) \/ SaveFails(c) \/ Leave(c)
      PROVE  Instants'
  BY <1>1, EvaluateInstants, RecordInstants, CallerInstants
<1>2. CASE ReloadBegin \/ ReloadRead \/ ReloadMerge \/ ReloadSwap
  BY <1>2, ReloadInstants
<1>3. CASE Tick \/ UNCHANGED vars
  <2>1. UNCHANGED <<remembered, reload, store, file, pc, req, draft>> /\ now' >= now
    BY <1>3 DEF Tick, vars, processVars, callerVars, TypeInv, TypeOK
  <2>2. Known' \subseteq Known
    BY <2>1, KnownParts, KnownWithin
  <2> QED BY <2>1, <2>2, InstantsKept
<1> QED BY <1>1, <1>2, <1>3, CrashInstants DEF Next

\* Nothing that is recorded, merged or saved makes a finite store infinite.
LEMMA FiniteSteps ==
  ASSUME NEW s, IsFiniteSet(s)
  PROVE  /\ IsFiniteSet(UsableSuccesses(s))
         /\ \A r : IsFiniteSet(Upsert(s, r)) /\ IsFiniteSet(Remember(s, r))
         /\ \A R : IsFiniteSet(R) => \A v \in MergeAll(s, R) : IsFiniteSet(v)
<1>1. IsFiniteSet(UsableSuccesses(s))
  BY QueriesSelect, FS_Subset
<1>2. ASSUME NEW r PROVE IsFiniteSet(Upsert(s, r)) /\ IsFiniteSet(Remember(s, r))
  <2>1. IsFiniteSet(s \cup {r})
    BY FS_AddElement
  <2> QED BY <2>1, RecordSelects, FS_Subset
<1>3. ASSUME NEW R, IsFiniteSet(R), NEW v \in MergeAll(s, R) PROVE IsFiniteSet(v)
  <2>1. IsFiniteSet(s \cup R)
    BY <1>3, FS_Union
  <2> QED BY <2>1, MergeSelects, FS_Subset
<1> QED BY <1>1, <1>2, <1>3

LEMMA CallerFinite ==
  ASSUME TypeInv, Finite, NEW c \in Callers,
         \/ Evaluate(c) \/ Busy(c) \/ Enter(c) \/ Record(c)
         \/ Snapshot(c) \/ Rename(c) \/ SaveFails(c) \/ Leave(c)
  PROVE  Finite'
<1>1. reload' = reload
  BY DEF Evaluate, Busy, Enter, Record, Snapshot, Rename, SaveFails, Leave, processVars
<1>2. gen[c] \in Generations /\ IsFiniteSet(store[gen[c]]) /\ IsFiniteSet({})
  BY FS_EmptySet DEF TypeInv, TypeOK, Finite
<1>3. \A g \in Generations : IsFiniteSet(store'[g])
  <2>1. CASE Record(c)
    <3>1. PICK r : store' = [store EXCEPT ![gen[c]] = Upsert(store[gen[c]], r)]
      BY <2>1 DEF Record
    <3>2. \A g \in Generations : store'[g] = store[g] \/ store'[g] = Upsert(store[gen[c]], r)
      BY <3>1 DEF TypeInv, TypeOK
    <3> QED BY <1>2, <3>2, FiniteSteps DEF Finite
  <2>2. CASE ~Record(c)
    BY <2>2 DEF Evaluate, Busy, Enter, Snapshot, Rename, SaveFails, Leave, processVars, Finite
  <2> QED BY <2>1, <2>2
<1>4. IsFiniteSet(file') /\ \A d \in Callers : IsFiniteSet(draft'[d])
  BY <1>2 DEF Evaluate, Busy, Enter, Record, Snapshot, Document, Rename, SaveFails, Leave,
              TypeInv, TypeOK, processVars, Finite
<1>5. IsFiniteSet(remembered')
  <2>1. CASE Leave(c)
    BY <2>1, FiniteSteps DEF Leave, Finite
  <2>2. CASE ~Leave(c)
    BY <2>2 DEF Evaluate, Busy, Enter, Record, Snapshot, Rename, SaveFails, processVars, Finite
  <2> QED BY <2>1, <2>2
<1> QED BY <1>1, <1>3, <1>4, <1>5 DEF Finite

LEMMA ReloadFinite ==
  ASSUME TypeInv, Finite, ReloadBegin \/ ReloadRead \/ ReloadMerge \/ ReloadSwap
  PROVE  Finite'
<1>1. UNCHANGED <<file, draft>>
  BY DEF ReloadBegin, ReloadRead, ReloadMerge, ReloadSwap, callerVars
<1>2. IsFiniteSet({}) /\ IsFiniteSet(store[generation])
  BY FS_EmptySet DEF TypeInv, TypeOK, Finite
<1>3. IsFiniteSet(reload'.loaded) /\ IsFiniteSet(reload'.cached)
  <2>1. CASE ReloadMerge
    <3>1. PICK s \in Inherited(reload.loaded, reload.cached) :
            reload' = [reload EXCEPT !.phase = "merged", !.loaded = s]
      BY <2>1 DEF ReloadMerge
    <3>2. PICK v \in MergeAll(reload.loaded, UsableSuccesses(store[generation])) :
            s \in MergeAll(v, reload.cached)
      BY <3>1 DEF Inherited
    <3>3. IsFiniteSet(s)
      BY <1>2, <3>2, FiniteSteps DEF Finite
    <3> QED BY <3>1, <3>3 DEF TypeInv, TypeOK, Finite
  <2>2. CASE ReloadBegin
    BY <1>2, <2>2 DEF ReloadBegin, NoReload, Finite
  <2>3. CASE ReloadRead
    BY <2>3 DEF ReloadRead, TypeInv, TypeOK, Finite
  <2>4. CASE ReloadSwap
    BY <1>2, <2>4 DEF ReloadSwap, NoReload
  <2> QED BY <2>1, <2>2, <2>3, <2>4
<1>4. IsFiniteSet(remembered') /\ \A g \in Generations : IsFiniteSet(store'[g])
  <2>1. CASE ReloadSwap
    <3>1. remembered' \subseteq remembered \cup reload.loaded
      BY <2>1, QueriesSelect DEF ReloadSwap, Seed
    <3>2. IsFiniteSet(remembered')
      BY <3>1, FS_Union, FS_Subset DEF Finite
    <3>3. \A g \in Generations : store'[g] = store[g] \/ store'[g] = reload.loaded
      BY <2>1 DEF ReloadSwap, TypeInv, TypeOK
    <3> QED BY <3>2, <3>3 DEF Finite
  <2>2. CASE ~ReloadSwap
    BY <2>2 DEF ReloadBegin, ReloadRead, ReloadMerge, Finite
  <2> QED BY <2>1, <2>2
<1> QED BY <1>1, <1>3, <1>4 DEF Finite

LEMMA NextFinite == ASSUME TypeInv, Finite, [Next]_vars PROVE Finite'
<1>1. ASSUME NEW c \in Callers,
             \/ Evaluate(c) \/ Busy(c) \/ Enter(c) \/ Record(c)
             \/ Snapshot(c) \/ Rename(c) \/ SaveFails(c) \/ Leave(c)
      PROVE  Finite'
  BY <1>1, CallerFinite
<1>2. CASE ReloadBegin \/ ReloadRead \/ ReloadMerge \/ ReloadSwap
  BY <1>2, ReloadFinite
<1>3. CASE Crash
  <2>1. /\ file' = file
        /\ remembered' \subseteq file
        /\ \A g \in Generations : store'[g] \subseteq file
        /\ reload'.loaded = {} /\ reload'.cached = {}
        /\ \A c \in Callers : draft'[c] = {}
    BY <1>3, QueriesSelect DEF Crash, Fresh, NoReload
  <2> QED BY <2>1, FS_Subset, FS_EmptySet DEF Finite
<1>4. CASE Tick \/ UNCHANGED vars
  BY <1>4 DEF Tick, vars, processVars, callerVars, Finite
<1> QED BY <1>1, <1>2, <1>3, <1>4 DEF Next

\* A merge takes what was read, and what was read lacks comes from the store in
\* force; the runtime's cache only adds to that.
LEMMA MergeInherits ==
  ASSUME Unmixed, TypeInv, Instants, Finite, ReloadMerge, NEW t \in Targets
  PROVE  LET read == UsableLatest(reload.loaded, t.auth, t.group)
             running == UsableLatest(store[generation], t.auth, t.group)
             new == UsableLatest(reload'.loaded, t.auth, t.group)
         IN IF read # {} THEN new = read ELSE running # {} => new = running
<1> DEFINE a == t.auth
           g == t.group
           loaded == reload.loaded
           force == store[generation]
<1>1. PICK s \in Inherited(loaded, reload.cached) :
        reload' = [reload EXCEPT !.phase = "merged", !.loaded = s]
  BY DEF ReloadMerge
<1>2. reload'.loaded = s
  BY <1>1 DEF TypeInv, TypeOK
<1>3. PICK v \in MergeAll(loaded, UsableSuccesses(force)) : s \in MergeAll(v, reload.cached)
  BY <1>1 DEF Inherited
<1>4. /\ loaded \subseteq Observations /\ force \subseteq Observations
      /\ IsFiniteSet(loaded) /\ force \subseteq Known
  BY KnownParts DEF TypeInv, TypeOK, Finite
<1>5. Timed(loaded) /\ Timed(force) /\ Untied(force)
  BY <1>4, ObservationFields DEF Timed, Instants, Untied
<1>6. \A q \in force : q.auth = a /\ q.group = NoGroup => g = NoGroup
  <2>1. ASSUME NEW q \in force, q.auth = a, q.group = NoGroup PROVE g = NoGroup
    <3>1. Target(q) \in Targets /\ Target(q).auth = a /\ Target(q).group = NoGroup
      BY <1>4, <2>1, ObservationFields DEF Target
    <3> QED BY <3>1 DEF Unmixed
  <2> QED BY <2>1
<1> HIDE DEF a, g, loaded, force
<1>7. CASE UsableLatest(loaded, a, g) # {}
  <2>1. UsableLatest(v, a, g) = UsableLatest(loaded, a, g)
    BY <1>3, <1>7, MergeAllKeeps
  <2>2. UsableLatest(s, a, g) = UsableLatest(loaded, a, g)
    BY <1>3, <1>7, <2>1, MergeAllKeeps
  <2> QED BY <1>2, <1>7, <2>2 DEF a, g, loaded
<1>8. CASE UsableLatest(loaded, a, g) = {} /\ UsableLatest(force, a, g) # {}
  <2>1. PICK x : x \in UsableLatest(force, a, g)
    BY <1>8
  <2>2. UsableLatest(v, a, g) = {x}
    BY <1>3, <1>4, <1>5, <1>6, <1>8, <2>1, MergeAllBrings
  <2>3. UsableLatest(s, a, g) = {x}
    BY <1>3, <2>2, MergeAllKeeps
  <2>4. \A y \in UsableLatest(force, a, g) : y = x
    <3> SUFFICES ASSUME NEW y \in UsableLatest(force, a, g) PROVE y = x
      OBVIOUS
    <3>1. UsableLatest(v, a, g) = {y}
      BY <1>3, <1>4, <1>5, <1>6, <1>8, MergeAllBrings
    <3> QED BY <2>2, <3>1
  <2>5. UsableLatest(force, a, g) = {x}
    BY <2>1, <2>4
  <2> QED BY <1>2, <1>8, <2>3, <2>5 DEF a, g, loaded, force
<1>9. CASE UsableLatest(loaded, a, g) = {} /\ UsableLatest(force, a, g) = {}
  BY <1>9 DEF a, g, loaded, force
<1> QED BY <1>7, <1>8, <1>9

\* Whatever callers, reloads and crashes have made of a store, a query finds at
\* most one record in it: the order of a Go map never decides which success
\* counts (model_group.go: successNewer).
QueriesFindOne ==
  \A g \in Generations, t \in Targets :
    \A q, r \in UsableLatest(store[g], t.auth, t.group) : q = r

THEOREM AnswersAreOne == ASSUME EarlierFiles PROVE Spec => []QueriesFindOne
<1>1. ASSUME TypeInv, Instants, NEW g \in Generations, NEW t \in Targets,
             NEW q \in UsableLatest(store[g], t.auth, t.group),
             NEW r \in UsableLatest(store[g], t.auth, t.group)
      PROVE  q = r
  <2>1. store[g] \subseteq Observations /\ store[g] \subseteq Known
    BY <1>1, KnownParts DEF TypeInv, TypeOK
  <2>2. Timed(store[g]) /\ Untied(store[g])
    BY <1>1, <2>1, ObservationFields DEF Timed, Instants, Untied
  <2>3. PICK h \in {t.group, NoGroup} :
          UsableLatest(store[g], t.auth, t.group)
            = Newest(Successes(UsableOf(store[g]), t.auth, h))
    BY DEF UsableLatest, PickLatest, UsableOf
  <2> QED BY <1>1, <2>2, <2>3, NewestIsOne
<1>2. TypeInv /\ Instants => QueriesFindOne
  BY <1>1 DEF QueriesFindOne
<1>3. TypeInv /\ SlotInv /\ Instants /\ [Next]_vars => TypeInv' /\ SlotInv' /\ Instants'
  BY NextTypes, NextSlots, NextInstants
<1>4. Init => TypeInv /\ SlotInv /\ Instants
  BY InitTypes, InitSlotInv, InitInstants
<1> QED BY <1>2, <1>3, <1>4, PTL DEF Spec

\* For any number of callers, reloads, crashes and failed saves a
\* reconfiguration takes for each target the success that the state file has
\* and, when it has none, the one of the running store, provided that no
\* credential mixes grouped and ungrouped records (replaceConfig, merge.go:
\* the disk wins; what is missing there is copied).
THEOREM ReloadInherits ==
  ASSUME Unmixed, EarlierFiles PROVE Spec => ReloadMerges
<1>1. ASSUME TypeInv, Instants, Finite, [Next]_vars,
             reload.phase = "read", reload'.phase = "merged"
      PROVE  ReloadMerge
  <2>1. reload' # reload
    BY <1>1
  <2>2. \A c \in Callers :
          ~(\/ Evaluate(c) \/ Busy(c) \/ Enter(c) \/ Record(c)
            \/ Snapshot(c) \/ Rename(c) \/ SaveFails(c) \/ Leave(c))
    BY <2>1 DEF Evaluate, Busy, Enter, Record, Snapshot, Rename, SaveFails, Leave, processVars
  <2>3. ~ReloadBegin /\ ~ReloadRead /\ ~ReloadSwap /\ ~Crash
    BY <1>1 DEF ReloadBegin, ReloadRead, ReloadSwap, Crash, NoReload
  <2>4. ~Tick /\ ~UNCHANGED vars
    BY <2>1 DEF Tick, vars, processVars
  <2> QED BY <1>1, <2>2, <2>3, <2>4 DEF Next
<1> DEFINE Inherits(t) ==
      LET found(s) == UsableLatest(s, t.auth, t.group)
          read == found(reload.loaded)
          running == found(store[generation])
          new == found(reload'.loaded)
      IN IF read # {} THEN new = read ELSE running # {} => new = running
<1>2. TypeInv /\ Instants /\ Finite /\ [Next]_vars =>
        [reload.phase = "read" /\ reload'.phase = "merged"
           => \A t \in Targets : Inherits(t)]_vars
  BY <1>1, MergeInherits
<1>3. TypeInv /\ SlotInv /\ Instants /\ Finite /\ [Next]_vars
        => TypeInv' /\ SlotInv' /\ Instants' /\ Finite'
  BY NextTypes, NextSlots, NextInstants, NextFinite
<1>4. Init => TypeInv /\ SlotInv /\ Instants /\ Finite
  BY InitTypes, InitSlotInv, InitInstants
<1> QED BY <1>2, <1>3, <1>4, PTL DEF Spec, ReloadMerges

=============================================================================

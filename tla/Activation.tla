----------------------------- MODULE Activation -----------------------------
(***************************************************************************)
(* From an observed quota window to a wake that is recorded: what the      *)
(* scanner's workers, the manual handler, the activator, the state store,  *)
(* reconfiguration and a crash do to one another.                          *)
(*                                                                         *)
(* A caller observes the quota of a target and judges by its store whether *)
(* to wake it; the activator takes a slot, asks its hard gate, calls the   *)
(* host, records the outcome in its store, and saves the store to the      *)
(* state file.  Each configuration generation has an activator and a store *)
(* of its own; a caller stays with the generation it began in.             *)
(*                                                                         *)
(* The observation travels with the caller as the record that will be      *)
(* stored in the end, its result still "pending".                          *)
(***************************************************************************)
EXTENDS StateStore

CONSTANTS
  Workers,        \* goroutines of the scanner's pool
  Manual,         \* manual activation requests being served
  Targets,        \* credentials with their model group: [auth, group]
  Windows,        \* quota windows an observation can find
  Resets,         \* reset times an observation can find
  Remaining,      \* remaining quotas an observation can find
  MaxConcurrency, \* max_concurrency, at least one
  StartFiles,     \* what the state file may hold at first
  MaxNow,         \* bound: the clock stops here
  MaxReloads,     \* bound: reconfigurations
  MaxCrashes,     \* bound: crashes
  MaxSaveErrors   \* bound: saves that fail

Callers == Workers \cup Manual
Generations == 0 .. MaxReloads
Results == {"success", "failed", "skipped"}

\* The two times of an observation exchanged.
Observation_Swapped(t, w, reset, obs, rem) ==
  [auth |-> t.auth, group |-> t.group, window |-> w, reset |-> obs,
   obs |-> reset, result |-> "pending", rem |-> rem]
Observation(t, w, reset, obs, rem) ==
  [auth |-> t.auth, group |-> t.group, window |-> w, reset |-> reset,
   obs |-> obs, result |-> "pending", rem |-> rem]

Target(r) == [auth |-> r.auth, group |-> r.group]

\* A reset time that some record may have, read from the file or observed.
AnyReset == Resets \cup {r.reset : r \in UNION StartFiles}

Observations ==
  {r \in [auth : {t.auth : t \in Targets}, group : {t.group : t \in Targets},
          window : Windows, reset : AnyReset, obs : 0 .. MaxNow,
          result : Results \cup {"pending"}, rem : Remaining] :
     Target(r) \in Targets}

ASSUME ActivationConstants ==
  /\ Workers \cap Manual = {}
  /\ Targets \subseteq [auth : {t.auth : t \in Targets},
                        group : {t.group : t \in Targets}]
  /\ AnyReset \subseteq Nat
  /\ Remaining \subseteq Nat \cup {NoSnapshot}
  /\ MaxConcurrency \in Nat \ {0}
  /\ MaxNow \in Nat \ {0}
  /\ MaxReloads \in Nat
  /\ MaxCrashes \in Nat
  /\ MaxSaveErrors \in Nat
  /\ StartFiles \subseteq SUBSET Observations

VARIABLES
  now,         \* the clock
  generation,  \* the current configuration
  store,       \* generation -> its state store
  cache,       \* generation -> its activator's last usable successes
  slots,       \* generation -> the callers that hold its run slots
  remembered,  \* the runtime's last usable successes
  file,        \* the records in the state file
  pc,          \* caller -> where it stands
  req,         \* caller -> its observation
  gen,         \* caller -> its generation
  draft,       \* caller -> the document it is about to rename into place
  reload,      \* the reconfiguration in progress; had is history: the closed
               \* cycles in the running store when it began
  crashes,     \* crashes so far
  saveErrors,  \* failed saves so far
  closed,      \* history: target -> its last success, until it is reopened
  reported     \* history: the targets whose last success was saved

processVars == <<generation, store, cache, slots, remembered, reload>>
callerVars == <<pc, req, gen, draft>>
boundVars == <<crashes, saveErrors>>
historyVars == <<closed, reported>>
vars == <<now, processVars, file, callerVars, boundVars, historyVars>>

Nothing == [result |-> "none"]
NoReload == [phase |-> "none", cached |-> {}, loaded |-> {}, had |-> {}]
CallerPc == {"idle", "evaluated", "waking", "skipping", "stored", "saving",
             "saved"}

TypeOK ==
  /\ now \in 1 .. MaxNow
  /\ generation \in Generations
  /\ store \in [Generations -> SUBSET Observations]
  /\ cache \in [Generations -> SUBSET Observations]
  /\ slots \in [Generations -> SUBSET Callers]
  /\ remembered \subseteq Observations
  /\ file \subseteq Observations
  /\ pc \in [Callers -> CallerPc]
  /\ req \in [Callers -> Observations \cup {Nothing}]
  /\ gen \in [Callers -> Generations]
  /\ draft \in [Callers -> SUBSET Observations]
  /\ reload \in [phase : {"none", "begun", "read", "merged"},
                 cached : SUBSET Observations, loaded : SUBSET Observations,
                 had : SUBSET Observations]
  /\ crashes \in 0 .. MaxCrashes
  /\ saveErrors \in 0 .. MaxSaveErrors
  /\ closed \in [Targets -> SUBSET Observations]
  /\ reported \subseteq Targets

\* A process that has just loaded the records r.
Fresh(r) ==
  [store |-> [g \in Generations |-> IF g = 0 THEN r ELSE {}],
   remembered |-> UsableSuccesses(r)]

\* Time 0 is before the process began.
Init ==
  /\ now = 1
  /\ file \in StartFiles
  /\ generation = 0
  /\ store = Fresh(file).store
  /\ cache = [g \in Generations |-> {}]
  /\ slots = [g \in Generations |-> {}]
  /\ remembered = Fresh(file).remembered
  /\ reload = NoReload
  /\ pc = [c \in Callers |-> "idle"]
  /\ req = [c \in Callers |-> Nothing]
  /\ gen = [c \in Callers |-> 0]
  /\ draft = [c \in Callers |-> {}]
  /\ crashes = 0
  /\ saveErrors = 0
  /\ closed = [t \in Targets |-> {}]
  /\ reported = {}

-----------------------------------------------------------------------------
(* A caller *)

Goto(c, label) == pc' = [pc EXCEPT ![c] = label]

\* The pool works for one scan at a time, with the snapshot that scan took,
\* and a scan holds each target once.
ScanAdmits_Always(c, t, g) == TRUE
ScanAdmits(c, t, g) ==
  \A d \in Workers \ {c} :
    pc[d] # "idle" => gen[d] = g /\ Target(req[d]) # t

Wanted(c, g, q) ==
  /\ Activates(store[g], q)
  /\ c \in Workers => ~ScannerSkips(store[g], q)

\* A caller that took the runtime's parts before a reload goes on with them.
\* The detector takes a reset that is past like any other.  No two observations
\* are made at the same instant.
Evaluate(c) ==
  /\ pc[c] = "idle"
  /\ now < MaxNow
  /\ \E t \in Targets, g \in 0 .. generation, w \in Windows,
        reset \in Resets, rem \in Remaining :
       LET q == Observation(t, w, reset, now, rem) IN
       /\ c \in Workers => ScanAdmits(c, t, g)
       /\ Wanted(c, g, q)
       /\ req' = [req EXCEPT ![c] = q]
       /\ gen' = [gen EXCEPT ![c] = g]
  /\ Goto(c, "evaluated")
  /\ now' = now + 1
  /\ UNCHANGED <<processVars, file, draft, boundVars, historyVars>>

SlotFree_OneTooMany(g) == Cardinality(slots[g]) <= MaxConcurrency
SlotFree(g) == Cardinality(slots[g]) < MaxConcurrency

\* No slot: the caller is told so at once, and nothing is recorded.
Busy(c) ==
  /\ pc[c] = "evaluated"
  /\ ~SlotFree(gen[c])
  /\ Goto(c, "idle")
  /\ req' = [req EXCEPT ![c] = Nothing]
  /\ gen' = [gen EXCEPT ![c] = 0]
  /\ UNCHANGED <<now, processVars, file, draft, boundVars, historyVars>>

\* Activate takes a slot and asks the hard gate.  A wake that passes reopens
\* the cycle of its target.
Enter(c) ==
  /\ pc[c] = "evaluated"
  /\ SlotFree(gen[c])
  /\ slots' = [slots EXCEPT ![gen[c]] = @ \cup {c}]
  /\ \E view \in GateViews(store[gen[c]], cache[gen[c]]) :
       \/ /\ HardSkips(view, req[c], now)
          /\ Goto(c, "skipping")
          /\ UNCHANGED historyVars
       \/ /\ ~HardSkips(view, req[c], now)
          /\ Goto(c, "waking")
          /\ closed' = [closed EXCEPT ![Target(req[c])] = {}]
          /\ reported' = reported \ {Target(req[c])}
  /\ UNCHANGED <<now, generation, store, cache, remembered, reload, file, req,
                 gen, draft, boundVars>>

\* storeResult, up to the save: after the host has answered, or at once for a
\* request the gate skipped.
Outcomes(c) == IF pc[c] = "waking" THEN Results ELSE {"skipped"}

Record(c) ==
  /\ pc[c] \in {"waking", "skipping"}
  /\ \E result \in Outcomes(c) :
       LET r == [req[c] EXCEPT !.result = result]
           g == gen[c]
       IN
       /\ req' = [req EXCEPT ![c] = r]
       /\ store' = [store EXCEPT ![g] = Upsert(@, r)]
       /\ cache' = [cache EXCEPT ![g] = Remember(@, r)]
       /\ IF result = "success"
          THEN /\ closed' = [closed EXCEPT ![Target(r)] = {r}]
               /\ reported' = reported \ {Target(r)}
          ELSE UNCHANGED historyVars
  /\ Goto(c, "stored")
  /\ UNCHANGED <<now, generation, slots, remembered, reload, file, gen, draft,
                 boundVars>>

\* SaveAtomic copies the whole store and then renames the copy into place.
Document_OwnRecord(c) == {req[c]}
Document(c) == store[gen[c]]

Snapshot(c) ==
  /\ pc[c] = "stored"
  /\ draft' = [draft EXCEPT ![c] = Document(c)]
  /\ Goto(c, "saving")
  /\ UNCHANGED <<now, processVars, file, req, gen, boundVars, historyVars>>

Rename(c) ==
  /\ pc[c] = "saving"
  /\ file' = draft[c]
  /\ draft' = [draft EXCEPT ![c] = {}]
  /\ reported' = reported \cup {t \in Targets : closed[t] = {req[c]}}
  /\ Goto(c, "saved")
  /\ UNCHANGED <<now, processVars, req, gen, boundVars, closed>>

\* A success is still reported as one, with a warning.
SaveFails(c) ==
  /\ pc[c] \in {"stored", "saving"}
  /\ saveErrors < MaxSaveErrors
  /\ saveErrors' = saveErrors + 1
  /\ draft' = [draft EXCEPT ![c] = {}]
  /\ Goto(c, "saved")
  /\ UNCHANGED <<now, processVars, file, req, gen, crashes, historyVars>>

\* Activate returns; the runtime remembers a success, and the caller is done.
Leave(c) ==
  /\ pc[c] = "saved"
  /\ slots' = [slots EXCEPT ![gen[c]] = @ \ {c}]
  /\ remembered' = Remember(remembered, req[c])
  /\ Goto(c, "idle")
  /\ req' = [req EXCEPT ![c] = Nothing]
  /\ gen' = [gen EXCEPT ![c] = 0]
  /\ UNCHANGED <<now, generation, store, cache, reload, file, draft, boundVars,
                 historyVars>>

-----------------------------------------------------------------------------
(* replaceConfig, in its four steps, and a crash *)

ReloadBegin ==
  /\ reload.phase = "none"
  /\ generation < MaxReloads
  /\ reload' = [NoReload EXCEPT
                  !.phase = "begun", !.cached = remembered,
                  !.had = store[generation] \cap UNION {closed[t] : t \in Targets}]
  /\ UNCHANGED <<now, generation, store, cache, slots, remembered, file,
                 callerVars, boundVars, historyVars>>

ReloadRead ==
  /\ reload.phase = "begun"
  /\ reload' = [reload EXCEPT !.phase = "read", !.loaded = file]
  /\ UNCHANGED <<now, generation, store, cache, slots, remembered, file,
                 callerVars, boundVars, historyVars>>

\* What was read, then the store of the generation in force, then the cache.
Inherited_MemoryFirst(loaded, cached) ==
  UNION {MergeAll(s, UsableSuccesses(loaded)) :
           s \in MergeAll(store[generation], cached)}
Inherited(loaded, cached) ==
  UNION {MergeAll(s, cached) :
           s \in MergeAll(loaded, UsableSuccesses(store[generation]))}

ReloadMerge ==
  /\ reload.phase = "read"
  /\ \E s \in Inherited(reload.loaded, reload.cached) :
       reload' = [reload EXCEPT !.phase = "merged", !.loaded = s]
  /\ UNCHANGED <<now, generation, store, cache, slots, remembered, file,
                 callerVars, boundVars, historyVars>>

Seed(mem, s) ==
  LET seeds == UsableSuccesses(s)
  IN {q \in mem : \A r \in seeds : Target(q) # Target(r)} \cup seeds

ReloadSwap ==
  /\ reload.phase = "merged"
  /\ generation' = generation + 1
  /\ store' = [store EXCEPT ![generation + 1] = reload.loaded]
  /\ remembered' = Seed(remembered, reload.loaded)
  /\ reload' = NoReload
  /\ UNCHANGED <<now, cache, slots, file, callerVars, boundVars, historyVars>>

\* The process dies and is started again; the state file is what is left.
\* A success that was never reported may be forgotten.
Crash ==
  /\ crashes < MaxCrashes
  /\ crashes' = crashes + 1
  /\ generation' = 0
  /\ store' = Fresh(file).store
  /\ remembered' = Fresh(file).remembered
  /\ cache' = [g \in Generations |-> {}]
  /\ slots' = [g \in Generations |-> {}]
  /\ reload' = NoReload
  /\ pc' = [c \in Callers |-> "idle"]
  /\ req' = [c \in Callers |-> Nothing]
  /\ gen' = [c \in Callers |-> 0]
  /\ draft' = [c \in Callers |-> {}]
  /\ closed' = [t \in Targets |-> IF t \in reported THEN closed[t] ELSE {}]
  /\ UNCHANGED <<now, file, saveErrors, reported>>

Tick ==
  /\ now < MaxNow
  /\ now' = now + 1
  /\ UNCHANGED <<processVars, file, callerVars, boundVars, historyVars>>

Next ==
  \/ \E c \in Callers :
       \/ Evaluate(c) \/ Busy(c) \/ Enter(c) \/ Record(c)
       \/ Snapshot(c) \/ Rename(c) \/ SaveFails(c) \/ Leave(c)
  \/ ReloadBegin \/ ReloadRead \/ ReloadMerge \/ ReloadSwap \/ Crash \/ Tick

Spec == Init /\ [][Next]_vars

-----------------------------------------------------------------------------
(* Properties *)

\* The cycle of the success r is over for an observation made at time t.
Over(r, q, t) == r.reset <= t \/ Recovered(q, r)

\* A wake begins only when the last success on its target is over: reset by
\* the clock, or refilled (activator.go: the hard gate that manual and
\* automatic requests share; the release notes promise that a duplicate
\* within one reset window is blocked).
NoWakeInClosedCycle ==
  [][\A c \in Callers :
       pc[c] = "evaluated" /\ pc'[c] = "waking" =>
         \A r \in closed[Target(req[c])] : Over(r, req[c], now)]_vars

Seen(r) == [reset |-> r.reset, rem |-> r.rem]

Promise == INSTANCE WakeOnce WITH
  Cycles <- [reset : AnyReset, rem : Remaining],
  attempt <- [t \in Targets |->
                {Seen(req[c]) : c \in {d \in Callers :
                   pc[d] = "waking" /\ Target(req[d]) = t}}],
  closed <- [t \in Targets |-> {Seen(r) : r \in closed[t]}],
  kept <- reported

\* The whole pipeline, from evaluation to a crash, wakes each cycle once, and
\* never makes two attempts on one target at a time.
WakesOnce == Promise!Spec

\* A success that closes a cycle is held by the store its caller recorded it
\* in, and no other success on the target is newer there: what the gate finds
\* is the success that counts.  No result on the same key replaces it.
ClosedIsNewest ==
  \A t \in Targets : \A r \in closed[t] :
    LatestSuccess(store[generation], t.auth, t.group) = {r}

\* Callers hold slots exactly while they run, and never more than there are
\* (tryAcquireRunSlot, releaseRunSlot): whatever way a caller leaves, its slot
\* comes back, to the activator it was taken from.
SlotsAreHeld ==
  \A g \in Generations :
    /\ slots[g] = {c \in Callers :
                     pc[c] \notin {"idle", "evaluated"} /\ gen[c] = g}
    /\ Cardinality(slots[g]) <= MaxConcurrency

\* For each target a reconfiguration takes the success it read from the state
\* file or, when the file had none, the one of the running store, whatever the
\* callers in flight record and save meanwhile (merge.go: the disk wins; what
\* is missing there is copied).
ReloadMerges ==
  [][reload.phase = "read" /\ reload'.phase = "merged" =>
       \A t \in Targets :
         LET found(s) == UsableLatest(s, t.auth, t.group)
             read == found(reload.loaded)
             running == found(store[generation])
             new == found(reload'.loaded)
         IN IF read # {} THEN new = read ELSE running # {} => new = running]_vars

\* Every success that closed a cycle when a reconfiguration began still closes
\* it in the new generation (release notes of v0.0.7: success records in
\* memory are inherited and merged, so that nothing is woken twice).
ReloadInheritsSuccess ==
  [][generation' = generation + 1 =>
       \A r \in reload.had :
         closed[Target(r)] = {r} =>
           LatestSuccess(store'[generation'], r.auth, r.group) = {r}]_vars

=============================================================================

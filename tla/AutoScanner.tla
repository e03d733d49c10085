---------------------------- MODULE AutoScanner ----------------------------
(***************************************************************************)
(* The automatic scanner: its loops, the slot of which one scan at a time  *)
(* holds, the scan with its pool of workers, the cooldowns, and Shutdown.  *)
(*                                                                         *)
(* A reconfiguration that changes the interval, or turns the scanner off   *)
(* and on, cancels the loop and starts another; the old goroutine may be   *)
(* in the middle of a scan.  Time is a set of counters that Tick moves, so *)
(* that a behaviour has no last instant: how long a loop has to sleep, how *)
(* long ago its round began and the slot was last claimed, how long a      *)
(* credential cools down.  Scan, queue and summary exist once, for the     *)
(* loop that holds the slot.                                               *)
(*                                                                         *)
(* What Activate does inside is the business of Activation: here it is a   *)
(* request that is asked, and answered in one of four ways.                *)
(***************************************************************************)
EXTENDS Integers, Sequences, FiniteSets

CONSTANTS
  MaxLoops,      \* bound: loops started in a behaviour
  Configs,       \* configurations: auto_activate and scan_interval
  Default,       \* the one before the first registration, with auto off
  Slack,         \* autoScanIntervalSlack
  StartupDelay,  \* autoScanStartupDelay
  MaxCooldown,   \* maxSchedulerMissCooldown
  MaxStall,      \* how long a round can take from its start to its claim
  Patience,      \* how long Shutdown waits for a scan
  Workers,       \* max_concurrency workers of the pool
  Auths,         \* credentials
  Candidates,    \* what can be woken, a credential or a model group of one
  AuthOf(_),     \* the credential of a candidate
  NoSummary      \* a model value

Loops == 1 .. MaxLoops
Intervals == {c.interval : c \in Configs}
Longest == CHOOSE i \in Intervals : \A j \in Intervals : j <= i

ASSUME ScannerConstants ==
  /\ MaxLoops \in Nat
  /\ Configs \subseteq [auto : BOOLEAN, interval : Nat \ {0}]
  /\ Default \in Configs /\ ~Default.auto
  /\ \E i \in Intervals : \A j \in Intervals : j <= i
  /\ IsFiniteSet(Workers) /\ IsFiniteSet(Candidates)
  /\ {Slack, StartupDelay, MaxCooldown, MaxStall, Patience} \subseteq Nat
  /\ \A c \in Candidates : AuthOf(c) \in Auths

VARIABLES
  config,     \* auto_activate and scan_interval in force
  shutdown,   \* Runtime.shutdown
  stop,       \* what Shutdown is doing, and how long it still waits
  current,    \* the loop whose cancel function the runtime holds, or 0
  born,       \* number of loops started
  pc,         \* loop -> where its goroutine stands
  cancelled,  \* loop -> its context is cancelled
  clock,      \* loop -> what is left of its sleep; awake, the time since the
              \* start of its round
  running,    \* autoScanRunning
  since,      \* time since lastAutoScanAt, at most the longest interval
  pending,    \* candidates collected and not yet given to the pool
  queue,      \* jobs in the buffered channel
  found,      \* number of candidates the scan has collected
  work,       \* worker -> what it is doing, and with which candidate
  acc,        \* number of candidates the workers have accounted for
  summary,    \* what the scan has written to the run history
  cool,       \* credential -> what is left of its cooldown
  robbed      \* loop -> another one has claimed since its last attempt

runtimeVars == <<config, shutdown, stop, current, born>>
loopVars == <<pc, cancelled, clock>>
slotVars == <<running, since, robbed>>
scanVars == <<pending, queue, found, work, acc, summary>>
vars == <<runtimeVars, loopVars, slotVars, scanVars, cool>>

Before == {"unborn", "delay", "top", "snapshot", "claim"}
Scanning == {"list", "collect", "dispatch", "drain", "release"}
LoopPc == Before \cup Scanning \cup {"after", "sleep", "ended"}
Asleep == {"delay", "sleep"}
Counts == 0 .. Cardinality(Candidates)
Free == [step |-> "free"]
Job(step, c) == [step |-> step, job |-> c]
Jobs == [step : {"cooldown", "wake", "asking", "count"}, job : Candidates]
Stops == [state : {"no", "waiting", "clean", "gaveUp"}, left : 0 .. Patience]

\* The variables stay in their ranges.
TypeOK ==
  /\ config \in Configs
  /\ {shutdown, running} \subseteq BOOLEAN
  /\ stop \in Stops
  /\ current \in 0 .. MaxLoops
  /\ born \in 0 .. MaxLoops
  /\ pc \in [Loops -> LoopPc]
  /\ {cancelled, robbed} \subseteq [Loops -> BOOLEAN]
  /\ clock \in [Loops -> Nat]
  /\ since \in 0 .. Longest
  /\ pending \in SUBSET Candidates
  /\ queue \in SUBSET Candidates
  /\ {found, acc} \subseteq Counts
  /\ work \in [Workers -> Jobs \cup {Free}]
  /\ summary \in Counts \cup {NoSummary}
  /\ cool \in [Auths -> 0 .. MaxCooldown]

Init ==
  /\ config = Default
  /\ shutdown = FALSE
  /\ stop = [state |-> "no", left |-> 0]
  /\ current = 0
  /\ born = 0
  /\ pc = [l \in Loops |-> "unborn"]
  /\ cancelled = [l \in Loops |-> FALSE]
  /\ clock = [l \in Loops |-> 0]
  /\ running = FALSE
  /\ since = Longest          \* never: any gap is long enough
  /\ robbed = [l \in Loops |-> FALSE]
  /\ pending = {}
  /\ queue = {}
  /\ found = 0
  /\ work = [w \in Workers |-> Free]
  /\ acc = 0
  /\ summary = NoSummary
  /\ cool = [a \in Auths |-> 0]

-----------------------------------------------------------------------------
(* Starting and stopping a loop, under Runtime.mu *)

Smaller(i, j) == IF i < j THEN i ELSE j

Cancel_Nothing == UNCHANGED cancelled
Cancel ==
  cancelled' = IF current = 0 THEN cancelled
               ELSE [cancelled EXCEPT ![current] = TRUE]

\* stopAutoScannerLocked cancels the loop, if there is one, and forgets it.
StopLoop == Cancel /\ current' = 0 /\ UNCHANGED <<born, pc, clock>>

\* startAutoScannerLocked keeps a loop that runs at this interval, and
\* replaces any other.
StartLoop(interval) ==
  IF current # 0 /\ config.interval = interval
  THEN UNCHANGED <<current, born, cancelled, pc, clock>>
  ELSE /\ born < MaxLoops
       /\ Cancel
       /\ born' = born + 1
       /\ current' = born + 1
       /\ pc' = [pc EXCEPT ![born + 1] = "delay"]
       /\ clock' = [clock EXCEPT ![born + 1] = StartupDelay]

\* The last critical section of replaceConfig.
Reconfigure(cfg) ==
  /\ ~shutdown
  /\ config' = cfg
  /\ IF cfg.auto THEN StartLoop(cfg.interval) ELSE StopLoop
  /\ UNCHANGED <<shutdown, stop, slotVars, scanVars, cool>>

Shutdown ==
  /\ ~shutdown
  /\ shutdown' = TRUE
  /\ StopLoop
  /\ stop' = [state |-> "waiting", left |-> Patience]
  /\ UNCHANGED <<config, slotVars, scanVars, cool>>

\* Shutdown polls autoScanRunning until it is gone or the time is up; it
\* returns without an error either way.
ShutdownReturns ==
  /\ stop.state = "waiting"
  /\ ~running \/ stop.left = 0
  /\ stop' = [state |-> IF running THEN "gaveUp" ELSE "clean", left |-> 0]
  /\ UNCHANGED <<config, shutdown, current, born, loopVars, slotVars, scanVars, cool>>

-----------------------------------------------------------------------------
(* runAutoScanLoop *)

Goto(l, label) == pc' = [pc EXCEPT ![l] = label]
SetClock(l, t) == clock' = [clock EXCEPT ![l] = t]
Ends(l) == Goto(l, "ended") /\ SetClock(l, 0)

\* A sleep ends when its time is up or its context is cancelled; when both
\* hold, select takes either.
Wakes(l) ==
  /\ pc[l] \in Asleep
  /\ \/ clock[l] = 0 /\ Goto(l, "top") /\ UNCHANGED clock
     \/ cancelled[l] /\ Ends(l)
  /\ UNCHANGED <<runtimeVars, cancelled, slotVars, scanVars, cool>>

Top(l) ==
  /\ pc[l] = "top"
  /\ IF cancelled[l] THEN Ends(l) ELSE Goto(l, "snapshot") /\ SetClock(l, 0)
  /\ UNCHANGED <<runtimeVars, cancelled, slotVars, scanVars, cool>>

\* autoSnapshot, a critical section of its own.
TakeSnapshot(l) ==
  /\ pc[l] = "snapshot"
  /\ Goto(l, IF shutdown \/ ~config.auto THEN "after" ELSE "claim")
  /\ UNCHANGED <<runtimeVars, cancelled, clock, slotVars, scanVars, cool>>

MinGap_NoSlack(interval) == interval
MinGap(interval) == IF interval < Slack THEN 0 ELSE interval - Slack

\* autoScanInterval is the interval of the loop in force; without one the
\* configured interval is used: the same value.
Claimable_WhileRunning == since >= MinGap(config.interval)
Claimable == ~running /\ since >= MinGap(config.interval)

\* claimAutoScanSlot, another critical section: a reload fits before it.
Claim(l) ==
  /\ pc[l] = "claim"
  /\ IF Claimable
     THEN /\ Goto(l, "list")
          /\ running' = TRUE
          /\ since' = 0
          /\ robbed' = [k \in Loops |-> k # l]
     ELSE /\ Goto(l, "after")
          /\ robbed' = [robbed EXCEPT ![l] = FALSE]
          /\ UNCHANGED <<running, since>>
  /\ UNCHANGED <<runtimeVars, cancelled, clock, scanVars, cool>>

Wait_MayBeNegative(elapsed) == config.interval - elapsed
Wait(elapsed) == IF elapsed < config.interval THEN config.interval - elapsed ELSE 0

After(l) ==
  /\ pc[l] = "after"
  /\ IF cancelled[l] THEN Ends(l) ELSE Goto(l, "sleep") /\ SetClock(l, Wait(clock[l]))
  /\ UNCHANGED <<runtimeVars, cancelled, slotVars, scanVars, cool>>

-----------------------------------------------------------------------------
(* scanAutoCandidates.  A summary stands for the number it says was tried. *)

\* snapshotScanSummary, and the way to the deferred releaseAutoScanSlot.
Summarise(l, attempted) == summary' = attempted /\ Goto(l, "release")

\* host.ListAuthFiles: a host call looks at its context before it starts.
List(l) ==
  /\ pc[l] = "list"
  /\ \/ ~cancelled[l] /\ Goto(l, "collect") /\ UNCHANGED summary
     \/ Summarise(l, 0)
  /\ UNCHANGED <<runtimeVars, cancelled, clock, slotVars, pending, queue, found,
                 work, acc, cool>>

\* The serial pass over the files: a cancellation anywhere in it ends the scan
\* with an empty summary, whatever has been collected.
Collect(l) ==
  /\ pc[l] = "collect"
  /\ IF cancelled[l] THEN Summarise(l, 0) /\ UNCHANGED <<pending, found>>
     ELSE \E cs \in SUBSET Candidates :
            /\ pending' = cs
            /\ found' = Cardinality(cs)
            /\ Goto(l, "dispatch")
            /\ UNCHANGED summary
  /\ UNCHANGED <<runtimeVars, cancelled, clock, slotVars, queue, work, acc, cool>>

\* One candidate goes to the pool.  The channel has room for all of them, so
\* sending never waits; a cancellation drops what is left.
Dispatch(l) ==
  /\ pc[l] = "dispatch"
  /\ IF cancelled[l] \/ pending = {}
     THEN Goto(l, "drain") /\ pending' = {} /\ UNCHANGED queue
     ELSE /\ \E c \in pending : pending' = pending \ {c} /\ queue' = queue \cup {c}
          /\ UNCHANGED pc
  /\ UNCHANGED <<runtimeVars, cancelled, clock, slotVars, found, work, acc,
                 summary, cool>>

Drained_QueueOnly == queue = {}
Drained == queue = {} /\ \A w \in Workers : work[w] = Free

\* close(jobs), wg.Wait, the summary.
Finish(l) ==
  /\ pc[l] = "drain"
  /\ Drained
  /\ Summarise(l, acc)
  /\ acc' = 0
  /\ found' = 0
  /\ UNCHANGED <<runtimeVars, cancelled, clock, slotVars, pending, queue, work, cool>>

Release(l) ==
  /\ pc[l] = "release"
  /\ Goto(l, "after")
  /\ running' = FALSE
  /\ summary' = NoSummary
  /\ UNCHANGED <<runtimeVars, cancelled, clock, since, robbed, pending, queue,
                 found, work, acc, cool>>

-----------------------------------------------------------------------------
(* A worker of the pool.  Its context is that of the loop that scans. *)

ScanCancelled == \E l \in Loops : pc[l] \in Scanning /\ cancelled[l]

outsidePool == <<runtimeVars, loopVars, slotVars, pending, found, summary>>

Becomes(w, job) == work' = [work EXCEPT ![w] = job]

\* What a worker does with a job it received: the detector or the hard gate
\* refuses it, or it goes on; after a cancellation it is thrown away.
Start(w, c) ==
  IF ScanCancelled THEN UNCHANGED work
  ELSE \E step \in {"cooldown", "count"} : Becomes(w, Job(step, c))

Receives_UntilCancelled(w) == work[w] = Free /\ ~ScanCancelled
Receives(w) == work[w] = Free

Take(w) ==
  /\ Receives(w)
  /\ \E c \in queue : queue' = queue \ {c} /\ Start(w, c)
  /\ UNCHANGED <<outsidePool, acc, cool>>

\* schedulerMissCooldownDuration
Cooldown == Smaller(config.interval, MaxCooldown)
Noted(a) == [cool EXCEPT ![a] = Cooldown]

AfterSkip_Noted(a) == Noted(a)
\* A skip for a cooldown notes nothing: only an answer does.
AfterSkip(a) == cool

CheckCooldown(w) ==
  /\ work[w].step = "cooldown"
  /\ LET c == work[w].job IN
       IF cool[AuthOf(c)] > 0
       THEN Becomes(w, Job("count", c)) /\ cool' = AfterSkip(AuthOf(c))
       ELSE Becomes(w, Job("wake", c)) /\ UNCHANGED cool
  /\ UNCHANGED <<outsidePool, queue, acc>>

Refused_Never == FALSE
Refused == ScanCancelled

\* Activate, up to the provider: with a cancelled context no call leaves.
Ask(w) ==
  /\ work[w].step = "wake"
  /\ Becomes(w, Job(IF Refused THEN "count" ELSE "asking", work[w].job))
  /\ UNCHANGED <<outsidePool, queue, acc, cool>>

\* The answer: a failure of the scheduler or of the host's executor puts the
\* credential, with all its groups, on cooldown; any other answer does not.
Answer(w) ==
  /\ work[w].step = "asking"
  /\ Becomes(w, Job("count", work[w].job))
  /\ cool' \in {cool, Noted(AuthOf(work[w].job))}
  /\ UNCHANGED <<outsidePool, queue, acc>>

Add(w) ==
  /\ work[w].step = "count"
  /\ acc' = acc + 1
  /\ Becomes(w, Free)
  /\ UNCHANGED <<outsidePool, queue, cool>>

\* OnActivation after a manual success, at any time.
ManualSuccess(a) ==
  /\ cool' = [cool EXCEPT ![a] = 0]
  /\ UNCHANGED <<runtimeVars, loopVars, slotVars, scanVars>>

-----------------------------------------------------------------------------
(* Time *)

Less(t) == IF t = 0 THEN 0 ELSE t - 1

ClockMoves(l) ==
  IF pc[l] \in Asleep THEN Less(clock[l])
  ELSE IF pc[l] \in {"unborn", "top", "ended"} THEN 0
  ELSE Smaller(clock[l] + 1, Longest)

\* A round gets from its start to its claim within MaxStall.
Tick ==
  /\ \A l \in Loops : pc[l] \in {"snapshot", "claim"} => clock[l] < MaxStall
  /\ clock' = [l \in Loops |-> ClockMoves(l)]
  /\ since' = Smaller(since + 1, Longest)
  /\ cool' = [a \in Auths |-> Less(cool[a])]
  /\ stop' = [stop EXCEPT !.left = Less(@)]
  /\ UNCHANGED <<config, shutdown, current, born, pc, cancelled, running, robbed,
                 scanVars>>

LoopStep(l) ==
  \/ Wakes(l) \/ Top(l) \/ TakeSnapshot(l) \/ Claim(l) \/ After(l)
  \/ List(l) \/ Collect(l) \/ Dispatch(l) \/ Finish(l) \/ Release(l)

WorkerStep(w) ==
  Take(w) \/ CheckCooldown(w) \/ Ask(w) \/ Answer(w) \/ Add(w)

Next ==
  \/ \E cfg \in Configs : Reconfigure(cfg)
  \/ Shutdown \/ ShutdownReturns
  \/ \E l \in Loops : LoopStep(l)
  \/ \E w \in Workers : WorkerStep(w)
  \/ \E a \in Auths : ManualSuccess(a)
  \/ Tick

\* Goroutines are scheduled (of the pool, one that can go on), the host
\* answers, and time passes.
Fairness ==
  /\ \A l \in Loops : WF_vars(LoopStep(l))
  /\ WF_vars(\E w \in Workers : WorkerStep(w))
  /\ WF_vars(ShutdownReturns)
  /\ WF_vars(Tick)

Spec == Init /\ [][Next]_vars /\ Fairness

-----------------------------------------------------------------------------
(* What must hold *)

\* At most one scan is under way, and autoScanRunning says so.
OneScan ==
  /\ \A k, l \in Loops : pc[k] \in Scanning /\ pc[l] \in Scanning => k = l
  /\ running <=> \E l \in Loops : pc[l] \in Scanning

\* When Shutdown has returned because no scan was running, no job and no
\* request of the scanner is under way, then or later: a loop that had its
\* snapshot can still claim the slot, but no longer gets a candidate.
QuietAfterShutdown ==
  stop.state = "clean" => queue = {} /\ \A w \in Workers : work[w] = Free

\* From the moment Shutdown has set its flag no request of the scanner leaves,
\* whether Shutdown waits for those under way or gives up on them.
NoWakeAfterShutdown ==
  [][shutdown => \A w \in Workers : work'[w].step = "asking" => work'[w] = work[w]]_vars

\* A scan that nobody cancelled accounts for every candidate it collected,
\* however the workers interleave, in the one summary it writes.
EveryCandidateCounted ==
  [][\A l \in Loops :
       pc[l] = "drain" /\ pc'[l] = "release" /\ ~cancelled[l]
         => summary' = found]_vars

\* A loop loses a round only to another scan: one that runs, or one that
\* claimed the slot since the loop's own last attempt.  A late claim in one
\* round never makes the next one come too early.
RoundsAreKept ==
  [][\A l \in Loops :
       pc[l] = "claim" /\ pc'[l] = "after" /\ ~cancelled[l]
         => running \/ robbed[l]]_vars

\* While the scanner is enabled, scans begin for ever, whatever loops the
\* reconfigurations have cancelled and started: none of them keeps the slot,
\* also when it is cancelled while jobs wait in the queue.
ScansGoOn ==
  []<>(~config.auto \/ shutdown \/ \E l \in Loops : pc[l] = "list")

\* No credential is kept on cooldown for ever by scans that only skip it.
CooldownEnds == \A a \in Auths : cool[a] > 0 ~> cool[a] = 0
=============================================================================

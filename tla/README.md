# quota-activation in TLA+

quota-activation is a plugin of a proxy host. It watches the quota windows of
Codex and Antigravity credentials and, when a window has been reset, sends one
small request with the credential so that the next window starts to run. The
promise that makes it worth having is that it does this **once per cycle**:
whoever asks, whatever runs at the same time, across reloads and restarts. The
models here are about that promise.

## The system

| Part | State it keeps | Operations | Meets the others by |
|---|---|---|---|
| Runtime (`runtime/runtime.go`, `replace_config.go`) | configuration, the parts in force, shutdown flag, cache of usable successes | Register, Reconfigure, Shutdown, handling of every host call | one mutex; replaces all parts at once, while callers still hold the old ones |
| Automatic scanner (`runtime/auto_scanner.go`) | running flag, time of the last scan, cooldowns | loop, claim, collect candidates, a pool of workers | a snapshot of the parts in force, taken when a scan starts |
| Manual activation (`management/`) | the latest response | POST activate, status, auth files, page | the activator and store its handler was built with |
| Detector (`detector/`) | none | payload to quota cycle, decision to activate | called by the two above |
| Activator (`activator/`) | run slots, a lock per provider, cache of usable successes | gate, enable, direct wake, fallback, priority boost, execute, store the result | host calls, the session manager, the state store |
| State store (`state/`) | records by key; a JSON file | Load, Upsert, queries by model group, merges, SaveAtomic | one store per configuration, all with one file |
| Wake sessions (`session/`) and picker (`scheduler/`) | nonces that have been sent and not consumed | Create, Lookup, Consume; Pick | the nonce travels through the host, from `execute` to `scheduler.pick` |
| Run history (`runtime/run_history.go`) | last five entries | prepend | called after a scan or a manual activation |
| Payloads (`runtime/auto_candidate*.go`, `quotapayload/`, `planclaim/`) | none | where the payload of a credential comes from: host, last success, plan | called by the scanner and the management page |
| Configuration (`config/`), messages, pages, C ABI (`main.go`) | none to speak of | parsing and formatting | |

What is hard in it:

* **Concurrency.** The host calls from any thread; a scan has a pool of
  workers; manual requests come at any time. The gate of the activator reads
  the store long before the outcome is stored. Lookup and Consume of a nonce
  are two critical sections. SaveAtomic holds no lock between copying the
  records and renaming the file.
* **Generations.** A reload builds a new activator, store and session manager.
  What was in flight goes on with the old ones and writes the same file.
* **Failure.** A save may fail after a wake succeeded, the process may die at
  any step, the host may answer late: its calls look at their deadline only
  before they start (`main.go`, `callHost`). A call may be cancelled between two
  others that belong together: raising a priority and putting it back.
* **Scheduling.** A scan that is cancelled, a loop that is replaced while it
  scans, workers that throw jobs away: the slot must come back, rounds must not
  be lost, and nothing may leave after Shutdown.
* **Time.** Sessions expire, reset times pass, and the reset time observed for
  one window drifts, so that the key of a cycle is no proof of identity.

What makes the parts correct:

* sessions: a nonce is handled once; the verdict of `execute` agrees with what
  the picks did; once it is given nothing changes it;
* store: a query finds the newest success, a merge never replaces one that is
  there, whatever the order; a record does not replace the success that counts;
* activation: no wake begins in a cycle that a success closed, two attempts on
  one target do not overlap, a success reported as saved outlives a crash, run
  slots are neither lost nor exceeded, a reload inherits what counts;
* scanner: one scan at a time; scans go on whatever reloads do to its loops;
  a scan accounts for all its candidates; cooldowns end; nothing is woken after
  Shutdown;
* transports: a credential is alone on top when the host is asked, its priority
  returns, its document keeps its tokens; a success comes from the credential's
  own answer, with two exceptions; a settled wake is not repeated; every activation returns and frees the lock;
* payloads: what is inferred from a success reads back as its cycle until the
  cycle is over and as the next one after it; scanner and page agree.

## Modules

| Module | What it is |
|---|---|
| `WakeSession` | `execute` against `Pick`, with expiry, reload and shutdown |
| `WakeSession_proofs` | its inductive invariant and three theorems |
| `StateStore` | records, keys, queries, merges and the three gates, as operators |
| `StateMerge` | the merge loop of `merge.go`, one record at a time |
| `StateStore_proofs` | lemmas about the operators, for stores of any size |
| `StateMerge_proofs` | the loop ends where the operator says; the disk wins |
| `WakeOnce` | the abstract specification: what the plugin promises |
| `Activation` | callers, activator, store, file, reload and crash; implements `WakeOnce` |
| `ActivationSlots_proofs` | slots, types, and what a reload inherits, with everything that can happen |
| `Activation_proofs` | the scanner alone, for any number of workers, slots and targets: no closed cycle is woken, and `WakeOnce` is implemented |
| `AutoScanner` | the scanner's loops, slot, pool, cooldowns, and Shutdown |
| `AutoScanner_proofs` | one scan at a time, silence after Shutdown, a summary that adds up, no round lost |
| `WakePath` | what the transports share: callers, contexts, the host's documents and priorities; enabling |
| `DirectWake` | the direct transport with its retries, and the fallback |
| `PriorityBoost` | the scheduler transport: boost, confirm, execute, restore |
| `Transport` | activations of one provider over both transports, side by side |
| `Transport_proofs` | priorities return, tokens are kept, a raised credential is alone on top and tried first, what a success rests on |
| `QuotaWindows` | the detector's parsers, as operators |
| `QuotaSources` | where a payload comes from: scanner, page, manual request |
| `QuotaCycle` | the cycles of one credential through scans, page and requests |
| `QuotaCycle_proofs` | its five properties, for any views of the host and any lengths |
| `MC_*` | constants for TLC |

### WakeSession

One `Wakes` value is one call of `Activator.execute`, and names its session and
its nonce: a nonce is 32 random bytes, so that two never collide. One `Picks`
value is one thread in `scheduler.pick`. `live[m]` is the map of session manager
`m`; there is one per configuration. Create, Abandon, Send, HostReplies and
Verify are `execute` from top to bottom, with each early return that leaves the
session behind. Lookup and Consume are the two critical sections of `Pick`; both
delete a session they find expired, as `lookupLocked` does. Call copies the
picker in force, as `schedulerPicker` does. The host is free: it calls pick
before or after it answers, more than once, or never. `Ttl` and `Timeout` are
independent: the code's defaults are ten minutes and one, but the timeout is
configurable and is not enforced once the host has been called.

`VerdictMatchesPick` says *consumed means handled* except for expired sessions.
The exception is real: a pick after the TTL deletes the nonce, hands the choice
back to the host, and `activationSessionConsumed` sees a nonce that is gone.

### StateStore and StateMerge

A store is a set of records with distinct keys. An auth ID stands for auth ID
and provider together. `ShortWindows` holds the 5h window of Codex, which no
gate relies on. `PickLatest` is `pickLatestSuccessQuery` with `isolateGroup`:
exact group first, else ungrouped records. `Recovered` stands for the same
condition where the detector, and where the activator, states it. `MergeAll`
gives every store that merging a set of records in any order can end in;
`StateMerge` runs the loop and checks that this is right.

### Activation

| Action | Code |
|---|---|
| Evaluate | `activateCandidateDetail` up to Activate, or `toActivatorRequest`: observe, ask the detector and, for the scanner, its own gate |
| Busy, Enter | `Activate`: take a slot or give up; the hard gate over `hardSkipStore` |
| Record | `storeResult` up to the save: Upsert and the activator's cache |
| Snapshot, Rename, SaveFails | `SaveAtomic`: the document; the file in place; an error anywhere |
| Leave | the slot goes back; the runtime remembers a success |
| ReloadBegin, ReloadRead, ReloadMerge, ReloadSwap | `replaceConfig`: capture, load, merge, install |
| Crash | the process dies and registers again with what is in the file |
| Tick | time passes |

`store`, `cache` and `slots` are kept for each generation; a caller stays with
the one it began in (`gen`). A scan worker admits a target only if no other
worker has it, and only in the generation of the others: one scan runs at a
time (`claimAutoScanSlot`), over one snapshot, with each target once. The wake
itself, from the gate to its outcome, is one step with any outcome: what happens
in it is the subject of `Transport`. `closed` and `reported` are
history: what closed the cycle of a target, and whether it was saved.

Simplifications, and why they lose nothing here:

* Taking the slot and asking the gate are one step. The gate may read the store
  later in the code, which can only show it more.
* Upsert and the caches are one step: the gate reads the store first and the
  caches only fill in what it lacks. Giving back the slot and remembering the
  success are one step for the same reason: a reload has the store besides.
* One reload at a time. The host calls Reconfigure from its configuration
  watcher; two at once would each install what they merged.
* Every observation has an instant of its own (Go's clock has nanoseconds). Its
  reset may be any of `Resets`, also one that is past when it is found: the
  detector takes whatever reset the payload has (`detector.go`, `time.go`).
* Requests are complete: a request without a cycle key fails `normalizeRequest`
  and stores a record no query returns.
* Auth IDs are ones that `Redact` leaves alone, and letter case does not matter.

### AutoScanner

| Action | Code |
|---|---|
| Reconfigure (StartLoop, StopLoop) | the last critical section of `replaceConfig`; `startAutoScannerLocked` keeps a loop with the same interval |
| Shutdown, ShutdownReturns | the flag and the stop; the wait, which returns no error either way |
| Wakes, Top, After | `runAutoScanLoop`: the start-up delay and the sleep, the look at the context, the sleep to come |
| TakeSnapshot, Claim | `autoSnapshot` and `claimAutoScanSlot`, two critical sections |
| List, Collect, Dispatch, Finish, Release | `scanAutoCandidates`: the listing, the serial pass over it, the jobs, close and wait and summary, the deferred release |
| Take, CheckCooldown, Ask, Answer, Add | a worker: take or throw away, cooldown, the call of `Activate`, its answer, the summary's counter |
| ManualSuccess | `OnActivation` after a manual success |
| Tick | time |

Time is a set of counters and not a clock: what is left of a sleep or a
cooldown, how long ago a round began or the slot was claimed. So a behaviour
need not end, and liveness means something. Scan, queue and summary exist once,
for the loop that holds the slot; `OneScan`, which is proved, says that this
loses nothing. `found` and `acc` are what the scan has collected and what its
workers have counted. `robbed` is history: another loop has claimed since this
one's last attempt. A cancelled context and a due timer are both taken by
`select`, in any order. Which candidate is woken and how is any.

`RoundsAreKept` needs that a round gets from its start to its claim within the
slack (`MaxStall <= Slack`; two seconds in the code, `auto_scanner.go:23`), which
is what the slack is for.

### WakePath, DirectWake, PriorityBoost and Transport

A caller is one call of `Activate`, past the gate. `WakePath` has what they
meet in: the host's documents, the priorities it routes by (`index`, which
follows the documents by `Sync`, at any later time or never), the lock of the
provider, and the contexts. A document is its priority, whether it has its
tokens and whether it is disabled. It may name no priority (`Keyless`); then the
boost takes the priority that was listed for the current one and writes it back
(`Decide`). A call of the host fails if the context was cancelled before it, and,
where `HostMayRefuse`, for reasons of its own; a save it reports as failed may
have been done.

| Action | Code |
|---|---|
| EnableList, EnableSave | `enableIfNeeded`: list, save what was listed |
| Choose | `Activate`, by the configured transport |
| Material, Send | `wakeDirect`: `readAuthMaterialWithRetry`; the context before `HTTPDo` |
| DirectAccepted, DirectLost, Unauthorized, DirectRefused | the answer, its loss, the retries after 401, any other answer |
| (Fail, FallsBack) | `failDirect`, `shouldFallbackToSchedulerBoost` |
| BoostList, TakeLock, Relist, Read | `boostPriority`: the listing that finds the provider, the lock, the listing under it, the file behind a stub |
| SaveBoost, Confirm, ConfirmList, Rollback | the save, `confirmBoostedUniqueTop` with its retries, the old document back |
| Execute, ExecAnswered, ExecFailed | `execute` up to the host's completion, and from its answer on |
| HostTakesPick, HostChooses | the host while it completes: external, with `scheduler.pick` in it |
| Restore | the deferred restore, in a context nobody cancels |

What the host does between the request of `execute` and its answer is in
`call`: what has become of the nonce, which credentials are left to try, and
which one the host is trying. It asks `scheduler.pick` with the credentials of
the highest priority among those it has not tried (`Offered`). A pick that knows
the nonce and finds the credential consumes the one and takes the other
(HostTakesPick); otherwise the host chooses (HostChooses): the nonce is gone, the
credential is not offered, a reload has installed a picker that does not know the
nonce, or the session is over and the lookup removes it. If an attempt fails the
host goes on to another credential. The answer may come after any attempt, and
all that `execute` looks at is whether it is 2xx and the nonce is gone
(ExecAnswered, `Consumed`; `execute.go:79`, `:146`). Which thread consumes the
nonce, and when, is the subject of WakeSession.

`readRuntimePriority` returns what the host routes by or, where that is 0, the
priority in the document if the host's answer carries it (`Runtime` has both).
An activation in `Unlisted` may find that the listing misses its credential: it
then goes on to `execute` without lock and boost.

`AloneOnTop` is about the moment the host is asked, and `BoostIsTriedFirst` about
what the host then does: the first credential it tries is the one that was
raised, unless its index is still at 0, since then the confirmation may have read
the document and not the index. `SuccessIsEarned` says what a success rests on:
an answer to a request for the credential itself, except that the host may have
tried it, given it up and answered with another (`GivenUp`), or that the session
outlived its TTL and a late pick removed it. Both exceptions happen in the run:
without either, TLC finds a behaviour of the code that breaks the property.
`verdict`, an answer that settles the wake, is history. `unsaved` names the
activations whose saves were refused; `PriorityComesBack` excepts their
credentials, since the code drops those errors.

The comment at `activator.go:25` says that the lock of a provider is not held
across the host's completion. It is: from the second listing to the restore, as
`TakeLock`, `Execute` and `Restore` have it, and `AloneOnTop` depends on it.

Not in the model: credentials that the host itself takes out of the choice (cool
down, quota), and a reload other than as the picker that does not know the nonce.

An activation that enables its credential is, in the run and the theorems, the
only one of that credential, and its listing is no stub (`EnabledApart`).
Without that neither property holds: `enableIfNeeded` writes what it listed,
outside the lock, and takes a stub for the document. PROJECT.json lists both as
hazards.

### QuotaWindows, QuotaSources and QuotaCycle

`QuotaWindows` is what `detector/` makes of a payload: a window has an absolute
or a relative reset, a length, a name, and a rest. `Parse` yields a *set* of
cycles, since the models of an Antigravity payload are read in the order of a Go
map. `QuotaSources` is the order of sources, which the code has three times: for
the scanner (`ScannerPayload`), for the page (`PagePayload`), and for a manual
request (`ManualCycles`, which replaces a Codex payload it cannot read).
`Marshal` builds the payload for a window, and the detector reads it back.

`QuotaCycle` runs them against one credential: Collect makes the payloads of a
scan, Judge evaluates one later and records its outcome, OpenPage takes the
page's payload and Request sends it back at any time, HostChanges changes what
the host reports. `Woken`, `ObservedNow` and `OpenSuccesses` say what a scan that
started now would do.

Simplifications:

* From the judgement to the record is one step; callers that overlap there are
  in Activation. Cooldowns are left to AutoScanner.
* A manual request names the group of its model, as those of the page do. One
  that leaves the group out makes the detector look for a success without a
  group (`request.go:155`), while the gate infers the group from the model
  (`idempotent_gate.go:82`): it is skipped there and stored over the success.
* 3 and 5 hours are one length, 28 to 31 days another. A document carries at most
  one payload in its text (`quota`) and one among its metadata and attributes
  (`beside`); the text is read first (`Carried`). Under which of its keys a
  payload or a token lies, and how a model's name tells its group, is data.

On the page the runtime's document hides the listing's: of the listing only the
text is kept, where the runtime has none, and what lay beside it is dropped
(`Merged`). A success that does not tell when it resets counts as open and is
given an aligned window (`InferredReset`), as in `assemble.go`. `QuietWhileOpen`
speaks of the time when every candidate for the last success is open. It excepts
from the judgement, and not from the cycle, a success without a group or of
Codex's five hours, whose key is not the cycle's, and one that a later success
of its group hides.

## Runs

| Run | Instance | Shows |
|---|---|---|
| wake_session | 2 wakes, 2 picks, TTL 1, timeout 1, clock to 2, 1 reload | `SessionInv` (with the types), `OneHandledPick`, `VerdictMatchesPick`, `NoPickAfterVerdict` |
| state_merge | 8 records of 2 credentials | `LoopMatchesMergeAll`, `DiskFirst` |
| state_merge_legacy | the same | **violation** of `MissingIsCopied` |
| activation_auto | 2 workers, 2 slots, 2 groups of one auth, resets 2 and 9, clock to 4 | `ClosedIsNewest`, `NoWakeInClosedCycle`, `WakesOnce` |
| activation_durable | 2 workers, 1 slot, old file, 1 crash, 1 failed save | the same three |
| activation_mixed | 1 worker, 1 manual request, 1 slot, 1 reload, 1 crash, 1 failed save | `SlotsAreHeld`, `ReloadMerges` |
| activation_overlap | 1 worker, 1 manual request, 1 slot, old file, reset 9, clock to 5 | **violation** of `NoWakeInClosedCycle` |
| activation_reload | 1 worker, 1 reload, 1 failed save, old file, reset 9 | **violation** of `ReloadInheritsSuccess` |
| auto_scanner | 2 loops, 2 workers, 2 groups of one credential, intervals 1 and 2, slack 1, stall 1, cooldown to 2, patience 1 | `OneScan`, `QuietAfterShutdown`, `NoWakeAfterShutdown`, `EveryCandidateCounted`, `RoundsAreKept`, `ScansGoOn`, `CooldownEnds` |
| transport | 3 activations of 2 credentials: one that enables A, two on B, of which one cancellable and one that a listing may miss; stubs of B, no priority in its document; equal ranks and different ones; direct, direct with fallback, scheduler; floor 3; 2 attempts everywhere; the host may refuse | `AloneOnTop`, `PriorityComesBack`, `TokensSurvive`, `NoWakeAfterVerdict`, `SuccessIsEarned`, `BoostIsTriedFirst`, `AllEnd` |
| transport_rollback | 1 cancellable activation, a host that refuses nothing | **violation** of `RollbackIsCertain` |
| quota_cycle | a Codex credential and three configurations of an Antigravity one; 4 and 2 views of the host; an old file with a success, with one that has no reset, or with failures; lengths 1, 2, 3; clock to 3; 3 records | `QuietWhileOpen`, `EndedCycleIsWoken`, `PageAgrees`, `CyclesDoNotOverlap` |

The bounds. In WakeSession a session needs one tick to expire, a verdict
concerns one nonce, a race two picks, and a stale picker one reload; a second
wake shows that sessions do not disturb one another. In Activation reset 2
passes while the clock runs, and may be found when it has passed; 9 stays ahead.
Between the two the reset time, and with it the key, of a target drifts. An old
file has a success with reset 2. The two runs that end in a violation observe 9
only: no observation in them is of a reset that is past. Four ticks are enough to wake in the cycle
that ends at 2, to wake in the next, and to try once more. Two workers are
enough for every race of the scanner, as the theorem below confirms. Two targets
of one auth exercise the model groups; remaining 0 and 1 tell exhausted from
refilled quota. The number of generations, crashes and failed saves is one each:
each only takes state away, and the next one would meet a state of the same
kind. These runs have no fairness, since their properties are safety, and they do
not check deadlock, since every instance stops at its clock.

In AutoScanner the second loop is the one that a reload starts while the first
is asleep, between its snapshot and its claim, or in the middle of its scan;
`OneScan` is proved for more. Two workers on two groups of one credential meet in
its cooldown and in the counter. The intervals are one at the slack and one over
it, so that the gap is 0 or 1, and the cooldown is cut by each. Time goes on for
ever, and deadlock is checked. In Transport two activations race for the lock,
on one credential or on two, while a third enables; a retry loop of two attempts
(three in the code) has a first, a last and one after a failure. A cancelled
activation is one of two on its credential. The credentials start with equal or
with different priorities, all below the floor; a priority of 0 is the one that
`readRuntimePriority` and a listing replace by the document's. The fallback is
asked for on the direct path only, so it is off with the scheduler. Deadlock is checked: activations
that have all returned stutter. In QuotaCycle three instants are a short window,
a long one and the boundary of each: the aligned week ends at 2, the month at 3.
Views are the cases of the sources: nothing, only the five hours, a long window
in both documents with a different rest, relative resets among the listing's
metadata where the runtime has no text and other metadata, a report whose models
disagree. Three records are a wake, its successor
and a skip; the clock stops, so deadlock is not checked.

Fairness is what the code's scheduling gives. In AutoScanner: each loop's
goroutine, the pool as a whole, the polling of Shutdown and time are weakly
fair; so goroutines are scheduled, and a host call answers. No fairness is
assumed of reloads, cancellations or the host's choice of answers. In Transport:
each activation is weakly fair, and a mutex is not handed out in any order: an
activation could only starve if others came for ever, and each is made once.
Nothing is assumed of the host's index or of a cancellation.

The four violations are disagreements between the code and what it says:

* **activation_overlap.** A skip is stored under the key of the cycle, over the
  success that closed it. An older success of the same target, already over,
  then hides the cached one from the gate, because a merge never replaces what
  the store has. The next request wakes the same cycle again. It takes a manual
  request that was judged before the scanner's wake; one run slot, no failure.
* **activation_reload.** While a success is in memory and not yet, or never, in
  the file, a reload prefers the file's older success of the same target.
* **transport_rollback.** When a confirmation fails, the old document is saved in
  the context of the activation. If the confirmation failed because that context
  was cancelled, the save is not even sent, and the credential stays on top. The
  comments say that the rollback happens at once and that the restore always
  runs.
* **state_merge_legacy.** Records from before model groups shadow grouped ones
  if they come first out of a Go map.

## Proofs

Every invariant and every action property that a passing run checks is also a
theorem, and so is the refinement of `WakeOnce`, for every value of the constants that satisfies the assumptions named
with it. A module's own assumption on its constants (`SessionConstants`,
`ActivationConstants` and so on) is evaluated in each run and not repeated here.
Each inductive invariant was checked by TLC on the instances of the runs before
it was proved.

| Module | Theorems | Condition |
|---|---|---|
| `WakeSession_proofs` | `SessionInvariant`, `NonceHandledOnce`, `VerdictsAreHonest`, `VerdictIsFinal` | |
| `StateMerge_proofs` | `StoresStayStores`, `DiskWins` | |
| | `LoopIsMergeAll` | `NoTies` |
| | `MissingArrives` | `NoTies`; no credential with grouped and ungrouped records |
| `ActivationSlots_proofs` | `SlotsComeBack`, `TypesAreKept` | |
| | `AnswersAreOne` | `EarlierFiles` |
| | `ReloadInherits` | `EarlierFiles`, `Unmixed` |
| `Activation_proofs` | `ScanInvariant`, `ScanKeepsNewest`, `ScanWakesNoClosedCycle`, `ScanWakesOnce` | `ScannerAlone` |
| `AutoScanner_proofs` | `ScannerTypes`, `ScansAreOne`, `CleanShutdownIsQuiet`, `ShutdownStopsWakes`, `CandidatesAreCounted` | |
| | `NoRoundIsLost` | `StallFits` |
| `Transport_proofs` | `WakePathTypes`, `SettledWakesRest`, `SuccessesAreEarned` | |
| | `PriorityReturns`, `TokensAreKept`, `BoostedIsAlone`, `RaisedIsTriedFirst` | `EnabledApart` |
| | `RollbackRestores` | `EnabledApart`, `Unhindered` |
| `QuotaCycle_proofs` | `QuotaInvariant`, `RecordsAreTyped`, `ScanIsQuietWhileOpen`, `ScannedCyclesAreApart`, `ScanWakesEndedCycle`, `PageAgreesWithScan` | |

**Wake sessions.** The properties are not inductive: that no second pick is
handled needs that a handled nonce is gone from *every* manager
(`HandledIsGone`), which needs that a session lives only in the manager it was
created in (`HeldAtHome`); that a miss proves no pick needs that an unhandled
session stays until it expires (`UnhandledStays`); that a verdict is final needs
that a consumed nonce is gone (`WokenIsGone`). `SessionInv` is their
conjunction; the run checks it too.

**Store.** `StateStore_proofs` has the lemmas about the operators, for stores of
any size. The query finds a success that is newer than all others of its target
(`PicksNewest`), and the activator's gate finds it through both merges, whatever
its cache holds and whatever the order (`GateFindsNewest`). A merge leaves what
was found for a group (`MergeAllKeeps`), and brings what was missing
(`MergeAllBrings`). The last two need that a finite set of records has a newest
one (`NewestExists`). There is no induction over data for the prover, so this is
proved by a smallest counterexample: proper inclusion is well founded on the
subsets of a finite set. `SmallestSubset` of `Transport_proofs` is for the same
purpose, for the highest priority of a listing.

**Merge loop.** `DiskInv` says that what was found before the loop is still
found, for every auth and group. `LoopInv` says which records the loop has
added: some of those that were missing before, and each that it has passed over
is covered by an ungrouped record of its credential; with nothing left to do
that is what `MergeAll` says. So the operator may stand for the loop in
Activation. `NoTies`: no two usable successes of one auth and group have the
same times. Of two that have, the loop keeps the one the map hands out first.
`MissingArrives` says where the violation of state_merge_legacy ends.

**Activation, with everything that can happen.** Callers of both kinds, reloads,
crashes and failed saves, any number of each. A slot belongs to the generation
its holder carries along (`SlotInv`). The types need that a caller at work has an
observation (`TypeInv`). What a reload inherits needs more: that a query finds
*one* record, which is true because of all the records there are, in stores,
drafts, the caches of the runtime and the file, no two of one target have the
same times (`Instants`), and because stores are finite (`Finite`).
`AnswersAreOne` states it: the order of a map never decides which success
counts. `EarlierFiles`: the state file was written before the process began.
`Unmixed`: no credential has both grouped and ungrouped targets, which is so for
the credentials the plugin reads today; state_merge_legacy shows what older
records do.

**The scanner alone.** `ScannerAlone` asks for no manual requests, no reload, no
window the gates ignore, `Unmixed`, and no crash unless there is one run slot.
Workers, slots, targets, windows, observations and failed saves are any. Along
the way: the scan holds each target once (`OneEach`); observations are later than
what is stored (`Later`), so that a recorded success is the newest; hence the
queries find it (`ClosedHeld`, by the two lemmas); what an evaluation found out
about the success that counts stays true until the worker records (`Judged`), so
that a skip is never stored over it. With one slot nobody records between the
copy of the store and its rename, so that the file is as new as what was reported
(`FileHolds`, `KeepInv`), and a crash forgets nothing that was reported saved.
From that `ScanWakesOnce` shows that `Activation` implements `WakeOnce`: the
initial states map to initial states, and every step maps to a step or to a
stutter. Each condition that drops something matters: with manual requests the
property is false (activation_overlap), and with a reload what is in memory can
be lost (activation_reload). With two slots and a crash nothing is claimed.

**Scanner.** `ScanInv`: the pool has work only while a scan gives it out or waits
for it (`PoolHasScan`); every loop but the current one is cancelled, and after
Shutdown there is no current one (`OthersCancelled`), so that a loop that claims
the slot after a clean return ends its scan before it has a candidate
(`CleanStop`). `CountInv` counts the candidates wherever they are: to be
dispatched, in the queue, in a worker's hands, or counted. That they are as many as were collected is what the
summary needs, and what keeps the counters in their types. `RoundInv` measures
for the loop in force how far back the last claim lies, against the interval in
force: the gap a claim asks for is always reached, if a round gets from its start
to its claim within the slack (`StallFits`: `MaxStall <= Slack`, two seconds in
the code, which is what the slack is for).

**Transports.** `PriorityInv` says, for each activation, what its place in the
code means for the document (`Mine`): who has written holds the lock, and the
copy it will put back has the original priority unless a save of the same
credential was refused (`GoodCopy`). That the copy is good needs that nobody but
the holder of the lock is between a save and its undoing when the copy is read.
`TopInv` follows what a caller listed under the lock until the host routes by the
priority it raised over it (`Plan`): no peer is over what was listed, since
nobody else can raise one, and since no priority, of a document or of the index,
is ever under the original one (`Floored`). That the host tries the raised
credential first follows from it with a confirmation that has read the index
itself. A document without a priority needs that what is listed for it is the
original one while nobody has written it (`KeyInv`, `Untouched`), since that is
what the boost puts back. `OutcomeInv`, about each activation alone, relates
tries, verdict and result; `CallInv` relates the nonce to the attempts of the
host: one that a pick has taken is gone from the credentials left to try
(`Picked`), so that a success whose nonce was picked was answered by the
credential or after it was given up (`SuccessesAreEarned`). `EnabledApart`: an activation that
enables its credential is the only one of it, and its listing is no stub; without
that `PriorityComesBack` is false, because `enableIfNeeded` writes what it
listed, outside the lock. `RollbackRestores` says where the violation of
transport_rollback ends: if no context is cancelled and the host refuses nothing
(`Unhindered`), failed confirmations leave nothing behind.

**Quota cycles.** The argument goes through the payloads: an aligned reset is
ahead, and at most one length ahead (`StableResetIsAhead`); what `Marshal` writes
for a window reads back as that window; what is made without a report is written
for a window that is ahead. `QuotaInv` keeps this for the candidates that wait
for a worker, and keeps records comparable. It holds for any models, views of the
host, old files and lengths of the windows, as long as these are of the form the
parsers take (`QuotaCycleConstants`, `WindowLengths`).

Only model-checked: liveness (`ScansGoOn`, `CooldownEnds`, `AllEnd`), which with
fairness and ENABLED is out of the prover's reach, and the four violations. What
is proved of Activation with manual requests, reloads and two slots under a crash
is slots, types and inheritance, and no more: what they do to the promise of
`WakeOnce` is seen in the two violations only. No module declares a recursive
operator, so nothing is left out on that account.

## Plan

What is left, in this order:

1. Activation with two slots and a crash: a stale document renamed last. What the
   shared file keeps while two generations write it.
2. Transport across a reload: two activators with a lock each. Enabling beside a
   boost of the same credential, and from a stub.
3. Proofs: when a reload keeps the successes in memory (the boundary of
   activation_reload), and what manual requests may do to the scanner if they are
   for targets of their own.
4. A manual request without a group, as a finding of QuotaCycle.

## Not modelled

* Pages, routes, messages, the JSON and the YAML, the C ABI: no state, and no
  decision but those that the models have. `page.go` is one HTML document.
* The request bodies of the providers and how an answer is recognised as a
  success: any answer is possible in the models, so that they hold for each.
* Redaction. It can make two auth IDs one (a hazard of the list); the models take
  IDs that it leaves distinct.
* The list of the run history: for display, and nothing reads it back.
* A crash between a boost and its restore: nothing records the original
  priority, so there is no recovery to model. A reload during a boost is in the
  plan.
* Defaults and bounds of a configuration, and the requests a handler refuses.

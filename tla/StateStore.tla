----------------------------- MODULE StateStore -----------------------------
(***************************************************************************)
(* The records of wakes and the queries over them: state.Store, with the   *)
(* gates of the detector, the scanner and the activator that read it.      *)
(*                                                                         *)
(* A store is a set of records, no two with the same key.  A record says   *)
(* how the last attempt on one quota cycle of one credential ended:        *)
(*   auth    the auth ID together with its provider                        *)
(*   group   the model group named in the cycle key, or NoGroup            *)
(*   window  the quota window                                              *)
(*   reset   when the window resets; auth, group, window and reset are the *)
(*           cycle key                                                     *)
(*   obs     when the quota was observed                                   *)
(*   result  "success", "failed" or "skipped"                              *)
(*   rem     the remaining quota observed, or NoSnapshot                   *)
(* The result of a query is the set holding the record it found, or {}.    *)
(***************************************************************************)
EXTENDS Integers, FiniteSets

CONSTANTS
  NoGroup,       \* the model group of Codex and of old Antigravity records
  ShortWindows   \* windows no gate relies on: the 5h window of Codex

NoSnapshot == -1

-----------------------------------------------------------------------------
(* Records and keys *)

\* RecordKey; the cycle key repeats auth and window and adds group and reset.
Key(r) == <<r.auth, r.group, r.window, r.reset>>

Upsert_Appends(s, r) == s \cup {r}
Upsert(s, r) == {q \in s : Key(q) # Key(r)} \cup {r}

HasSnapshot(r) == r.rem # NoSnapshot

\* A success some gate may rely on (isUsableSuccessRecord).
Usable(r) == r.result = "success" /\ r.window \notin ShortWindows

-----------------------------------------------------------------------------
(* Queries: pickLatestSuccessQuery *)

\* successNewer: by observation, then by reset.
Newer_ByReset(r, q) == r.reset > q.reset
Newer(r, q) == r.obs > q.obs \/ (r.obs = q.obs /\ r.reset > q.reset)

Newest(R) == {r \in R : \A q \in R : ~Newer(q, r)}

Successes(s, a, g) == {r \in s : r.auth = a /\ r.group = g /\ r.result = "success"}

\* The exact group first; a group with no success falls back on ungrouped ones.
PickLatest(s, a, g) ==
  IF Successes(s, a, g) # {}
  THEN Newest(Successes(s, a, g))
  ELSE Newest(Successes(s, a, NoGroup))

LatestSuccess(s, a, g) == PickLatest(s, a, g)
UsableLatest(s, a, g) == PickLatest({r \in s : Usable(r)}, a, g)

\* One usable success for each auth and group the store knows of.
UsableSuccesses(s) == UNION {UsableLatest(s, r.auth, r.group) : r \in s}

-----------------------------------------------------------------------------
(* Merging *)

\* MergeUsableRecord: what the store has for the group wins, whatever its age.
MergeUsableRecord_Overwrites(s, r) == IF Usable(r) THEN Upsert(s, r) ELSE s
MergeUsableRecord(s, r) ==
  IF Usable(r) /\ UsableLatest(s, r.auth, r.group) = {} THEN Upsert(s, r) ELSE s

\* The stores that merging the records of R into s one by one can end in; R
\* holds at most one record of each auth and group, and comes out of a Go map
\* in any order.  A grouped record is kept only when nothing is found for its
\* group, not even an ungrouped record, so all that the order decides is which
\* grouped records come before the ungrouped one of their auth.
MergeAll(s, R) ==
  LET Fresh == {r \in R : Usable(r) /\ UsableLatest(s, r.auth, r.group) = {}}
      Shadowed == {r \in Fresh : \E q \in Fresh :
                     q # r /\ q.auth = r.auth /\ q.group = NoGroup}
      With(kept) == {q \in s : \A r \in kept : Key(q) # Key(r)} \cup kept
  IN {With(Fresh \ late) : late \in SUBSET Shadowed}

\* The last usable success of each auth and group, in memory only.
Remember(cache, r) ==
  IF Usable(r)
  THEN {q \in cache : q.auth # r.auth \/ q.group # r.group} \cup {r}
  ELSE cache

-----------------------------------------------------------------------------
(* The gates; q is a record of the quota just observed *)

\* The remaining quota proves that the cycle of r has been refilled.
Recovered_AnyQuota(q, r) == HasSnapshot(r) /\ q.rem > 0
Recovered(q, r) == HasSnapshot(r) /\ q.rem > 0 /\ q.rem > r.rem

\* detector.shouldActivate, given the newest success of any window.
Activates_AnyQuota(s, q) ==
  \A r \in LatestSuccess(s, q.auth, q.group) : Key(q) = Key(r) => q.rem > 0
Activates(s, q) ==
  \A r \in LatestSuccess(s, q.auth, q.group) : Key(q) = Key(r) => Recovered(q, r)

\* The scanner's own gate, after Activates: with quota left it trusts the
\* detector wherever the success has a snapshot to compare with.
ScannerSkips(s, q) ==
  /\ ~ \E r \in LatestSuccess(s, q.auth, q.group) :
         Key(q) = Key(r) /\ Recovered(q, r)
  /\ \E r \in UsableLatest(s, q.auth, q.group) :
         r.reset > q.obs /\ (q.rem > 0 => ~HasSnapshot(r))

\* hardSkipStore: what the activator's gate reads, its store first and then
\* what its cache adds to it.
GateViews(s, cache) ==
  UNION {MergeAll(v, cache) : v \in MergeAll({}, UsableSuccesses(s))}

\* The activator's hard gate, at time t.
HardSkips_SameCycle(s, q, t) ==
  \E r \in UsableLatest(s, q.auth, q.group) :
    Key(r) = Key(q) /\ r.reset > t /\ ~Recovered(q, r)
HardSkips(s, q, t) ==
  \E r \in UsableLatest(s, q.auth, q.group) : r.reset > t /\ ~Recovered(q, r)

=============================================================================

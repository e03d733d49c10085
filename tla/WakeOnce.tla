------------------------------ MODULE WakeOnce ------------------------------
(***************************************************************************)
(* What the plugin promises: a quota cycle is woken once.                  *)
(*                                                                         *)
(* A success closes the cycle of its target.  The next attempt begins only *)
(* when the cycle has been reset or its quota refilled, and no two         *)
(* attempts on one target are made at once.  A success that was kept       *)
(* outlives a restart; one that was not may be forgotten.                  *)
(***************************************************************************)
EXTENDS Integers

CONSTANTS
  Targets,   \* what is woken
  Cycles     \* what is seen of a quota cycle: [reset, rem], rem = -1 if unseen

VARIABLES
  now,      \* the clock
  attempt,  \* target -> {the cycle it is being woken in}, or {}
  closed,   \* target -> {the cycle it was last woken in}, or {}
  kept      \* targets whose closed cycle outlives a restart

vars == <<now, attempt, closed, kept>>

\* The cycle seen as q has been refilled since it was seen as r.
Refilled(q, r) == r.rem # -1 /\ q.rem > 0 /\ q.rem > r.rem

Open(t, q) == \A r \in closed[t] : r.reset <= now \/ Refilled(q, r)

Init ==
  /\ now \in Nat
  /\ attempt = [t \in Targets |-> {}]
  /\ closed = [t \in Targets |-> {}]
  /\ kept = {}

Begin(t) ==
  /\ attempt[t] = {}
  /\ \E q \in Cycles :
       /\ Open(t, q)
       /\ attempt' = [attempt EXCEPT ![t] = {q}]
  /\ closed' = [closed EXCEPT ![t] = {}]
  /\ kept' = kept \ {t}
  /\ UNCHANGED now

Succeed(t) ==
  /\ attempt[t] # {}
  /\ attempt' = [attempt EXCEPT ![t] = {}]
  /\ closed' = [closed EXCEPT ![t] = attempt[t]]
  /\ UNCHANGED <<now, kept>>

Fail(t) ==
  /\ attempt[t] # {}
  /\ attempt' = [attempt EXCEPT ![t] = {}]
  /\ UNCHANGED <<now, closed, kept>>

Keep(t) ==
  /\ closed[t] # {}
  /\ kept' = kept \cup {t}
  /\ UNCHANGED <<now, attempt, closed>>

Restart ==
  /\ attempt' = [t \in Targets |-> {}]
  /\ closed' = [t \in Targets |-> IF t \in kept THEN closed[t] ELSE {}]
  /\ UNCHANGED <<now, kept>>

Tick ==
  /\ now' = now + 1
  /\ UNCHANGED <<attempt, closed, kept>>

Next ==
  \/ \E t \in Targets : Begin(t) \/ Succeed(t) \/ Fail(t) \/ Keep(t)
  \/ Restart \/ Tick

Spec == Init /\ [][Next]_vars

=============================================================================

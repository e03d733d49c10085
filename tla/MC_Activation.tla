--------------------------- MODULE MC_Activation ----------------------------
(***************************************************************************)
(* Activation on small instances.  A reset at 2 passes while the clock     *)
(* runs, and may be found when it has passed; one at 9 stays ahead.        *)
(* Between the two the reset time of a target drifts from one observation  *)
(* to the next.                                                            *)
(***************************************************************************)
EXTENDS Activation

CONSTANTS codex, ag, gemini, claude, weekly, fiveHour

MC_ShortWindows == {fiveHour}

CodexTarget == [auth |-> codex, group |-> NoGroup]
GeminiTarget == [auth |-> ag, group |-> gemini]
ClaudeTarget == [auth |-> ag, group |-> claude]
OneTarget == {CodexTarget}
TwoTargets == {GeminiTarget, ClaudeTarget}

\* The state file of an earlier process: none, or one wake that is long over.
OldSuccess(t) ==
  [Observation(t, weekly, 2, 0, 0) EXCEPT !.result = "success"]
NewFile == {{}}
OldFile == {{OldSuccess(t)} : t \in Targets \ {ClaudeTarget}}
NewOrOldFile == {{}} \cup {{OldSuccess(t)} : t \in Targets}
=============================================================================

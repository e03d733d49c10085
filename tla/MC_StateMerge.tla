--------------------------- MODULE MC_StateMerge ----------------------------
(***************************************************************************)
(* StateMerge over the records of one Antigravity credential with two      *)
(* model groups, and of one Codex credential: usable successes of two      *)
(* cycles, a failure that has the key of a success, and a 5h success.      *)
(***************************************************************************)
EXTENDS StateMerge

CONSTANTS ag, codex, gemini, claude, weekly, fiveHour

MC_ShortWindows == {fiveHour}

Rec(a, g, w, reset, obs, result) ==
  [auth |-> a, group |-> g, window |-> w, reset |-> reset, obs |-> obs,
   result |-> result, rem |-> NoSnapshot]

MC_Records ==
  {Rec(ag, g, weekly, 7, 1, "success") : g \in {NoGroup, gemini, claude}}
    \cup {Rec(ag, g, weekly, 9, 2, "success") : g \in {NoGroup, gemini}}
    \cup {Rec(ag, gemini, weekly, 9, 3, "failed"),
          Rec(codex, NoGroup, weekly, 7, 1, "success"),
          Rec(codex, NoGroup, fiveHour, 3, 2, "success")}

=============================================================================

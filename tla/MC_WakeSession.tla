--------------------------- MODULE MC_WakeSession ---------------------------
(***************************************************************************)
(* WakeSession on a small instance: two wakes, two picks in progress, one  *)
(* reload, and a clock that reaches past the lifetime of a session.        *)
(***************************************************************************)
EXTENDS WakeSession, TLC

Symmetry == Permutations(Wakes) \cup Permutations(Picks)

=============================================================================

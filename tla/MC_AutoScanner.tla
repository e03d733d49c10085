--------------------------- MODULE MC_AutoScanner ---------------------------
(***************************************************************************)
(* AutoScanner on a small instance: one credential with two model groups   *)
(* or two credentials, and two loops, so that a cancelled one can meet the *)
(* one that replaced it.                                                   *)
(***************************************************************************)
EXTENDS AutoScanner

Off == [auto |-> FALSE, interval |-> 2]
MC_Configs == {Off, [auto |-> TRUE, interval |-> 1], [auto |-> TRUE, interval |-> 2]}
MC_AuthOf(c) == CHOOSE a \in Auths : TRUE
=============================================================================

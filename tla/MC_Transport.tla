---------------------------- MODULE MC_Transport ----------------------------
EXTENDS Transport

CONSTANTS c1, c2, c3, A, B

\* Two credentials of one provider; one has two model groups to wake.
MC_AuthOf(c) == IF c = c1 THEN A ELSE B

\* The fallback is asked for on the direct path only.
MC_Configs == {[transport |-> "direct_http", fallback |-> TRUE],
               [transport |-> "direct_http", fallback |-> FALSE],
               [transport |-> "scheduler_boost", fallback |-> FALSE]}

\* Side by side without a rank, and one over the other.
MC_Originals == {[a \in {A, B} |-> IF a = A THEN r[1] ELSE r[2]] :
                   r \in {<<0, 0>>, <<1, 2>>}}
=============================================================================

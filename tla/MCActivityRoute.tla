--------------------------- MODULE MCActivityRoute ---------------------------
EXTENDS ActivityRoute, TLC

CONSTANTS c1, c2, c3, k1, k2, s1, s2

\* Two calls of a client, one of all, in windows of two ticks.
Policies ==
    [s \in {ActivityScope} |->
        [clientMax |-> 2, windowMs |-> 2, globalMax |-> 1, globalWindowMs |-> 2]]

Clients == {c1, c2, c3}
Keys == {k1, k2}
Slots == {s1, s2}
Symmetry == Permutations(Clients) \cup Permutations(Keys) \cup Permutations(Slots)
=============================================================================

------------------------------ MODULE MCService ------------------------------
(* Small instances of Service and its refinement for TLC. *)
EXTENDS ServiceRefinement, TLC

CONSTANTS c1, c2, cEmpty, cLong

MCChallengeLen ==
    [c \in Challenges |->
        CASE c = cEmpty -> 0 [] c = cLong -> 129 [] c = c1 -> 1 [] OTHER -> 128]

Symmetry == Permutations(Callers) \cup Permutations(Devices)

=============================================================================

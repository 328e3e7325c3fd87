----------------------------- MODULE MCTransport -----------------------------
(* Small instances of Transport for TLC. *)
EXTENDS Transport, TLC

CONSTANTS id1, id2

MCOneID == <<id1>>
MCTwoIDs == <<id1, id2>>

HandleSymmetry == Permutations(Handles)
Symmetry == HandleSymmetry \cup Permutations(Workers)

=============================================================================

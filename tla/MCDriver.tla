------------------------------- MODULE MCDriver -------------------------------
(* Small instances of Driver for TLC. *)
EXTENDS Driver

CONSTANTS c1, c2, cLong

MCChallengeLen ==
    [c \in Challenges |-> IF c = c1 THEN 1 ELSE IF c = cLong THEN 129 ELSE 128]

=============================================================================

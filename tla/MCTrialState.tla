---------------------------- MODULE MCTrialState ----------------------------
(* TrialState with a few helpers, inodes and trial identities.              *)
EXTENDS TrialState, TLC

CONSTANT r1

\* Both trials belong to one run: health operations cannot tell them apart.
OneRun == [t \in Trials |-> r1]

\* Helpers and inodes are interchangeable.
Symmetry == Permutations(Helpers) \cup Permutations(Inodes)
=============================================================================

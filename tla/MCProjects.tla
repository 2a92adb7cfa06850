----------------------------- MODULE MCProjects -----------------------------
(***************************************************************************)
(* Projects with three requests that create, two that delete, and an event.*)
(***************************************************************************)
EXTENDS Projects, TLC

CONSTANTS c1, c2, c3, x1, x2, s1

Symmetry == Permutations(Creators) \cup Permutations(Deleters)
=============================================================================

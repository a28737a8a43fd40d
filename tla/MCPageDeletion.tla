--------------------------- MODULE MCPageDeletion ---------------------------
(* Small instances of PageDeletion for TLC.                                *)
EXTENDS PageDeletion, TLC

\* Pages, jobs and workers are interchangeable.
Symmetry == Permutations(Page) \cup Permutations(Job) \cup Permutations(Worker)
=============================================================================

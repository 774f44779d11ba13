------------------------------ MODULE MCQueue ------------------------------
(* Instances of Queue for TLC; tasks are interchangeable, and messages.    *)
EXTENDS Queue, TLC

Symmetry == Permutations(Tasks) \cup Permutations(Messages)

=============================================================================

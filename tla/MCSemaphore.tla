---------------------------- MODULE MCSemaphore ----------------------------
(* Instances of Semaphore for TLC; tasks are interchangeable.              *)
EXTENDS Semaphore, TLC

Symmetry == Permutations(Tasks)

=============================================================================

------------------------------ MODULE MCMutex ------------------------------
(* Instances of Mutex for TLC.  Threads are interchangeable, and so are    *)
(* handlers.                                                               *)
EXTENDS Mutex, TLC

Symmetry == Permutations(Threads) \cup Permutations(Isrs)

=============================================================================

------------------------------- MODULE MCLog -------------------------------
(* Instances of Log for TLC: tasks t1 < t2 < t3 of distinct priorities, or *)
(* all of the same one.                                                    *)
EXTENDS Log, TLC

CONSTANTS t1, t2, t3

Strict == t1 :> 1 @@ t2 :> 2 @@ t3 :> 3
Equal  == [t \in Tasks |-> 1]

StrictOrEqual == {Strict, Equal}

=============================================================================

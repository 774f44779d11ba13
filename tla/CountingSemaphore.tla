------------------------- MODULE CountingSemaphore -------------------------
(***************************************************************************)
(* A counting semaphore as its callers see it: an object created with a    *)
(* limit and some permits; wait takes one, signal gives one back, and there *)
(* are never more than the limit nor fewer than none.  limit = 0 says that *)
(* there is no object.                                                     *)
(***************************************************************************)
EXTENDS Naturals

CONSTANT MaxCount  \* the largest limit

VARIABLES permits, limit

Init == permits = 0 /\ limit = 0

Create ==
  /\ limit = 0
  /\ limit' \in 1..MaxCount
  /\ permits' \in 0..limit'

Signal == permits < limit /\ permits' = permits + 1 /\ UNCHANGED limit

Wait == permits > 0 /\ permits' = permits - 1 /\ UNCHANGED limit

Delete == limit > 0 /\ limit' = 0 /\ permits' = 0

Next == Create \/ Signal \/ Wait \/ Delete

Spec == Init /\ [][Next]_<<permits, limit>>

=============================================================================

-------------------------- MODULE SemaphoreProofs --------------------------
(***************************************************************************)
(* Theorems of Semaphore, for any set of tasks, any limit and any          *)
(* time-outs.                                                              *)
(***************************************************************************)
EXTENDS Semaphore, TLAPS

USE SemaphoreAssumption DEF SemaphoreAssumption

LEMMA IInvInit == Init => IInv
  BY DEF Init, IInv, TypeOK, ObjectIffLive, Bounded, WaitersNeedLive, NobodyInside,
     Conservation, OnlyReuseFaults

LEMMA IInvStep == IInv /\ [Next]_vars => IInv'
<1> SUFFICES ASSUME IInv, [Next]_vars PROVE IInv'
  OBVIOUS
<1> USE DEF IInv, TypeOK, ObjectIffLive, Bounded, WaitersNeedLive, NobodyInside,
     Conservation, OnlyReuseFaults, kernel, history
<1>1. ASSUME NEW m \in 0..MaxCount, NEW n \in 0..MaxCount, Create(m, n) PROVE IInv'
  BY <1>1 DEF Create
<1>2. CASE Delete BY <1>2 DEF Delete, DeleteObject, Fault
<1>3. CASE faults = 0 /\ Drop BY <1>3 DEF Drop, DeleteObject, Fault
<1>4. CASE UseDeleted BY <1>4 DEF UseDeleted, Fault
<1>5. CASE Tick BY <1>5 DEF Tick
<1>6. CASE WaitFromIsr BY <1>6 DEF WaitFromIsr, TakePermit, Refused
<1>7. CASE SignalFromIsr BY <1>7 DEF SignalFromIsr, GivePermit, Refused
<1>8. ASSUME NEW t \in Tasks, NEW n \in 0..MaxWait, Wait(t, n) PROVE IInv'
  BY <1>8 DEF Wait, TakePermit, Refused
<1>9. ASSUME NEW t \in Tasks, WaitTrue(t) PROVE IInv'
  BY <1>9 DEF WaitTrue, TakePermit
<1>10. ASSUME NEW t \in Tasks, WaitFalse(t) PROVE IInv'
  BY <1>10 DEF WaitFalse, Refused
<1>11. ASSUME NEW t \in Tasks, Signal(t) PROVE IInv'
  BY <1>11 DEF Signal, GivePermit, Refused
<1>12. CASE UNCHANGED vars BY <1>12 DEF vars
<1> QED
  BY <1>1, <1>2, <1>3, <1>4, <1>5, <1>6, <1>7, <1>8, <1>9, <1>10, <1>11, <1>12
     DEF Next, Step, New, NewWithCount

\* Every variable keeps its type; in particular count stays under MaxCount,
\* the largest limit a semaphore can be given.
THEOREM TypeCorrect == Spec => []TypeOK
<1>1. IInv => TypeOK
  BY DEF IInv
<1> QED
  BY <1>1, IInvInit, IInvStep, PTL DEF Spec

\* No permit is lost or made up: the results of all calls account for them.
THEOREM PermitsConserved == Spec => []Conservation
<1>1. IInv => Conservation
  BY DEF IInv
<1> QED
  BY <1>1, IInvInit, IInvStep, PTL DEF Spec

\* A kernel assertion fails only under a client that uses a semaphore it has
\* deleted; the drop that follows an explicit delete never does.
THEOREM DropAfterDeleteIsSafe == Spec => []OnlyReuseFaults
<1>1. IInv => OnlyReuseFaults
  BY DEF IInv
<1> QED
  BY <1>1, IInvInit, IInvStep, PTL DEF Spec

\* Seen through its limit and its permits, every step of the semaphore is a
\* step of the abstract counting semaphore, or changes nothing there.
THEOREM Refinement == Spec => ImplementsCounting
<1> USE DEF IInv, TypeOK, ObjectIffLive, Bounded, kernel, history
<1>1. Init => Counting!Init
  BY DEF Init, Counting!Init
<1>2. IInv /\ [Next]_vars => [Counting!Next]_<<count, max>>
  <2> SUFFICES ASSUME IInv, Next PROVE Counting!Next \/ UNCHANGED <<count, max>>
    BY DEF vars
  <2>1. ASSUME NEW m \in 0..MaxCount, NEW n \in 0..MaxCount, Create(m, n) PROVE Counting!Create
    BY <2>1 DEF Create, Counting!Create
  <2>2. DeleteObject => Counting!Delete \/ UNCHANGED <<count, max>>
    BY DEF DeleteObject, Fault, Counting!Delete
  <2>3. TakePermit => Counting!Wait
    BY DEF TakePermit, Counting!Wait
  <2>4. GivePermit => Counting!Signal \/ UNCHANGED <<count, max>>
    BY DEF GivePermit, Refused, Counting!Signal
  <2>5. CASE \E t \in Tasks : WaitTrue(t) \/ \E n \in 0..MaxWait : Wait(t, n)
    BY <2>3, <2>5 DEF WaitTrue, Wait, Refused, Counting!Next
  <2>6. CASE WaitFromIsr
    BY <2>3, <2>6 DEF WaitFromIsr, Refused, Counting!Next
  <2>7. CASE SignalFromIsr \/ \E t \in Tasks : Signal(t)
    BY <2>4, <2>7 DEF SignalFromIsr, Signal, Counting!Next
  <2>8. CASE Delete \/ Drop
    BY <2>2, <2>8 DEF Delete, Drop, Counting!Next
  <2>9. CASE UseDeleted \/ Tick \/ \E t \in Tasks : WaitFalse(t)
    BY <2>9 DEF UseDeleted, Fault, Tick, WaitFalse, Refused
  <2> QED
    BY <2>1, <2>5, <2>6, <2>7, <2>8, <2>9 DEF Next, Step, New, NewWithCount, Counting!Next
<1> QED
  BY <1>1, <1>2, IInvInit, IInvStep, PTL DEF Spec, ImplementsCounting, Counting!Spec

=============================================================================

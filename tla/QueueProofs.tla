---------------------------- MODULE QueueProofs ----------------------------
(***************************************************************************)
(* Theorems of Queue, for any tasks, messages, sizes and time-outs, and    *)
(* for a Queue as well as for a QueueStreamed of any type.                 *)
(***************************************************************************)
EXTENDS Queue, TLAPS

USE QueueAssumption DEF QueueAssumption, Endless

LEMMA IInvInit == Init => IInv
  BY DEF Init, IInv, ItemInv, CallerInv, ItemTypes, CallerTypes, ObjectIffLive, Bounded,
     CallersNeedLive, NobodyInside, ItemsAccounted, OnlyReuseFaults

-----------------------------------------------------------------------------
(* What a step does to the items, whoever takes it.                        *)

\* Taking an item off the queue, whatever the buffer then becomes.
LEMMA ReceiveKeepsItems ==
  ASSUME ItemInv, ReceiveItem PROVE ItemInv' /\ UNCHANGED handle
<1> USE DEF ItemInv, ItemTypes, ObjectIffLive, Bounded, ItemsAccounted, OnlyReuseFaults
<1>1. CASE spoiled' = spoiled + 1 /\ UNCHANGED received
  BY <1>1 DEF ReceiveItem
<1>2. CASE received' = Append(received, Zeros) /\ UNCHANGED spoiled
  <2>1. received' = Append(received, Zeros) /\ spoiled' = spoiled
    BY <1>2
  <2>2. received' \in Seq(Messages \cup {Zeros}) /\ Len(received') = Len(received) + 1
    <3> DEFINE S == Messages \cup {Zeros}
    <3>1. received \in Seq(S) /\ Zeros \in S
      OBVIOUS
    <3> HIDE DEF S, ItemInv, ItemTypes
    <3>2. received' \in Seq(S) /\ Len(received') = Len(received) + 1
      BY <2>1, <3>1
    <3> QED
      BY <3>2 DEF S
  <2>3. count > 0 /\ count' = count - 1 /\ UNCHANGED <<handle, size, initial, sent, faults>>
    BY DEF ReceiveItem
  <2> HIDE DEF ItemTypes
  <2>4. ItemTypes'
    BY <2>1, <2>2, <2>3 DEF ItemTypes
  <2>5. ItemsAccounted'
    BY <2>1, <2>2, <2>3 DEF ItemTypes
  <2> QED
    BY <2>3, <2>4, <2>5 DEF ItemTypes
<1> QED
  BY <1>1, <1>2 DEF ReceiveItem

LEMMA SendKeepsItems ==
  ASSUME ItemInv, NEW m \in Messages, SendItem(m) PROVE ItemInv' /\ UNCHANGED handle
<1> USE DEF ItemInv, ItemTypes, ObjectIffLive, Bounded, ItemsAccounted, OnlyReuseFaults
<1>1. sent' \in Seq(Messages) /\ Len(sent') = Len(sent) + 1
  BY DEF SendItem
<1> QED
  BY <1>1 DEF SendItem

LEMMA RefusedKeepsItems ==
  ASSUME ItemInv, Refused PROVE ItemInv' /\ UNCHANGED handle
  BY DEF Refused, kernel, history, ItemInv, ItemTypes, ObjectIffLive, Bounded,
     ItemsAccounted, OnlyReuseFaults

-----------------------------------------------------------------------------
(* The inductive invariant.                                                *)

LEMMA CallsKeepItems ==
  ASSUME IInv,
         \/ FetchFromIsr
         \/ \E m \in Messages : PostFromIsr(m)
         \/ \E t \in Tasks : Returns(t)
         \/ \E t \in Tasks, n \in 0..Endless :
              Fetch(t, n) \/ \E m \in Messages : Post(t, m, n)
  PROVE  ItemInv' /\ UNCHANGED handle
<1> USE DEF IInv, CallerInv, CallersNeedLive
<1>1. CASE FetchFromIsr \/ \E t \in Tasks, n \in 0..Endless : Fetch(t, n)
  BY <1>1, ReceiveKeepsItems, RefusedKeepsItems DEF FetchFromIsr, Fetch
<1>2. CASE \E m \in Messages : PostFromIsr(m) \/ \E t \in Tasks, n \in 0..Endless : Post(t, m, n)
  BY <1>2, SendKeepsItems, RefusedKeepsItems DEF PostFromIsr, Post
<1>3. CASE \E t \in Tasks : Returns(t)
  BY <1>3, ReceiveKeepsItems, SendKeepsItems, RefusedKeepsItems
     DEF Returns, FetchOk, FetchTimeout, PostOk, PostTimeout
<1> QED
  BY <1>1, <1>2, <1>3

LEMMA IInvStep == IInv /\ [Next]_vars => IInv'
<1> SUFFICES ASSUME IInv, [Next]_vars PROVE IInv'
  OBVIOUS
<1> USE DEF IInv
<1>1. ASSUME handle = "none", callers' = callers, ItemInv' PROVE CallerInv'
  BY <1>1 DEF CallerInv, CallerTypes, CallersNeedLive, NobodyInside, callers
<1>2. ASSUME NEW n \in 0..MaxSize, NEW m \in 0..MaxSize, New(n, m) PROVE IInv'
  <2>1. ItemInv'
    BY <1>2 DEF New, ItemInv, ItemTypes, ObjectIffLive, Bounded, ItemsAccounted, OnlyReuseFaults
  <2> QED
    BY <1>1, <1>2, <2>1 DEF New
<1>3. CASE faults = 0 /\ (Delete \/ Drop \/ UseDeleted)
  <2>1. ItemInv'
    BY <1>3 DEF Delete, Drop, UseDeleted, DeleteObject, Fault, kernel, history,
       ItemInv, ItemTypes, ObjectIffLive, Bounded, ItemsAccounted, OnlyReuseFaults
  <2>2. NobodyInside /\ callers' = callers
    BY <1>3 DEF Delete, Drop, UseDeleted, DeleteObject, Fault, CallerInv, CallersNeedLive
  <2> QED
    BY <2>1, <2>2 DEF CallerInv, CallerTypes, CallersNeedLive, NobodyInside, callers
<1>4. CASE Tick
  <2>1. UNCHANGED <<handle, kernel, pc, suspended, item, history, faults>>
    BY <1>4 DEF Tick
  <2>2. remaining' \in [Tasks -> 0..Endless]
    BY <1>4 DEF Tick, Ages, CallerInv, CallerTypes
  <2> QED
    BY <2>1, <2>2 DEF kernel, history, ItemInv, ItemTypes, ObjectIffLive, Bounded,
       ItemsAccounted, OnlyReuseFaults, CallerInv, CallerTypes, CallersNeedLive, NobodyInside
<1>5. CASE FetchFromIsr \/ \E m \in Messages : PostFromIsr(m)
  <2>1. callers' = callers
    BY <1>5 DEF FetchFromIsr, PostFromIsr
  <2> QED
    BY <1>5, <2>1, CallsKeepItems
       DEF CallerInv, CallerTypes, CallersNeedLive, NobodyInside, callers
<1>6. ASSUME NEW t \in Tasks, NEW n \in 0..Endless,
             Fetch(t, n) \/ \E m \in Messages : Post(t, m, n)
      PROVE  IInv'
  <2>1. CallerInv'
    BY <1>6, CallsKeepItems
       DEF Fetch, Post, CallerInv, CallerTypes, CallersNeedLive, NobodyInside, callers
  <2> QED
    BY <1>6, <2>1, CallsKeepItems
<1>7. ASSUME NEW t \in Tasks, Returns(t) PROVE IInv'
  <2>1. CallerInv'
    BY <1>7, CallsKeepItems
       DEF Returns, FetchOk, FetchTimeout, PostOk, PostTimeout,
           CallerInv, CallerTypes, CallersNeedLive, NobodyInside
  <2> QED
    BY <1>7, <2>1, CallsKeepItems
<1>8. ASSUME NEW t \in Tasks, Suspend(t) \/ Resume(t) \/ DeleteCaller(t) PROVE IInv'
  <2>1. ItemInv' /\ UNCHANGED handle
    BY <1>8 DEF Suspend, Resume, DeleteCaller, kernel, history, ItemInv, ItemTypes, ObjectIffLive,
       Bounded, ItemsAccounted, OnlyReuseFaults
  <2>2. CallerInv'
    BY <1>8, <2>1 DEF Suspend, Resume, DeleteCaller, Blocked, CallerInv, CallerTypes,
       CallersNeedLive, NobodyInside
  <2> QED
    BY <2>1, <2>2
<1>9. CASE UNCHANGED vars
  BY <1>9 DEF vars, kernel, history, callers, ItemInv, ItemTypes, ObjectIffLive, Bounded,
     ItemsAccounted, OnlyReuseFaults, CallerInv, CallerTypes, CallersNeedLive, NobodyInside
<1> QED
  BY <1>2, <1>3, <1>4, <1>5, <1>6, <1>7, <1>8, <1>9 DEF Next, Step, Returns

-----------------------------------------------------------------------------
(* What callers rely on.                                                   *)

\* Every variable keeps its type; a message that waits to be posted is one.
THEOREM TypeCorrect == Spec => []TypeOK
<1>1. IInv => TypeOK
  BY DEF IInv, ItemInv, CallerInv, TypeOK
<1> QED
  BY <1>1, IInvInit, IInvStep, PTL DEF Spec

\* The items of a queue are accounted for by what its callers were told:
\* message_size + posted = fetched + spoiled + waiting.
THEOREM NoItemLost == Spec => []ItemsAccounted
<1>1. IInv => ItemsAccounted
  BY DEF IInv, ItemInv
<1> QED
  BY <1>1, IInvInit, IInvStep, PTL DEF Spec

\* Only the use of a deleted queue trips the kernel's assertion.
THEOREM DropAfterDeleteIsSafe == Spec => []OnlyReuseFaults
<1>1. IInv => OnlyReuseFaults
  BY DEF IInv, ItemInv
<1> QED
  BY <1>1, IInvInit, IInvStep, PTL DEF Spec

\* Every step of a queue is a step of a counting semaphore that starts with
\* message_size permits, or changes neither its limit nor its permits.
THEOREM Refinement == Spec => ImplementsCounting
<1> USE DEF IInv, ItemInv, ItemTypes, ObjectIffLive, Bounded, kernel, history
<1>1. Init => Counting!Init
  BY DEF Init, Counting!Init
<1>2. IInv /\ [Next]_vars => [Counting!Next]_<<count, size>>
  <2> SUFFICES ASSUME IInv, Next PROVE Counting!Next \/ UNCHANGED <<count, size>>
    BY DEF vars
  <2>1. ASSUME NEW n \in 0..MaxSize, NEW m \in 0..MaxSize, New(n, m) PROVE Counting!Create
    BY <2>1 DEF New, Counting!Create
  <2>2. DeleteObject => Counting!Delete \/ UNCHANGED <<count, size>>
    BY DEF DeleteObject, Fault, Counting!Delete
  <2>3. ReceiveItem => Counting!Wait
    BY DEF ReceiveItem, Counting!Wait
  <2>4. ASSUME NEW m, SendItem(m) PROVE Counting!Signal
    BY <2>4 DEF SendItem, Counting!Signal
  <2>5. CASE FetchFromIsr \/ \E t \in Tasks : FetchOk(t) \/ \E n \in 0..Endless : Fetch(t, n)
    BY <2>3, <2>5 DEF FetchFromIsr, FetchOk, Fetch, Refused, Counting!Next
  <2>6. CASE \E m \in Messages : PostFromIsr(m)
    BY <2>4, <2>6 DEF PostFromIsr, Refused, Counting!Next
  <2>7. CASE \E t \in Tasks : PostOk(t) \/ \E m \in Messages, n \in 0..Endless : Post(t, m, n)
    BY <2>4, <2>7 DEF PostOk, Post, Refused, Counting!Next
  <2>8. CASE Delete \/ Drop
    BY <2>2, <2>8 DEF Delete, Drop, Counting!Next
  <2>9. CASE UseDeleted \/ Tick \/ \E t \in Tasks : FetchTimeout(t) \/ PostTimeout(t)
    BY <2>9 DEF UseDeleted, Fault, Tick, FetchTimeout, PostTimeout, Refused
  <2>10. CASE \E t \in Tasks : Suspend(t) \/ Resume(t) \/ DeleteCaller(t)
    BY <2>10 DEF Suspend, Resume, DeleteCaller
  <2> QED
    BY <2>1, <2>5, <2>6, <2>7, <2>8, <2>9, <2>10 DEF Next, Step, Counting!Next
<1> QED
  BY <1>1, <1>2, IInvInit, IInvStep, PTL DEF Spec, ImplementsCounting, Counting!Spec

=============================================================================

---------------------------- MODULE MutexProofs ----------------------------
(***************************************************************************)
(* Theorems of Mutex, for any set of threads and handlers, any MAX_DELAY   *)
(* and any nesting.  TypeCorrect and GuardsKeepMutex hold for all clients; *)
(* the others are about clients that drop a guard on the thread that took  *)
(* it (moves = 0).                                                         *)
(***************************************************************************)
EXTENDS Mutex, TLAPS, FiniteSetTheorems

USE MutexAssumption DEF MutexAssumption

-----------------------------------------------------------------------------
(* Type correctness.  depth - 1 stays a natural number because a holder    *)
(* has taken the mutex at least once.                                      *)

TypeInv == TypeOK /\ HolderCounts

LEMMA TypeInvStep == TypeInv /\ [Next]_vars => TypeInv'
<1> SUFFICES ASSUME TypeInv, [Next]_vars PROVE TypeInv'
  OBVIOUS
<1> USE DEF TypeInv, TypeOK, HolderCounts, kernel, waits, value, Contexts, States
<1>1. CASE New BY <1>1 DEF New, CreateMutex
<1>2. CASE Drop \/ GetMut BY <1>2 DEF Drop, GetMut, Unshared
<1>3. CASE Tick BY <1>3 DEF Tick
<1>4. ASSUME NEW t \in Threads, Lock(t) PROVE TypeInv'
  BY <1>4 DEF Lock, Take
<1>5. ASSUME NEW t \in Threads, LockOk(t) PROVE TypeInv'
  BY <1>5 DEF LockOk, Take
<1>6. ASSUME NEW t \in Threads, LockFailed(t) PROVE TypeInv'
  BY <1>6 DEF LockFailed
<1>7. ASSUME NEW t \in Threads, DropGuard(t) PROVE TypeInv'
  BY <1>7 DEF DropGuard, GiveRecursive
<1>8. ASSUME NEW t \in Threads, Suspend(t) \/ Resume(t) \/ Delete(t) PROVE TypeInv'
  BY <1>8 DEF Suspend, Resume, Delete
<1>9. ASSUME NEW t \in Threads, NEW u \in Threads, MoveGuard(t, u) PROVE TypeInv'
  BY <1>9 DEF MoveGuard
<1>10. ASSUME NEW i \in Isrs, LockFromIsr(i) PROVE TypeInv'
  BY <1>10 DEF LockFromIsr, TakeFromIsr
<1>11. ASSUME NEW i \in Isrs, DropGuardFromIsr(i) PROVE TypeInv'
  BY <1>11 DEF DropGuardFromIsr, GiveFromIsr
<1>12. ASSUME NEW c \in Contexts, Load(c) PROVE TypeInv'
  BY <1>12 DEF Load
<1>13. ASSUME NEW c \in Contexts, Store(c) PROVE TypeInv'
  BY <1>13 DEF Store
<1>14. CASE UNCHANGED vars BY <1>14 DEF vars
<1> QED
  BY <1>1, <1>2, <1>3, <1>4, <1>5, <1>6, <1>7, <1>8, <1>9, <1>10, <1>11, <1>12,
     <1>13, <1>14 DEF Next

\* Every variable keeps its type, whatever clients do with their guards: in
\* particular the recursion count never goes below zero.
THEOREM TypeCorrect == Spec => []TypeOK
<1>1. Init => TypeInv
  BY DEF Init, TypeInv, TypeOK, HolderCounts, Contexts, States
<1>2. TypeInv => TypeOK
  BY DEF TypeInv
<1> QED
  BY <1>1, <1>2, TypeInvStep, PTL DEF Spec

-----------------------------------------------------------------------------
(* The inductive invariant.                                                *)

LEMMA IInvInit == Init => IInv
  BY DEF Init, IInv, TypeOK, HolderCounts, Kept, Contexts, States, GuardsAreTakes,
     IsrsExcluded, HeldIsTaken, OneIsr, TakenIsOwned, NothingLeft, LoadIsFresh

\* How clients treat their guards does not change.
LEMMA MovesStep == [Next]_vars => UNCHANGED moves
  BY DEF Next, vars, New, CreateMutex, Drop, GetMut, Tick, Lock, LockOk, LockFailed,
     DropGuard, Suspend, Resume, Delete, MoveGuard,
     LockFromIsr, DropGuardFromIsr, Load, Store

LEMMA IInvStep == IInv /\ [Next]_vars => IInv'
<1> SUFFICES ASSUME IInv, [Next]_vars, moves = 0 PROVE Kept'
  BY TypeInvStep, MovesStep DEF IInv, TypeInv
<1> USE DEF IInv, TypeOK, HolderCounts, Kept, Contexts, States, GuardsAreTakes, IsrsExcluded,
     HeldIsTaken, OneIsr, TakenIsOwned, NothingLeft, LoadIsFresh, kernel, waits, value
<1>1. CASE New BY <1>1 DEF New, CreateMutex
<1>2. CASE Drop \/ GetMut BY <1>2 DEF Drop, GetMut, Unshared
<1>3. CASE Tick BY <1>3 DEF Tick
<1>4. ASSUME NEW t \in Threads, Lock(t) PROVE Kept'
  BY <1>4 DEF Lock, Take
<1>5. ASSUME NEW t \in Threads, LockOk(t) PROVE Kept'
  BY <1>5 DEF LockOk, Take
<1>6. ASSUME NEW t \in Threads, LockFailed(t) PROVE Kept'
  BY <1>6 DEF LockFailed
<1>7. ASSUME NEW t \in Threads, DropGuard(t) PROVE Kept'
  BY <1>7 DEF DropGuard, GiveRecursive
<1>8. ASSUME NEW t \in Threads, Suspend(t) \/ Resume(t) \/ Delete(t) PROVE Kept'
  BY <1>8 DEF Suspend, Resume, Delete
<1>10. ASSUME NEW i \in Isrs, LockFromIsr(i) PROVE Kept'
  BY <1>10 DEF LockFromIsr, TakeFromIsr
<1>11. ASSUME NEW i \in Isrs, DropGuardFromIsr(i) PROVE Kept'
  BY <1>11 DEF DropGuardFromIsr, GiveFromIsr
<1>12. ASSUME NEW c \in Contexts, Load(c) PROVE Kept'
  BY <1>12 DEF Load
<1>13. ASSUME NEW c \in Contexts, Store(c) PROVE Kept'
  BY <1>13 DEF Store
<1>14. CASE UNCHANGED vars BY <1>14 DEF vars
<1> QED
  BY <1>1, <1>2, <1>3, <1>4, <1>5, <1>6, <1>7, <1>8, <1>10, <1>11, <1>12,
     <1>13, <1>14 DEF Next, MoveGuard

\* The inductive invariant, with the facts about the kernel mutex (who took
\* it, how often, and who owns guards for that) the properties rest on.
THEOREM MutexInvariant == Spec => []IInv
  BY IInvInit, IInvStep, PTL DEF Spec

-----------------------------------------------------------------------------
(* What callers rely on.                                                   *)

\* At most one context owns guards, and so `&mut T`, at any time.
THEOREM MutualExclusion == Spec => []Exclusion
<1>1. IInv => Exclusion
  <2> SUFFICES ASSUME IInv, NEW c \in Contexts, NEW d \in Contexts,
                      moves = 0, guards[c] > 0, guards[d] > 0
               PROVE  c = d
    BY DEF Exclusion
  <2>1. CASE c \in Threads
    <3>1. holder = c /\ holder # NoThread
      BY <2>1 DEF IInv, Kept, TypeOK, HolderCounts, GuardsAreTakes
    <3> QED
      BY <2>1, <3>1 DEF IInv, Kept, HolderCounts, GuardsAreTakes, IsrsExcluded, Contexts
  <2>2. CASE d \in Threads
    <3>1. holder = d /\ holder # NoThread
      BY <2>2 DEF IInv, Kept, TypeOK, HolderCounts, GuardsAreTakes
    <3> QED
      BY <2>2, <3>1 DEF IInv, Kept, HolderCounts, GuardsAreTakes, IsrsExcluded, Contexts
  <2>3. CASE c \in Isrs /\ d \in Isrs
    BY <2>3 DEF IInv, Kept, OneIsr
  <2> QED
    BY <2>1, <2>2, <2>3 DEF Contexts
<1> QED
  BY <1>1, MutexInvariant, PTL

\* A mutex that cannot be taken has an owner that will give it back.
THEOREM MutexNeverLost == Spec => []NeverLost
<1>1. IInv => NeverLost
  <2> SUFFICES ASSUME IInv, moves = 0, mutex = "live", items = 0
               PROVE  \E c \in Contexts : guards[c] > 0
    BY DEF NeverLost
  <2>1. CASE holder = NoThread
    BY <2>1 DEF IInv, Kept, TakenIsOwned, Contexts
  <2>2. CASE holder # NoThread
    BY <2>2 DEF IInv, Kept, TypeOK, HolderCounts, GuardsAreTakes, Contexts
  <2> QED
    BY <2>1, <2>2
<1> QED
  BY <1>1, MutexInvariant, PTL

\* Every increment made through a guard is in the counter.
THEOREM EveryUpdateCounts == Spec => []NoLostUpdate
<1>1. IInv => NoLostUpdate
  BY DEF IInv, Kept, NoLostUpdate
<1> QED
  BY <1>1, MutexInvariant, PTL

-----------------------------------------------------------------------------
(* Guards that travel between threads.                                     *)

\* A name no guard of t has yet, and the one that goes first.
LEMMA GuardNames ==
  ASSUME TypeOK, NEW t \in Threads
  PROVE  /\ <<t, guards[t] + 1>> \notin GuardsOfThreads
         /\ guards[t] > 0 => <<t, guards[t]>> \in GuardsOfThreads
  BY DEF TypeOK, GuardsOfThreads, Contexts

LEMMA OneMoreGuard ==
  ASSUME TypeOK, TakesCoverGuards, NEW t \in Threads,
         guards' = [guards EXCEPT ![t] = @ + 1]
  PROVE  /\ IsFiniteSet(GuardsOfThreads')
         /\ Cardinality(GuardsOfThreads') = Cardinality(GuardsOfThreads) + 1
<1>1. GuardsOfThreads' = GuardsOfThreads \cup {<<t, guards[t] + 1>>}
  BY DEF TypeOK, GuardsOfThreads, Contexts
<1> QED
  BY <1>1, GuardNames, FS_AddElement DEF TakesCoverGuards

LEMMA OneGuardLess ==
  ASSUME TypeOK, TakesCoverGuards, NEW t \in Threads, guards[t] > 0,
         guards' = [guards EXCEPT ![t] = @ - 1]
  PROVE  /\ IsFiniteSet(GuardsOfThreads')
         /\ Cardinality(GuardsOfThreads') = Cardinality(GuardsOfThreads) - 1
<1>1. GuardsOfThreads' = GuardsOfThreads \ {<<t, guards[t]>>}
  BY DEF TypeOK, GuardsOfThreads, Contexts
<1> QED
  BY <1>1, GuardNames, FS_RemoveElement DEF TakesCoverGuards

LEMMA GuardMoves ==
  ASSUME TypeOK, TakesCoverGuards, NEW t \in Threads, NEW u \in Threads, t # u, guards[t] > 0,
         guards' = [guards EXCEPT ![t] = @ - 1, ![u] = @ + 1]
  PROVE  /\ IsFiniteSet(GuardsOfThreads')
         /\ Cardinality(GuardsOfThreads') = Cardinality(GuardsOfThreads)
<1> DEFINE rest == GuardsOfThreads \ {<<t, guards[t]>>}
<1>1. GuardsOfThreads' = rest \cup {<<u, guards[u] + 1>>}
  BY DEF TypeOK, GuardsOfThreads, Contexts
<1>2. <<u, guards[u] + 1>> \notin rest
  BY GuardNames
<1>3. IsFiniteSet(rest) /\ Cardinality(rest) = Cardinality(GuardsOfThreads) - 1
  BY GuardNames, FS_RemoveElement DEF TakesCoverGuards
<1>4. Cardinality(GuardsOfThreads) \in Nat
  BY FS_CardinalityType DEF TakesCoverGuards
<1>5. /\ IsFiniteSet(rest \cup {<<u, guards[u] + 1>>})
      /\ Cardinality(rest \cup {<<u, guards[u] + 1>>}) = Cardinality(rest) + 1
  <2> HIDE DEF rest
  <2> QED
    BY <1>2, <1>3, FS_AddElement
<1> QED
  BY <1>1, <1>3, <1>4, <1>5

LEMMA MovedIInvInit == Init => MovedIInv
<1> SUFFICES ASSUME Init PROVE MovedIInv
  OBVIOUS
<1>1. GuardsOfThreads = {}
  BY DEF Init, GuardsOfThreads, Contexts
<1>2. TakesCoverGuards
  BY <1>1, FS_EmptySet DEF Init, TakesCoverGuards
<1> QED
  BY <1>2 DEF Init, MovedIInv, IsrsExcluded, HeldIsTaken, OneIsr, NothingLeft, Contexts

LEMMA TakesStep == IInv /\ MovedIInv /\ [Next]_vars => TakesCoverGuards'
<1> SUFFICES ASSUME IInv, MovedIInv, [Next]_vars PROVE TakesCoverGuards'
  OBVIOUS
<1>1. TypeOK /\ TakesCoverGuards
  BY DEF IInv, MovedIInv
<1>2. Cardinality(GuardsOfThreads) \in Nat
  BY <1>1, FS_CardinalityType DEF TakesCoverGuards
<1>3. ASSUME UNCHANGED <<guards, depth>> PROVE TakesCoverGuards'
  BY <1>1, <1>3 DEF TakesCoverGuards, GuardsOfThreads
<1>4. ASSUME NEW t \in Threads, Take(t) PROVE TakesCoverGuards'
  <2>1. /\ IsFiniteSet(GuardsOfThreads')
        /\ Cardinality(GuardsOfThreads') = Cardinality(GuardsOfThreads) + 1
    BY <1>1, <1>4, OneMoreGuard DEF Take
  <2>2. depth' = depth + 1 /\ depth \in Nat
    BY <1>1, <1>4 DEF Take, TypeOK
  <2> QED
    BY <1>1, <1>2, <2>1, <2>2 DEF TakesCoverGuards
<1>5. CASE Drop
  <2>1. GuardsOfThreads' = {}
    BY <1>5 DEF Drop, Unshared, GuardsOfThreads, Contexts
  <2> QED
    BY <1>5, <2>1, FS_EmptySet DEF Drop, TakesCoverGuards
<1>6. ASSUME NEW t \in Threads, DropGuard(t) PROVE TakesCoverGuards'
  <2>1. depth' >= depth - 1
    BY <1>1, <1>6 DEF DropGuard, GiveRecursive, kernel, TypeOK
  <2>2. /\ IsFiniteSet(GuardsOfThreads')
        /\ Cardinality(GuardsOfThreads') = Cardinality(GuardsOfThreads) - 1
    BY <1>1, <1>6, OneGuardLess DEF DropGuard
  <2>3. depth' \in Int
    BY <1>1, <1>6 DEF DropGuard, GiveRecursive, kernel, TypeOK
  <2> QED
    BY <1>1, <1>2, <2>1, <2>2, <2>3 DEF TakesCoverGuards, TypeOK
<1>7. ASSUME NEW t \in Threads, NEW u \in Threads, MoveGuard(t, u) PROVE TakesCoverGuards'
  BY <1>1, <1>7, GuardMoves DEF MoveGuard, kernel, TakesCoverGuards
<1>8. ASSUME NEW i \in Isrs, LockFromIsr(i) \/ DropGuardFromIsr(i) PROVE TakesCoverGuards'
  <2>1. \A t \in Threads : guards'[t] = guards[t]
    BY <1>1, <1>8 DEF LockFromIsr, TakeFromIsr, DropGuardFromIsr, GiveFromIsr, TypeOK, Contexts
  <2>2. GuardsOfThreads' = GuardsOfThreads
    BY <2>1 DEF GuardsOfThreads
  <2> QED
    BY <1>1, <1>8, <2>2 DEF LockFromIsr, TakeFromIsr, DropGuardFromIsr, GiveFromIsr, TakesCoverGuards
<1> QED
  BY <1>3, <1>4, <1>5, <1>6, <1>7, <1>8
  DEF Next, New, CreateMutex, GetMut, Tick, Lock, LockOk, LockFailed, Suspend, Resume, Delete, Load,
      Store, kernel, value, vars

LEMMA MovedIInvStep == IInv /\ MovedIInv /\ [Next]_vars => MovedIInv'
<1> SUFFICES ASSUME IInv, MovedIInv, [Next]_vars
             PROVE  IsrsExcluded' /\ HeldIsTaken' /\ OneIsr' /\ NothingLeft'
  BY TakesStep DEF MovedIInv
<1>1. TypeOK /\ HolderCounts /\ IsrsExcluded /\ HeldIsTaken /\ OneIsr /\ NothingLeft
  BY DEF IInv, MovedIInv
<1> USE <1>1
    DEF TypeOK, HolderCounts, IsrsExcluded, HeldIsTaken, OneIsr, NothingLeft, Contexts, States,
        kernel, waits, value
<1>2. CASE New BY <1>2 DEF New, CreateMutex
<1>3. CASE Drop \/ GetMut BY <1>3 DEF Drop, GetMut, Unshared
<1>4. CASE Tick BY <1>4 DEF Tick
<1>5. ASSUME NEW t \in Threads, Lock(t) PROVE IsrsExcluded' /\ HeldIsTaken' /\ OneIsr' /\ NothingLeft'
  BY <1>5 DEF Lock, Take
<1>6. ASSUME NEW t \in Threads, LockOk(t) PROVE IsrsExcluded' /\ HeldIsTaken' /\ OneIsr' /\ NothingLeft'
  BY <1>6 DEF LockOk, Take
<1>7. ASSUME NEW t \in Threads, DropGuard(t) PROVE IsrsExcluded' /\ HeldIsTaken' /\ OneIsr' /\ NothingLeft'
  BY <1>7 DEF DropGuard, GiveRecursive
<1>8. ASSUME NEW t \in Threads, NEW u \in Threads, MoveGuard(t, u)
      PROVE  IsrsExcluded' /\ HeldIsTaken' /\ OneIsr' /\ NothingLeft'
  BY <1>8 DEF MoveGuard
<1>9. ASSUME NEW i \in Isrs, LockFromIsr(i) PROVE IsrsExcluded' /\ HeldIsTaken' /\ OneIsr' /\ NothingLeft'
  BY <1>9 DEF LockFromIsr, TakeFromIsr
<1>10. ASSUME NEW i \in Isrs, DropGuardFromIsr(i)
       PROVE  IsrsExcluded' /\ HeldIsTaken' /\ OneIsr' /\ NothingLeft'
  BY <1>10 DEF DropGuardFromIsr, GiveFromIsr
<1>11. ASSUME NEW t \in Threads, LockFailed(t) \/ Suspend(t) \/ Resume(t) \/ Delete(t)
       PROVE  IsrsExcluded' /\ HeldIsTaken' /\ OneIsr' /\ NothingLeft'
  BY <1>11 DEF LockFailed, Suspend, Resume, Delete
<1>12. ASSUME NEW c \in Contexts, Load(c) \/ Store(c)
       PROVE  IsrsExcluded' /\ HeldIsTaken' /\ OneIsr' /\ NothingLeft'
  BY <1>12 DEF Load, Store
<1>13. CASE UNCHANGED vars BY <1>13 DEF vars
<1> QED
  BY <1>2, <1>3, <1>4, <1>5, <1>6, <1>7, <1>8, <1>9, <1>10, <1>11, <1>12, <1>13 DEF Next

\* While a guard of a thread lives, on whatever thread, the kernel mutex is
\* taken and no interrupt handler can get in.
THEOREM GuardsKeepMutex == Spec => []GuardKeepsMutex
<1>1. IInv /\ MovedIInv => GuardKeepsMutex
  <2> SUFFICES ASSUME IInv, MovedIInv, NEW t \in Threads, guards[t] > 0
               PROVE  holder # NoThread /\ items = 0
    BY DEF GuardKeepsMutex
  <2>1. <<t, guards[t]>> \in GuardsOfThreads
    BY GuardNames DEF IInv
  <2>2. IsFiniteSet(GuardsOfThreads) /\ Cardinality(GuardsOfThreads) <= depth
    BY DEF MovedIInv, TakesCoverGuards
  <2>3. Cardinality(GuardsOfThreads) \in Nat /\ Cardinality(GuardsOfThreads) # 0
    BY <2>1, <2>2, FS_CardinalityType, FS_EmptySet
  <2>4. depth > 0
    BY <2>2, <2>3 DEF IInv, TypeOK
  <2> QED
    BY <2>4 DEF IInv, HolderCounts, MovedIInv, HeldIsTaken
<1>2. Init => MovedIInv
  BY MovedIInvInit
<1>3. IInv /\ MovedIInv /\ [Next]_vars => MovedIInv'
  BY MovedIInvStep
<1> QED
  BY <1>1, <1>2, <1>3, MutexInvariant, PTL DEF Spec

-----------------------------------------------------------------------------
(* The mutex implements AbstractLock: taking a guard is Acquire, dropping  *)
(* one is Release, and every other step leaves the guards alone.           *)

\* The guards' part of the steps of the abstract lock.
Acquires(c) ==
  /\ \A d \in Contexts \ {c} : guards[d] = 0
  /\ c \in Isrs => guards[c] = 0
  /\ guards' = [guards EXCEPT ![c] = @ + 1]

Releases(c) ==
  /\ guards[c] > 0
  /\ guards' = [guards EXCEPT ![c] = @ - 1]

LEMMA StepRefines ==
  ASSUME IInv, Next, moves = 0
  PROVE  \/ \E c \in Contexts : Acquires(c) \/ Releases(c)
         \/ UNCHANGED guards
<1> USE DEF Contexts
<1>1. ASSUME NEW t \in Threads, Take(t) PROVE Acquires(t)
  <2>1. \A d \in Contexts \ {t} : guards[d] = 0
    BY <1>1 DEF Take, IInv, Kept, HolderCounts, TypeOK, GuardsAreTakes, IsrsExcluded, HeldIsTaken
  <2> QED
    BY <1>1, <2>1 DEF Take, Acquires
<1>2. ASSUME NEW t \in Threads, DropGuard(t) PROVE Releases(t)
  BY <1>2 DEF DropGuard, Releases
<1>3. ASSUME NEW i \in Isrs, DropGuardFromIsr(i) PROVE Releases(i)
  BY <1>3 DEF DropGuardFromIsr, GiveFromIsr, Releases
<1>4. ASSUME NEW i \in Isrs, LockFromIsr(i), items = 1 PROVE Acquires(i)
  <2>1. holder = NoThread /\ depth = 0
    BY <1>4 DEF IInv, Kept, HolderCounts, GuardsAreTakes, HeldIsTaken
  <2>2. \A d \in Threads : guards[d] = 0
    BY <2>1 DEF IInv, Kept, HolderCounts, GuardsAreTakes
  <2>3. \A d \in Isrs : guards[d] = 0
    BY <1>4 DEF IInv, Kept, IsrsExcluded
  <2> QED
    BY <1>4, <2>2, <2>3 DEF LockFromIsr, TakeFromIsr, Acquires
<1>5. ASSUME NEW i \in Isrs, LockFromIsr(i), items # 1 PROVE UNCHANGED guards
  BY <1>5 DEF LockFromIsr, TakeFromIsr
<1>6. ASSUME NEW t \in Threads, Lock(t) \/ LockOk(t)
      PROVE  Take(t) \/ UNCHANGED guards
  BY <1>6 DEF Lock, LockOk
<1>7. CASE \E t \in Threads : Lock(t) \/ LockOk(t)
  BY <1>1, <1>6, <1>7
<1>8. CASE \E i \in Isrs : LockFromIsr(i) \/ DropGuardFromIsr(i)
  BY <1>3, <1>4, <1>5, <1>8
<1>9. CASE \E t \in Threads : DropGuard(t)
  BY <1>2, <1>9
<1>10. CASE \/ New \/ Drop \/ GetMut \/ Tick
            \/ \E t \in Threads : LockFailed(t) \/ Suspend(t) \/ Resume(t) \/ Delete(t)
            \/ \E c \in Contexts : Load(c) \/ Store(c)
  BY <1>10 DEF New, Drop, GetMut, Tick, LockFailed, Suspend, Resume, Delete, Load, Store
<1> QED
  BY <1>7, <1>8, <1>9, <1>10 DEF Next, MoveGuard

\* Whatever a client can observe of the guards of a Mutex, it can observe of
\* the abstract lock.
THEOREM Refinement == Spec => ImplementsLock
<1> DEFINE holds == [c \in Contexts |-> IF moves = 0 THEN guards[c] ELSE 0]
<1>1. Init => Lock_!Init
  BY DEF Init, Lock_!Init, Lock_!Contexts, Contexts
<1>2. IInv /\ [Next]_vars => [Lock_!Next]_holds
  <2> SUFFICES ASSUME IInv, [Next]_vars PROVE Lock_!Next \/ UNCHANGED holds
    OBVIOUS
  <2>1. UNCHANGED moves /\ guards \in [Contexts -> Nat]
    BY MovesStep DEF IInv, TypeOK
  <2>2. CASE moves # 0
    BY <2>1, <2>2
  <2>3. CASE moves = 0
    <3>1. holds = guards
      BY <2>1, <2>3
    <3>2. guards' \in [Contexts -> Nat]
      BY TypeInvStep DEF IInv, TypeInv, TypeOK
    <3>3. holds' = guards'
      BY <2>1, <2>3, <3>2
    <3>4. ASSUME NEW c \in Contexts, Acquires(c) PROVE Lock_!Next
      BY <3>1, <3>3, <3>4 DEF Acquires, Lock_!Next, Lock_!Acquire, Lock_!Contexts, Contexts
    <3>5. ASSUME NEW c \in Contexts, Releases(c) PROVE Lock_!Next
      BY <3>1, <3>3, <3>5 DEF Releases, Lock_!Next, Lock_!Release, Lock_!Contexts, Contexts
    <3>6. CASE UNCHANGED vars
      BY <3>1, <3>3, <3>6 DEF vars
    <3>7. CASE Next
      BY <2>3, <3>1, <3>3, <3>4, <3>5, <3>7, StepRefines
    <3> QED
      BY <3>6, <3>7
  <2> QED
    BY <2>2, <2>3
<1> QED
  BY <1>1, <1>2, MutexInvariant, PTL DEF Spec, ImplementsLock, Lock_!Spec

=============================================================================

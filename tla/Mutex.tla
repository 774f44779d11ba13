------------------------------- MODULE Mutex -------------------------------
(***************************************************************************)
(* osal-rs/src/freertos/mutex.rs: one Mutex<T> shared by threads and       *)
(* interrupt handlers, the FreeRTOS recursive mutex under it, and the RAII *)
(* guards that give access to the data.                                    *)
(*                                                                         *)
(* The kernel side is what the code asks of FreeRTOS.  A recursive mutex   *)
(* is a queue of length one (`items` says if its item is there), with the   *)
(* task that holds it and how many times it took it.  The FromISR calls    *)
(* move the item only: they set no holder and count no recursion.          *)
(*                                                                         *)
(* Threads and handlers interleave freely, a superset of what one core     *)
(* does; a step is one kernel call, or one access to the data.             *)
(***************************************************************************)
EXTENDS Integers, FiniteSets

CONSTANTS
  Threads,        \* tasks that share the mutex
  Isrs,           \* interrupt handlers (any caller of the _from_isr methods)
  NoThread,       \* the null task handle
  MaxDelayTicks,  \* MAX_DELAY.to_ticks(), how long lock() waits
  MaxDepth,       \* bound: nested locks of one thread
  MaxStores       \* bound: writes to the data

ASSUME MutexAssumption ==
  /\ Threads \cap Isrs = {}
  /\ NoThread \notin Threads \cup Isrs
  /\ MaxDelayTicks \in Nat
  /\ MaxDepth \in Nat \ {0}
  /\ MaxStores \in Nat

VARIABLES
  moves,      \* 1 if clients move guards between threads: MutexGuard is Send
  mutex,      \* the Mutex value: "absent" before new() and after its drop
  items,      \* kernel: messages waiting, 1 when the mutex can be taken
  holder,     \* kernel: the task holding it
  depth,      \* kernel: how many times the holder took it
  guards,     \* guards[c]: live MutexGuard / MutexGuardFromIsr values c owns
  pc,         \* what each context is doing
  remaining,  \* ticks a blocked lock() may still wait
  suspended,  \* the threads that Thread::suspend has stopped in lock()
  data,       \* the protected value, a counter
  loaded,     \* what a context has read of data and not yet written back
  stores      \* history: increments written back since new()

kernel == <<items, holder, depth>>
waits  == <<remaining, suspended>>
value  == <<data, loaded, stores>>
vars   == <<moves, mutex, kernel, guards, pc, waits, value>>

Contexts == Threads \cup Isrs

\* A thread is in client code, in a blocked lock(), between the read and the
\* write of `*guard += 1`, or deleted.
States == {"ready", "blocked", "loaded", "deleted"}

TypeOK ==
  /\ moves \in {0, 1}
  /\ mutex \in {"absent", "live"}
  /\ items \in 0..1
  /\ holder \in Threads \cup {NoThread}
  /\ depth \in Nat
  /\ guards \in [Contexts -> Nat]
  /\ pc \in [Contexts -> States]
  /\ remaining \in [Threads -> 0..MaxDelayTicks]
  /\ suspended \subseteq Threads
  /\ data \in Nat
  /\ loaded \in [Contexts -> Nat]
  /\ stores \in Nat

-----------------------------------------------------------------------------
(* Creation and destruction.  Ownership rules out guards and callers when  *)
(* the value is dropped, or borrowed mutably: both borrow it.              *)

Init ==
  /\ moves \in {0, 1}
  /\ mutex = "absent"
  /\ items = 0 /\ holder = NoThread /\ depth = 0
  /\ guards = [c \in Contexts |-> 0]
  /\ pc = [c \in Contexts |-> "ready"]
  /\ remaining = [t \in Threads |-> 0]
  /\ suspended = {}
  /\ data = 0 /\ stores = 0
  /\ loaded = [c \in Contexts |-> 0]

\* RawMutex::new: a kernel mutex that can be taken.
CreateMutex ==
  /\ items' = 1
  /\ UNCHANGED <<holder, depth>>

\* Mutex::new.  (Out of memory panics in the unwrap and leaves no Mutex.)
New ==
  /\ mutex = "absent"
  /\ mutex' = "live"
  /\ CreateMutex
  /\ data' = 0 /\ stores' = 0
  /\ UNCHANGED <<moves, guards, pc, waits, loaded>>

\* Nobody borrows the value.
Unshared == \A c \in Contexts : guards[c] = 0 /\ pc[c] \in {"ready", "deleted"}

\* Drop for RawMutex, reached by dropping the Mutex and by into_inner.
Drop ==
  /\ mutex = "live"
  /\ Unshared
  /\ mutex' = "absent"
  /\ items' = 0 /\ holder' = NoThread /\ depth' = 0
  /\ UNCHANGED <<moves, guards, pc, waits, value>>

\* `*mutex.get_mut() += 1`: no lock is taken.
GetMut ==
  /\ mutex = "live" /\ stores < MaxStores
  /\ Unshared
  /\ data' = data + 1
  /\ stores' = stores + 1
  /\ UNCHANGED <<moves, mutex, kernel, guards, pc, waits, loaded>>

-----------------------------------------------------------------------------
(* Mutex::lock and MutexGuard.                                             *)

\* xQueueTakeMutexRecursive succeeds: one more guard for thread t.
Take(t) ==
  /\ holder = t \/ items = 1
  /\ items' = 0
  /\ holder' = t
  /\ depth' = depth + 1
  /\ guards' = [guards EXCEPT ![t] = @ + 1]

\* Mutex::lock, called by t: the guard at once, or a wait of MAX_DELAY.
Lock(t) ==
  /\ mutex = "live" /\ pc[t] = "ready"
  /\ guards[t] < MaxDepth /\ depth < MaxDepth
  /\ \/ /\ Take(t)
        /\ UNCHANGED <<pc, waits>>
     \/ /\ holder # t /\ items = 0
        /\ pc' = [pc EXCEPT ![t] = "blocked"]
        /\ remaining' = [remaining EXCEPT ![t] = MaxDelayTicks]
        /\ UNCHANGED <<kernel, guards, suspended>>
  /\ UNCHANGED <<moves, mutex, value>>

\* A blocked lock() finds the mutex free and returns Ok(guard).
LockOk(t) ==
  /\ pc[t] = "blocked" /\ t \notin suspended /\ items = 1
  /\ Take(t)
  /\ pc' = [pc EXCEPT ![t] = "ready"]
  /\ UNCHANGED <<moves, mutex, waits, value>>

\* Mutants: the timeout is reported as Ok(guard); lock() tries again for ever.
LockFailed_ReturnsOk(t) ==
  /\ pc[t] = "blocked" /\ t \notin suspended /\ remaining[t] = 0 /\ items = 0
  /\ pc' = [pc EXCEPT ![t] = "ready"]
  /\ guards' = [guards EXCEPT ![t] = @ + 1]
  /\ UNCHANGED <<moves, mutex, kernel, waits, value>>

LockFailed_Retries(t) ==
  /\ pc[t] = "blocked" /\ t \notin suspended /\ remaining[t] = 0 /\ items = 0
  /\ remaining' = [remaining EXCEPT ![t] = MaxDelayTicks]
  /\ UNCHANGED <<moves, mutex, kernel, guards, pc, suspended, value>>

\* MAX_DELAY is over and the mutex still taken: Err(MutexLockFailed).
LockFailed(t) ==
  /\ pc[t] = "blocked" /\ t \notin suspended /\ remaining[t] = 0 /\ items = 0
  /\ pc' = [pc EXCEPT ![t] = "ready"]
  /\ UNCHANGED <<moves, mutex, kernel, guards, waits, value>>

\* The tick interrupt ages every wait.
Tick ==
  /\ \E t \in Threads : pc[t] = "blocked" /\ remaining[t] > 0
  /\ remaining' = [t \in Threads |->
       IF pc[t] = "blocked" /\ remaining[t] > 0 THEN remaining[t] - 1 ELSE remaining[t]]
  /\ UNCHANGED <<moves, mutex, kernel, guards, pc, suspended, value>>

\* Thread::suspend and Thread::resume of a thread in lock(): the kernel looks
\* at the mutex and the time again when it is resumed.  (A thread suspended
\* elsewhere takes no step, to which nothing obliges it in any case.)
Suspend(t) ==
  /\ pc[t] = "blocked" /\ t \notin suspended
  /\ suspended' = suspended \cup {t}
  /\ UNCHANGED <<moves, mutex, kernel, guards, pc, remaining, value>>

Resume(t) ==
  /\ t \in suspended
  /\ suspended' = suspended \ {t}
  /\ UNCHANGED <<moves, mutex, kernel, guards, pc, remaining, value>>

\* Mutant: the first give frees a mutex taken several times.
GiveRecursive_Flat(t) ==
  \/ /\ holder = t
     /\ depth' = 0 /\ items' = 1 /\ holder' = NoThread
  \/ /\ holder # t
     /\ UNCHANGED kernel

\* xQueueGiveMutexRecursive by t: refused unless t is the holder, and the
\* mutex is free again when the outermost take is given back.
GiveRecursive(t) ==
  \/ /\ holder = t
     /\ depth' = depth - 1
     /\ items' = IF depth = 1 THEN 1 ELSE 0
     /\ holder' = IF depth = 1 THEN NoThread ELSE t
  \/ /\ holder # t
     /\ UNCHANGED kernel

\* Drop for MutexGuard ignores what unlock() returns: the guard is gone even
\* when the kernel refused.
DropGuard(t) ==
  /\ pc[t] = "ready" /\ guards[t] > 0
  /\ guards' = [guards EXCEPT ![t] = @ - 1]
  /\ GiveRecursive(t)
  /\ UNCHANGED <<moves, mutex, pc, waits, value>>

\* Client code hands a guard of t to u: nothing in the type forbids it.
MoveGuard(t, u) ==
  /\ moves = 1
  /\ t # u /\ pc[t] = "ready" /\ guards[t] > 0
  /\ pc[u] # "deleted" /\ guards[u] < MaxDepth
  /\ guards' = [guards EXCEPT ![t] = @ - 1, ![u] = @ + 1]
  /\ UNCHANGED <<moves, mutex, kernel, pc, waits, value>>

\* Thread::delete on t wherever it is: its guards are never dropped.
Delete(t) ==
  /\ pc[t] # "deleted"
  /\ pc' = [pc EXCEPT ![t] = "deleted"]
  /\ suspended' = suspended \ {t}
  /\ UNCHANGED <<moves, mutex, kernel, guards, remaining, value>>

-----------------------------------------------------------------------------
(* Mutex::lock_from_isr and MutexGuardFromIsr.                             *)

\* Mutant: lock_from_isr() does not look at what the kernel returned.
LockFromIsr_Unchecked(i) ==
  /\ mutex = "live" /\ pc[i] = "ready" /\ guards[i] = 0
  /\ items' = 0
  /\ guards' = [guards EXCEPT ![i] = @ + 1]
  /\ UNCHANGED <<moves, mutex, holder, depth, pc, waits, value>>

\* RawMutex::lock_from_isr takes the item if it is there.
TakeFromIsr ==
  /\ items = 1
  /\ items' = 0

\* A guard or Err(MutexLockFailed), without waiting.
LockFromIsr(i) ==
  /\ mutex = "live" /\ pc[i] = "ready"
  /\ \/ /\ TakeFromIsr
        /\ guards' = [guards EXCEPT ![i] = @ + 1]
     \/ /\ items = 0
        /\ UNCHANGED <<items, guards>>
  /\ UNCHANGED <<moves, mutex, holder, depth, pc, waits, value>>

\* Mutant: the ISR guard is dropped with unlock(), which the kernel refuses
\* a caller that is not the holder.
DropGuardFromIsr_TaskUnlock(i) ==
  /\ pc[i] = "ready" /\ guards[i] > 0
  /\ guards' = [guards EXCEPT ![i] = @ - 1]
  /\ GiveRecursive(i)
  /\ UNCHANGED <<moves, mutex, pc, waits, value>>

\* RawMutex::unlock_from_isr puts the item back, whoever calls.
GiveFromIsr == items' = 1

\* Drop for MutexGuardFromIsr.
DropGuardFromIsr(i) ==
  /\ pc[i] = "ready" /\ guards[i] > 0
  /\ guards' = [guards EXCEPT ![i] = @ - 1]
  /\ GiveFromIsr
  /\ UNCHANGED <<moves, mutex, holder, depth, pc, waits, value>>

-----------------------------------------------------------------------------
(* `*guard += 1`: Deref and DerefMut reach the data through the UnsafeCell *)
(* with no further check.                                                  *)

Load(c) ==
  /\ pc[c] = "ready" /\ guards[c] > 0 /\ stores < MaxStores
  /\ loaded' = [loaded EXCEPT ![c] = data]
  /\ pc' = [pc EXCEPT ![c] = "loaded"]
  /\ UNCHANGED <<moves, mutex, kernel, guards, waits, data, stores>>

Store(c) ==
  /\ pc[c] = "loaded"
  /\ data' = loaded[c] + 1
  /\ stores' = stores + 1
  /\ pc' = [pc EXCEPT ![c] = "ready"]
  /\ UNCHANGED <<moves, mutex, kernel, guards, waits, loaded>>

-----------------------------------------------------------------------------

Next ==
  \/ New
  \/ Drop
  \/ GetMut
  \/ Tick
  \/ \E t \in Threads :
       \/ Lock(t)
       \/ LockOk(t)
       \/ LockFailed(t)
       \/ DropGuard(t)
       \/ Suspend(t)
       \/ Resume(t)
       \/ Delete(t)
       \/ \E u \in Threads : MoveGuard(t, u)
  \/ \E i \in Isrs : LockFromIsr(i) \/ DropGuardFromIsr(i)
  \/ \E c \in Contexts : Load(c) \/ Store(c)

Spec == Init /\ [][Next]_vars

\* The tick interrupt keeps coming, and a waiter the kernel has made ready is
\* run: it either takes the mutex or returns the timeout.
Fairness ==
  /\ WF_vars(Tick)
  /\ \A t \in Threads : WF_vars(LockOk(t) \/ LockFailed(t))

FairSpec == Spec /\ Fairness

-----------------------------------------------------------------------------
(* Properties.                                                             *)

\* A guard gives `&mut T`: no two contexts, threads or interrupt handlers,
\* own guards at the same time, whatever the nesting, the timeouts and the
\* threads deleted while holding one.  (Clients that move guards break it.)
Exclusion ==
  moves = 0 =>
    \A c, d \in Contexts : guards[c] > 0 /\ guards[d] > 0 => c = d

\* The mutex is never lost: while it cannot be taken somebody still owns a
\* guard, and will free it by dropping it.
NeverLost ==
  moves = 0 /\ mutex = "live" /\ items = 0 => \E c \in Contexts : guards[c] > 0

\* `*guard += 1` is never lost: every increment written back, by threads or
\* by handlers, is in the counter (the shared-counter test adds up).
NoLostUpdate == moves = 0 => data = stores

\* Even when guards travel between threads and are dropped by a thread the
\* kernel does not know as the holder, the kernel mutex stays taken as long
\* as any thread's guard is alive, so no handler gets in meanwhile.
GuardKeepsMutex ==
  (\E t \in Threads : guards[t] > 0) => holder # NoThread /\ items = 0

\* A blocked lock() always returns, with a guard or with MutexLockFailed,
\* even when the holder is deleted and never unlocks, unless its own thread is
\* suspended or deleted: MAX_DELAY is not endless.  This is at odds with what
\* traits/mutex.rs:53 says of lock(), "blocking the current thread until it is
\* able to do so": a holder that takes longer makes it fail.
LockReturns ==
  \A t \in Threads : pc[t] = "blocked" ~> pc[t] # "blocked" \/ t \in suspended

\* For clients that keep a guard on the thread that took it, the mutex
\* implements the abstract lock: guards are handed out one context at a time.
Lock_ == INSTANCE AbstractLock
           WITH holds <- [c \in Contexts |-> IF moves = 0 THEN guards[c] ELSE 0]
ImplementsLock == Lock_!Spec

-----------------------------------------------------------------------------
(* The inductive invariant behind the safety properties.                   *)

\* The kernel mutex has a holder exactly while it counts recursions.
HolderCounts == holder = NoThread <=> depth = 0

\* A thread owns a guard for each time it took the kernel mutex.
GuardsAreTakes ==
  \A t \in Threads : guards[t] = IF holder = t THEN depth ELSE 0

\* A free mutex, or one a thread holds, is not a handler's.
IsrsExcluded ==
  items = 1 \/ holder # NoThread => \A i \in Isrs : guards[i] = 0

\* The kernel mutex is taken while a thread holds it.
HeldIsTaken == holder # NoThread => items = 0

\* At most one handler owns a guard, and only one.
OneIsr ==
  /\ \A i \in Isrs : guards[i] <= 1
  /\ \A i, j \in Isrs : guards[i] > 0 /\ guards[j] > 0 => i = j

\* A mutex taken by no thread is a handler's.
TakenIsOwned ==
  mutex = "live" /\ items = 0 /\ holder = NoThread => \E i \in Isrs : guards[i] > 0

\* Nothing of a mutex is left before new() or after its drop.
NothingLeft ==
  mutex = "absent" =>
    /\ items = 0 /\ holder = NoThread
    /\ \A c \in Contexts : guards[c] = 0 /\ pc[c] \in {"ready", "deleted"}

\* A context between its read and its write owns a guard and has read the
\* value the data still has.
LoadIsFresh ==
  \A c \in Contexts : pc[c] = "loaded" => guards[c] > 0 /\ loaded[c] = data

\* What clients that never move a guard can rely on.
Kept ==
  /\ GuardsAreTakes
  /\ IsrsExcluded
  /\ HeldIsTaken
  /\ OneIsr
  /\ TakenIsOwned
  /\ NothingLeft
  /\ LoadIsFresh
  /\ data = stores

IInv == TypeOK /\ HolderCounts /\ (moves = 0 => Kept)

\* The guards of threads, each with a name.
GuardsOfThreads == UNION {{t} \X (1..guards[t]) : t \in Threads}

\* A guard that is dropped on another thread than the holder leaves a take
\* behind, so there may be more takes than guards, and never fewer.
TakesCoverGuards ==
  /\ IsFiniteSet(GuardsOfThreads)
  /\ Cardinality(GuardsOfThreads) <= depth

\* What is left when clients move guards.
MovedIInv ==
  /\ IsrsExcluded
  /\ HeldIsTaken
  /\ OneIsr
  /\ NothingLeft
  /\ TakesCoverGuards

=============================================================================

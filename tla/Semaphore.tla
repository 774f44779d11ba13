----------------------------- MODULE Semaphore -----------------------------
(***************************************************************************)
(* osal-rs/src/freertos/semaphore.rs: a Semaphore shared by tasks and      *)
(* interrupt handlers, over a FreeRTOS counting semaphore (a queue of      *)
(* items without content, of which `count` are waiting).                   *)
(*                                                                         *)
(* Rust ownership gives the life cycle: wait and signal borrow the value,  *)
(* delete and drop need it for themselves, so no call is under way then.   *)
(* delete leaves a value with a null handle that safe code may still use.  *)
(***************************************************************************)
EXTENDS Integers

CONSTANTS
  Tasks,      \* callers of wait and signal
  MaxCount,   \* bound: stands for UBaseType::MAX
  MaxWait,    \* bound: the longest time-out in ticks
  MaxGiven    \* bound: successful signals per object

ASSUME SemaphoreAssumption ==
  /\ MaxCount \in Nat \ {0}
  /\ MaxWait \in Nat
  /\ MaxGiven \in Nat

VARIABLES
  handle,     \* "none" (no Semaphore value), "live", or "null" after delete()
  max, count, \* kernel: the limit and the permits, 0 without an object
  pc,         \* is a task in client code or blocked in wait()?
  remaining,  \* ticks a blocked wait() has left
  initial,    \* history: the permits at creation
  given, got, \* history: signal and wait calls that returned True
  faults      \* history: kernel calls on a handle with no object

kernel  == <<max, count>>
history == <<initial, given, got>>
vars    == <<handle, kernel, pc, remaining, history, faults>>

TypeOK ==
  /\ handle \in {"none", "live", "null"}
  /\ max \in 0..MaxCount
  /\ count \in 0..MaxCount
  /\ pc \in [Tasks -> {"ready", "waiting"}]
  /\ remaining \in [Tasks -> 0..MaxWait]
  /\ initial \in 0..MaxCount
  /\ given \in Nat /\ got \in Nat
  /\ faults \in {0, 1}

-----------------------------------------------------------------------------
(* Life cycle.                                                             *)

Init ==
  /\ handle = "none"
  /\ max = 0 /\ count = 0
  /\ pc = [t \in Tasks |-> "ready"]
  /\ remaining = [t \in Tasks |-> 0]
  /\ initial = 0 /\ given = 0 /\ got = 0
  /\ faults = 0

\* xSemaphoreCreateCounting!(m, n).  The kernel refuses m = 0 and n > m, and
\* new() then returns Err(OutOfMemory), with no value left behind.
Create(m, n) ==
  /\ handle = "none"
  /\ m > 0 /\ n <= m
  /\ handle' = "live"
  /\ max' = m /\ count' = n
  /\ initial' = n /\ given' = 0 /\ got' = 0
  /\ UNCHANGED <<pc, remaining, faults>>

New(m, n) == Create(m, n)

NewWithCount(n) == Create(MaxCount, n)

\* A kernel call on a null handle, or on an object already deleted: the
\* kernel's assertion stops the system.
Fault ==
  /\ faults' = 1
  /\ UNCHANGED <<kernel, pc, remaining, history>>

DeleteObject ==
  \/ /\ max > 0 /\ handle # "null"
     /\ max' = 0 /\ count' = 0
     /\ UNCHANGED <<pc, remaining, history, faults>>
  \/ /\ max = 0 \/ handle = "null"
     /\ Fault

NobodyInside == \A t \in Tasks : pc[t] = "ready"

\* delete(): legal on a value already deleted.
Delete ==
  /\ handle # "none" /\ NobodyInside
  /\ DeleteObject
  /\ handle' = "null"

\* Mutant: drop deletes whatever was done before.
Drop_Unconditional ==
  /\ handle # "none" /\ NobodyInside
  /\ handle' = "none"
  /\ DeleteObject

\* Drop: delete, unless that was done before.
Drop ==
  /\ handle # "none" /\ NobodyInside
  /\ handle' = "none"
  /\ \/ handle = "null" /\ UNCHANGED <<kernel, pc, remaining, history, faults>>
     \/ handle = "live" /\ DeleteObject

\* wait or signal, of a task or a handler, on a value already deleted.
UseDeleted ==
  /\ handle = "null"
  /\ Fault
  /\ UNCHANGED handle

-----------------------------------------------------------------------------
(* wait.                                                                   *)

\* xQueueSemaphoreTake or xQueueReceiveFromISR takes a permit: True.
TakePermit ==
  /\ count > 0
  /\ count' = count - 1
  /\ got' = got + 1
  /\ UNCHANGED <<handle, max, initial, given, faults>>

Refused == UNCHANGED <<handle, kernel, history, faults>>

\* wait(n) of task t: a permit at once, False at once, or a wait of n ticks,
\* which is what a Duration converts to.  A task that is suspended or deleted
\* in its wait takes no more steps, as no fairness obliges it to.
Wait(t, n) ==
  /\ handle = "live" /\ pc[t] = "ready"
  /\ \/ TakePermit /\ UNCHANGED <<pc, remaining>>
     \/ count = 0 /\ n = 0 /\ Refused /\ UNCHANGED <<pc, remaining>>
     \/ /\ count = 0 /\ n > 0
        /\ pc' = [pc EXCEPT ![t] = "waiting"]
        /\ remaining' = [remaining EXCEPT ![t] = n]
        /\ Refused

WaitTrue(t) ==
  /\ pc[t] = "waiting"
  /\ TakePermit
  /\ pc' = [pc EXCEPT ![t] = "ready"]
  /\ UNCHANGED remaining

\* The time-out is over and there is still no permit: False.
WaitFalse(t) ==
  /\ pc[t] = "waiting" /\ remaining[t] = 0 /\ count = 0
  /\ pc' = [pc EXCEPT ![t] = "ready"]
  /\ Refused /\ UNCHANGED remaining

\* The tick interrupt ages every wait.
Tick ==
  /\ \E t \in Tasks : pc[t] = "waiting" /\ remaining[t] > 0
  /\ remaining' = [t \in Tasks |->
       IF pc[t] = "waiting" /\ remaining[t] > 0 THEN remaining[t] - 1 ELSE remaining[t]]
  /\ UNCHANGED <<handle, kernel, pc, history, faults>>

WaitFromIsr ==
  /\ handle = "live"
  /\ TakePermit \/ (count = 0 /\ Refused)
  /\ UNCHANGED <<pc, remaining>>

-----------------------------------------------------------------------------
(* signal.  xQueueGenericSend gets semGIVE_BLOCK_TIME, which is 0: neither *)
(* signal nor its handler variant waits for room.                          *)

GivePermit ==
  \/ /\ count < max /\ given < MaxGiven
     /\ count' = count + 1
     /\ given' = given + 1
     /\ UNCHANGED <<handle, max, initial, got, faults>>
  \/ count = max /\ Refused

\* Mutant: the result of the give is ignored.
Signal_AlwaysTrue(t) ==
  /\ handle = "live" /\ pc[t] = "ready" /\ given < MaxGiven
  /\ count' = IF count < max THEN count + 1 ELSE count
  /\ given' = given + 1
  /\ UNCHANGED <<handle, max, initial, got, faults, pc, remaining>>

\* Mutant: the limit is that of new_with_count, whatever new() was given.
Signal_WrongLimit(t) ==
  /\ handle = "live" /\ pc[t] = "ready" /\ given < MaxGiven /\ count < MaxCount
  /\ count' = count + 1
  /\ given' = given + 1
  /\ UNCHANGED <<handle, max, initial, got, faults, pc, remaining>>

Signal(t) ==
  /\ handle = "live" /\ pc[t] = "ready"
  /\ GivePermit
  /\ UNCHANGED <<pc, remaining>>

SignalFromIsr ==
  /\ handle = "live"
  /\ GivePermit
  /\ UNCHANGED <<pc, remaining>>

-----------------------------------------------------------------------------

Step ==
  \/ \E m, n \in 0..MaxCount : New(m, n)
  \/ \E n \in 0..MaxCount : NewWithCount(n)
  \/ Delete
  \/ Drop
  \/ UseDeleted
  \/ Tick
  \/ WaitFromIsr
  \/ SignalFromIsr
  \/ \E t \in Tasks :
       \/ \E n \in 0..MaxWait : Wait(t, n)
       \/ WaitTrue(t)
       \/ WaitFalse(t)
       \/ Signal(t)

\* Nothing runs after a failed kernel assertion.
Next == faults = 0 /\ Step

Spec == Init /\ [][Next]_vars

-----------------------------------------------------------------------------
(* Properties.                                                             *)

\* The results callers see account for every permit: what signal reported
\* given, wait reported got, and the kernel still has add up, so no permit
\* is lost on the full semaphore, or taken by a wait that returned False.
Conservation == handle = "live" => initial + given = got + count

\* The kernel's assertion fails only when a client uses a value it has
\* itself deleted: the drop after an explicit delete is harmless, although
\* both delete the kernel object.
OnlyReuseFaults == faults = 1 => handle = "null"

\* The results of all calls are those of a counting semaphore.
Counting == INSTANCE CountingSemaphore WITH permits <- count, limit <- max
ImplementsCounting == Counting!Spec

-----------------------------------------------------------------------------
(* The inductive invariant.                                                *)

\* There is a kernel object exactly while the handle is live.
ObjectIffLive == handle = "live" <=> max > 0

\* Permits stay under the limit.
Bounded == count <= max

\* Only a live semaphore has callers blocked in wait().
WaitersNeedLive == handle # "live" => NobodyInside

IInv ==
  /\ TypeOK
  /\ ObjectIffLive
  /\ Bounded
  /\ WaitersNeedLive
  /\ Conservation
  /\ OnlyReuseFaults

=============================================================================

----------------------------- MODULE EventGroup -----------------------------
(***************************************************************************)
(* osal-rs/src/freertos/event_group.rs: an EventGroup shared by tasks and  *)
(* interrupt handlers.  Tasks set, clear and wait at once; set_from_isr    *)
(* and clear_from_isr only queue a command for the FreeRTOS timer daemon,  *)
(* the one of Timer.tla, and say Ok when the queue had room.               *)
(*                                                                         *)
(* wait asks for any bit of its mask and clears none.  A command carries   *)
(* the bare handle: nothing keeps the group alive until it is processed.   *)
(***************************************************************************)
EXTENDS Integers, Sequences

CONSTANTS
  Tasks,        \* callers of wait, set and clear
  Bits,         \* event bits
  Masks,        \* bound: the sets of bits that wait and the handlers are given
  QueueLength,  \* configTIMER_QUEUE_LENGTH
  MaxWait       \* bound: the longest finite time-out in ticks

ASSUME EventGroupAssumption ==
  /\ Masks \subseteq (SUBSET Bits) \ {{}}
  /\ QueueLength \in Nat \ {0}
  /\ MaxWait \in Nat

\* portMAX_DELAY, which the kernel takes for no time-out: wait takes any
\* TickType, although no Duration converts to this one.
Endless == MaxWait + 1

VARIABLES
  handle,    \* "none" (no EventGroup value), "live", or "null" after delete()
  bits,      \* kernel: the bits set, {} without a group
  queue,     \* kernel: commands the daemon has not yet processed
  stuck,     \* is the daemon in a timer's callback that waits for ever?
  pc,        \* where a task is with its wait(), "gone" if it was deleted in it
  suspended, \* the tasks suspended inside wait()
  mask,      \* the bits it waits for
  remaining, \* the ticks it will still wait
  result,    \* the bits it was woken with, while it is woken
  wanted,    \* history: the bits, had each accepted call taken effect at once
  crossed,   \* history: bits a task has changed while a command was on its way
  missed,    \* history: woken wait()s that returned no bit of their mask, up to 1
  fault      \* what the kernel was given that it cannot work on, or "no"

waits   == <<pc, suspended, mask, remaining, result>>
history == <<wanted, crossed>>
daemon  == <<queue, stuck>>
vars    == <<handle, bits, daemon, waits, history, missed, fault>>

\* Commands for this group, for a group that has been freed since (of which
\* only the address is left), and of the daemon's other clients.
Commands == [op : {"set", "clear"}, bits : SUBSET Bits]
Freed    == [op |-> "freed", bits |-> {}]
Other    == [op |-> "other", bits |-> {}]

BitTypes ==
  /\ handle \in {"none", "live", "null"}
  /\ bits \subseteq Bits
  /\ queue \in Seq(Commands \cup {Freed, Other}) /\ Len(queue) <= QueueLength
  /\ stuck \in BOOLEAN
  /\ wanted \subseteq Bits /\ crossed \subseteq Bits
  /\ fault \in {"no", "null", "freed"}

WaitTypes ==
  /\ pc \in [Tasks -> {"ready", "waiting", "woken", "expired", "gone"}]
  /\ suspended \subseteq Tasks
  /\ mask \in [Tasks -> SUBSET Bits]
  /\ remaining \in [Tasks -> 0..Endless]
  /\ result \in [Tasks -> SUBSET Bits]
  /\ missed \in 0..1

TypeOK == BitTypes /\ WaitTypes

Init ==
  /\ handle = "none" /\ bits = {}
  /\ queue = <<>> /\ stuck = FALSE
  /\ pc = [t \in Tasks |-> "ready"] /\ suspended = {}
  /\ mask = [t \in Tasks |-> {}]
  /\ remaining = [t \in Tasks |-> 0]
  /\ result = [t \in Tasks |-> {}]
  /\ wanted = {} /\ crossed = {} /\ missed = 0
  /\ fault = "no"

-----------------------------------------------------------------------------
(* Life cycle.                                                             *)

New ==
  /\ handle = "none"
  /\ handle' = "live"
  /\ UNCHANGED <<bits, daemon, waits, history, fault, missed>>

NobodyInside == \A t \in Tasks : pc[t] = "ready"

\* vEventGroupDelete: an assertion on a null handle.  Commands on their way
\* are left with the address of the freed group.
DeleteGroup ==
  \/ /\ handle = "live"
     /\ bits' = {} /\ wanted' = {} /\ crossed' = {}
     /\ queue' = [i \in 1..Len(queue) |-> IF queue[i] = Other THEN Other ELSE Freed]
     /\ UNCHANGED fault
  \/ /\ handle = "null"
     /\ fault' = "null"
     /\ UNCHANGED <<bits, queue, history>>

\* delete(): legal on a value already deleted.
Delete ==
  /\ handle # "none" /\ NobodyInside
  /\ DeleteGroup
  /\ handle' = "null"
  /\ UNCHANGED <<stuck, waits, missed>>

\* Mutant: drop does not look at the handle.
Drop_Unconditional ==
  /\ handle # "none" /\ NobodyInside
  /\ DeleteGroup
  /\ handle' = "none"
  /\ UNCHANGED <<stuck, waits, missed>>

\* Drop: delete, unless that was done before.
Drop ==
  /\ handle # "none" /\ NobodyInside
  /\ handle' = "none"
  /\ \/ handle = "live" /\ DeleteGroup
     \/ handle = "null" /\ UNCHANGED <<bits, queue, history, fault>>
  /\ UNCHANGED <<stuck, waits, missed>>

\* Any call on a value already deleted.
UseDeleted ==
  /\ handle = "null"
  /\ fault' = "null"
  /\ UNCHANGED <<handle, bits, daemon, waits, history, missed>>

-----------------------------------------------------------------------------
(* Setting and clearing, by a task or by the daemon.                       *)

\* xEventGroupSetBits wakes every task that waits for one of the bits, with
\* the bits of this moment as its result.
SetBits(set) ==
  LET woken == {t \in Tasks : pc[t] = "waiting" /\ mask[t] \cap (bits \cup set) # {}}
  IN  /\ bits' = bits \cup set
      /\ pc' = [t \in Tasks |-> IF t \in woken THEN "woken" ELSE pc[t]]
      /\ remaining' = [t \in Tasks |-> IF t \in woken THEN 0 ELSE remaining[t]]
      /\ result' = [t \in Tasks |-> IF t \in woken THEN bits \cup set ELSE result[t]]
      /\ UNCHANGED <<suspended, mask>>

ClearBits(clear) ==
  /\ bits' = bits \ clear
  /\ UNCHANGED waits

\* A command on bit b of this group is on its way.
Pending(b) == \E i \in 1..Len(queue) : b \in queue[i].bits

\* A call of a task takes effect now, and a command on its way later.
Crossing(changed) ==
  crossed' = (crossed \ changed) \cup {b \in changed : Pending(b)}

Set(set) ==
  /\ handle = "live"
  /\ SetBits(set)
  /\ wanted' = wanted \cup set
  /\ Crossing(set)
  /\ UNCHANGED <<handle, daemon, fault, missed>>

\* get() is clear(0).
Clear(clear) ==
  /\ handle = "live"
  /\ ClearBits(clear)
  /\ wanted' = wanted \ clear
  /\ Crossing(clear)
  /\ UNCHANGED <<handle, daemon, fault, missed>>

-----------------------------------------------------------------------------
(* Setting and clearing, by a handler.                                     *)

Full == Len(queue) = QueueLength

\* xTimerPendFunctionCallFromISR.
Defer(op, changed) ==
  /\ ~Full
  /\ queue' = Append(queue, [op |-> op, bits |-> changed])
  /\ crossed' = crossed \ changed

\* Mutant: the answer of the kernel is not looked at.
SetFromIsr_AlwaysOk(set) ==
  /\ handle = "live"
  /\ \/ Defer("set", set)
     \/ Full /\ crossed' = crossed \ set /\ UNCHANGED queue
  /\ wanted' = wanted \cup set
  /\ UNCHANGED <<handle, bits, stuck, waits, fault, missed>>

\* Ok(()), or Err(QueueFull) with nothing done.
SetFromIsr(set) ==
  /\ handle = "live"
  /\ \/ Defer("set", set) /\ wanted' = wanted \cup set
     \/ Full /\ UNCHANGED <<queue, history>>
  /\ UNCHANGED <<handle, bits, stuck, waits, fault, missed>>

\* Mutant: the bits are cleared at once, as xEventGroupClearBits does.
ClearFromIsr_AtOnce(clear) ==
  /\ handle = "live"
  /\ ClearBits(clear)
  /\ wanted' = wanted \ clear /\ crossed' = crossed \ clear
  /\ UNCHANGED <<handle, daemon, fault, missed>>

ClearFromIsr(clear) ==
  /\ handle = "live"
  /\ \/ Defer("clear", clear) /\ wanted' = wanted \ clear
     \/ Full /\ UNCHANGED <<queue, history>>
  /\ UNCHANGED <<handle, bits, stuck, waits, fault, missed>>

\* Timers, and other event groups, use the queue too.
OtherCommand ==
  /\ ~Full
  /\ queue' = Append(queue, Other)
  /\ UNCHANGED <<handle, bits, stuck, waits, history, fault, missed>>

\* The daemon runs the oldest command, on the group it finds at its address.
Process ==
  /\ ~stuck /\ queue # <<>>
  /\ queue' = Tail(queue)
  /\ LET command == Head(queue)
     IN  \/ command.op = "set"   /\ SetBits(command.bits)   /\ UNCHANGED fault
         \/ command.op = "clear" /\ ClearBits(command.bits) /\ UNCHANGED fault
         \/ command = Freed      /\ fault' = "freed" /\ UNCHANGED <<bits, waits>>
         \/ command = Other      /\ UNCHANGED <<bits, waits, fault>>
  /\ UNCHANGED <<handle, stuck, history, missed>>

\* A timer's callback, which the daemon runs too, waits for something that
\* never comes, as in Timer.
DaemonSticks ==
  /\ ~stuck
  /\ stuck' = TRUE
  /\ UNCHANGED <<handle, bits, queue, waits, history, fault, missed>>

-----------------------------------------------------------------------------
(* wait.                                                                   *)

\* Mutant: wait() asks for all the bits of its mask.
Wait_AllOfMask(t, m, n) ==
  /\ handle = "live" /\ pc[t] = "ready"
  /\ ~(m \subseteq bits) /\ n > 0
  /\ pc' = [pc EXCEPT ![t] = "waiting"]
  /\ mask' = [mask EXCEPT ![t] = m]
  /\ remaining' = [remaining EXCEPT ![t] = n]
  /\ UNCHANGED <<handle, bits, daemon, suspended, result, history, missed, fault>>

\* wait(m, n) of task t returns at once when a bit of m is set or n is 0.  (An
\* empty m is an error of the client's, at which the kernel stops.)
Wait(t, m, n) ==
  /\ handle = "live" /\ pc[t] = "ready"
  /\ \/ /\ m \cap bits # {} \/ n = 0
        /\ UNCHANGED waits
     \/ /\ m \cap bits = {} /\ n > 0
        /\ pc' = [pc EXCEPT ![t] = "waiting"]
        /\ mask' = [mask EXCEPT ![t] = m]
        /\ remaining' = [remaining EXCEPT ![t] = n]
        /\ UNCHANGED <<suspended, result>>
  /\ UNCHANGED <<handle, bits, daemon, history, missed, fault>>

Ages(t) == pc[t] = "waiting" /\ remaining[t] # Endless

\* The tick interrupt ages every finite wait, and takes those that are over
\* off the group's list.
Tick ==
  /\ \E t \in Tasks : Ages(t)
  /\ remaining' = [t \in Tasks |-> IF Ages(t) THEN remaining[t] - 1 ELSE remaining[t]]
  /\ pc' = [t \in Tasks |-> IF Ages(t) /\ remaining[t] = 1 THEN "expired" ELSE pc[t]]
  /\ UNCHANGED <<handle, bits, daemon, suspended, mask, result, history, fault, missed>>

Inside(t) == pc[t] \in {"waiting", "woken", "expired"}

\* Thread::suspend of a task inside wait() takes it off the group's list too:
\* if no bit has woken it, its wait is over.
Suspend(t) ==
  /\ Inside(t) /\ t \notin suspended
  /\ suspended' = suspended \cup {t}
  /\ pc' = [pc EXCEPT ![t] = IF pc[t] = "woken" THEN "woken" ELSE "expired"]
  /\ remaining' = [remaining EXCEPT ![t] = 0]
  /\ UNCHANGED <<handle, bits, daemon, mask, result, history, fault, missed>>

Resume(t) ==
  /\ t \in suspended
  /\ suspended' = suspended \ {t}
  /\ UNCHANGED <<handle, bits, daemon, pc, mask, remaining, result, history, fault, missed>>

\* Thread::delete of a task inside wait().  Nothing runs its destructors: it
\* borrows the group for ever.
DeleteTask(t) ==
  /\ Inside(t)
  /\ pc' = [pc EXCEPT ![t] = "gone"]
  /\ suspended' = suspended \ {t}
  /\ mask' = [mask EXCEPT ![t] = {}]
  /\ remaining' = [remaining EXCEPT ![t] = 0]
  /\ result' = [result EXCEPT ![t] = {}]
  /\ UNCHANGED <<handle, bits, daemon, history, fault, missed>>

\* Mutant: wait() reads the bits again when it has been woken.
Returned_Rereads(t) == bits

\* What wait() returns to t: the bits it was woken with, whatever has become
\* of them, or those of now when its time is over.
Returned(t) == IF pc[t] = "woken" THEN result[t] ELSE bits

\* Mutant: a wait() whose time is over is not resumed.
Return_OnlyWoken(t) ==
  /\ pc[t] = "woken" /\ t \notin suspended
  /\ pc' = [pc EXCEPT ![t] = "ready"]
  /\ UNCHANGED <<handle, bits, daemon, suspended, mask, remaining, result, history, missed, fault>>

Return(t) ==
  /\ pc[t] \in {"woken", "expired"} /\ t \notin suspended
  /\ missed' = IF pc[t] = "woken" /\ Returned(t) \cap mask[t] = {} THEN 1 ELSE missed
  /\ pc' = [pc EXCEPT ![t] = "ready"]
  /\ mask' = [mask EXCEPT ![t] = {}]
  /\ result' = [result EXCEPT ![t] = {}]
  /\ UNCHANGED <<handle, bits, daemon, suspended, remaining, history, fault>>

-----------------------------------------------------------------------------

Step ==
  \/ New
  \/ Delete
  \/ Drop
  \/ UseDeleted
  \/ OtherCommand
  \/ Process
  \/ DaemonSticks
  \/ Tick
  \/ \E b \in SUBSET Bits : Set(b) \/ Clear(b)
  \/ \E b \in Masks : SetFromIsr(b) \/ ClearFromIsr(b)
  \/ \E t \in Tasks :
       \/ \E m \in Masks, n \in 0..Endless : Wait(t, m, n)
       \/ Return(t)
       \/ Suspend(t) \/ Resume(t) \/ DeleteTask(t)

\* Nothing runs after a failed kernel assertion or a use of freed memory.
Next == fault = "no" /\ Step

Spec == Init /\ [][Next]_vars

\* The tick interrupt keeps coming, the daemon is run unless it is stuck, and
\* so is a task whose wait is over.  Nothing makes anybody set a bit or resume.
FairSpec ==
  /\ Spec
  /\ WF_vars(fault = "no" /\ Tick)
  /\ WF_vars(fault = "no" /\ Process)
  /\ \A t \in Tasks : WF_vars(fault = "no" /\ Return(t))

-----------------------------------------------------------------------------
(* Properties.                                                             *)

\* No task sleeps on a bit that is set, whichever of tasks and daemon sets
\* and clears, and in whatever order.
NoSleeperOnSetBit == \A t \in Tasks : pc[t] = "waiting" => mask[t] \cap bits = {}

\* A wait() that was woken returns a bit of its mask, although the bits may
\* have been cleared by then.
NoMissedBit == missed = 0

\* The command at i is the last one on its way that changes b.
LastOn(b, i) ==
  /\ i \in 1..Len(queue)
  /\ b \in queue[i].bits
  /\ \A j \in 1..Len(queue) : j > i => b \notin queue[j].bits

\* Calls take effect in the order they were accepted, set_from_isr and
\* clear_from_isr included, and one that was refused takes none: the daemon
\* leaves each bit as the last accepted call wants it.  The exception is a
\* bit that a task changes while a handler's command on it is on its way: the
\* command, although older, comes later.
Settles ==
  handle = "live" =>
    \A b \in Bits \ crossed :
      /\ \A i \in 1..Len(queue) : LastOn(b, i) => (queue[i].op = "set" <=> b \in wanted)
      /\ ~Pending(b) => (b \in bits <=> b \in wanted)

\* An assertion on a null handle fails only for a value the client has itself
\* deleted: the drop after an explicit delete is harmless.
OnlyReuseFaults == fault = "null" => handle = "null"

\* A wait() with a finite time-out returns, unless its task is suspended or
\* deleted in it, or the kernel stops the system.
WaitReturns ==
  \A t \in Tasks :
    Inside(t) /\ remaining[t] # Endless ~>
      pc[t] \in {"ready", "gone"} \/ t \in suspended \/ fault # "no"

\* A bit that set_from_isr has set with Ok comes to be set, unless it is
\* cleared again, or a task gets across the command, or a timer's callback
\* keeps the daemon for ever.
SetTakesEffect ==
  \A b \in Bits :
    b \in wanted \ crossed ~>
      b \in bits \/ b \notin wanted \/ b \in crossed \/ stuck \/ fault # "no"

-----------------------------------------------------------------------------
(* The inductive invariant.                                                *)

\* Without a group no bit is set or on its way.
BitsNeedLive ==
  handle # "live" =>
    /\ bits = {} /\ wanted = {}
    /\ \A b \in Bits : ~Pending(b)

\* Only a live group has callers inside wait(), deleted ones included.
WaitersNeedLive == handle # "live" => NobodyInside

\* A task that waits has time left.
WaitingHasTime == \A t \in Tasks : pc[t] = "waiting" => remaining[t] > 0

\* Only a task inside wait() is suspended there, and it is on no list.
SuspendedInside == \A t \in suspended : pc[t] \in {"woken", "expired"}

\* A woken task was woken with a bit it waits for.
WokenHasBit == \A t \in Tasks : pc[t] = "woken" => result[t] \cap mask[t] # {}

BitInv == BitTypes /\ Settles /\ BitsNeedLive /\ OnlyReuseFaults

WaitInv ==
  /\ WaitTypes
  /\ NoSleeperOnSetBit
  /\ WaitersNeedLive
  /\ WaitingHasTime
  /\ SuspendedInside
  /\ WokenHasBit
  /\ NoMissedBit

IInv == BitInv /\ WaitInv

=============================================================================

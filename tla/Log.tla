-------------------------------- MODULE Log --------------------------------
(***************************************************************************)
(* osal-rs/src/log.rs: the logger, whose state is two mutable statics that *)
(* tasks use without a lock.  MASK says what is logged; BUSY is a spin     *)
(* flag, tested and then set in two steps, around the formatting and the   *)
(* output of a record.                                                     *)
(*                                                                         *)
(* The tasks run on one core under the FreeRTOS scheduler: a task steps    *)
(* only while no ready task has a higher priority, and ready tasks of the  *)
(* same priority are interleaved by time slicing.  Client code blocks,     *)
(* deletes, suspends and resumes tasks, wherever these are, and a task     *)
(* that holds a Mutex inherits the priority of one that waits for it.      *)
(***************************************************************************)
EXTENDS Integers

CONSTANTS
  Tasks,        \* tasks that log
  Configurers,  \* those that also call set_level_log and set_enable_*
  Priorities,   \* the assignments of priorities to tasks that are considered
  Levels        \* FLAG_DEBUG .. FLAG_FATAL

ASSUME LogAssumption ==
  /\ Configurers \subseteq Tasks
  /\ Priorities \subseteq [Tasks -> Nat]
  /\ {"COLOR", "STATE"} \cap Levels = {}

Flags == Levels \cup {"COLOR", "STATE"}

VARIABLES
  Priority,  \* the priority each task was created with
  reloads,   \* 1 if the build reads BUSY again at each turn of the loop: BUSY
             \* is a plain static, and an optimised build need not
  MASK,      \* the set of flags that are on
  BUSY,      \* 0 or 1
  pc,        \* where each task is
  suspended, \* the tasks in the kernel's list of suspended ones
  inherits,  \* the task whose priority a task runs with, itself by default
  loaded,    \* of MASK as a setter has read it, the flags that it keeps
  disturbed, \* history: a task was suspended, or ran with a priority that is
             \* not its own, in the section that BUSY is to guard
  overtaken  \* history: the tasks in a setter that have seen another task's
             \* setter turn logging on or off since they read MASK

platform == <<Priority, reloads>>
kernel   == <<suspended, inherits>>
history  == <<disturbed, overtaken>>
vars     == <<platform, kernel, history, MASK, BUSY, pc, loaded>>

\* "client": outside the logger; "asleep": blocked there; "spin": at
\* `while BUSY != 0`; "hung": in that loop with the test hoisted out of it;
\* "claim": at BUSY = 1; "printing": up to BUSY = 0; "killed": deleted there;
\* "deleted": deleted elsewhere; the names of the setters: between their read
\* and their write of MASK.
Setters == {"set_level_log", "set_enable_log", "set_enable_color"}
States  == {"client", "asleep", "spin", "hung", "claim", "printing", "killed", "deleted"}
           \cup Setters
Gone    == {"killed", "deleted"}

TypeOK ==
  /\ Priority \in [Tasks -> Nat]
  /\ reloads \in {0, 1}
  /\ MASK \subseteq Flags
  /\ BUSY \in {0, 1}
  /\ pc \in [Tasks -> States]
  /\ suspended \subseteq Tasks
  /\ inherits \in [Tasks -> Tasks]
  /\ loaded \in [Tasks -> SUBSET Flags]
  /\ disturbed \in BOOLEAN
  /\ overtaken \subseteq Tasks

Init ==
  /\ Priority \in Priorities
  /\ reloads \in {0, 1}
  /\ MASK = Flags
  /\ BUSY = 0
  /\ pc = [t \in Tasks |-> "client"]
  /\ suspended = {}
  /\ inherits = [t \in Tasks |-> t]
  /\ loaded = [t \in Tasks |-> {}]
  /\ disturbed = FALSE
  /\ overtaken = {}

-----------------------------------------------------------------------------
(* The scheduler, and what client code does with tasks.                    *)

Effective(t) == Priority[inherits[t]]

Ready(t) == t \notin suspended /\ pc[t] \notin {"asleep"} \cup Gone

Runs(t) == Ready(t) /\ \A u \in Tasks : Ready(u) => Effective(u) <= Effective(t)

\* Some task runs code outside the logger.
ClientRuns == \E u \in Tasks : Runs(u) /\ pc[u] = "client"

Goto(t, label) == pc' = [pc EXCEPT ![t] = label]

\* A task outside the logger blocks, and whatever it waits for happens.
Sleep(t) ==
  /\ pc[t] = "client" /\ Runs(t)
  /\ Goto(t, "asleep")
  /\ UNCHANGED <<platform, kernel, MASK, BUSY, loaded, overtaken>>

Wake(t) ==
  /\ pc[t] = "asleep"
  /\ Goto(t, "client")
  /\ UNCHANGED <<platform, kernel, MASK, BUSY, loaded, overtaken>>

\* Task t blocks on a Mutex that u holds, and u inherits its priority.
Block(t, u) ==
  /\ pc[t] = "client" /\ Runs(t)
  /\ pc[u] \notin Gone /\ Effective(u) < Effective(t)
  /\ inherits' = [inherits EXCEPT ![u] = inherits[t]]
  /\ Goto(t, "asleep")
  /\ UNCHANGED <<platform, suspended, MASK, BUSY, loaded, overtaken>>

\* The holder gives the mutex back, or the task that waits for it gives up
\* and the kernel lowers the holder to its own priority or to that of
\* another task u that waits.
Disinherit(t, u) ==
  /\ pc[t] \notin Gone /\ inherits[t] # t
  /\ u = t \/ pc[u] = "asleep"
  /\ Priority[t] <= Priority[u] /\ Priority[u] < Effective(t)
  /\ ClientRuns
  /\ inherits' = [inherits EXCEPT ![t] = u]
  /\ UNCHANGED <<platform, suspended, MASK, BUSY, pc, loaded, overtaken>>

\* Thread::suspend, from client code, of a task that may be anywhere: a wait
\* it is in ends, and it goes on when another task resumes it.
Suspend(t) ==
  /\ pc[t] \notin Gone /\ t \notin suspended
  /\ ClientRuns
  /\ suspended' = suspended \cup {t}
  /\ Goto(t, IF pc[t] = "asleep" THEN "client" ELSE pc[t])
  /\ UNCHANGED <<platform, inherits, MASK, BUSY, loaded, overtaken>>

Resume(t) ==
  /\ t \in suspended
  /\ ClientRuns
  /\ suspended' = suspended \ {t}
  /\ UNCHANGED <<platform, inherits, MASK, BUSY, pc, loaded, overtaken>>

\* Client code of a running task deletes itself or another task, wherever
\* that one is.
Delete(t) ==
  /\ pc[t] \notin Gone
  /\ ClientRuns
  /\ Goto(t, IF pc[t] = "printing" THEN "killed" ELSE "deleted")
  /\ suspended' = suspended \ {t}
  /\ inherits' = [inherits EXCEPT ![t] = t]
  /\ loaded' = [loaded EXCEPT ![t] = {}]
  /\ overtaken' = overtaken \ {t}
  /\ UNCHANGED <<platform, MASK, BUSY>>

-----------------------------------------------------------------------------
(* Logging: the log_* macros and sys_log.                                  *)

IsEnabled(l) == "STATE" \in MASK /\ l \in MASK

\* log_debug! and the others: no call unless the level is on.
Log(t, l) ==
  /\ pc[t] = "client" /\ Runs(t)
  /\ IsEnabled(l)
  /\ Goto(t, "spin")
  /\ UNCHANGED <<platform, kernel, MASK, BUSY, loaded, overtaken>>

\* Mutant: the flag is not waited for.
Spin_NoTest(t) ==
  /\ pc[t] = "spin" /\ Runs(t)
  /\ Goto(t, "claim")
  /\ UNCHANGED <<platform, kernel, MASK, BUSY, loaded, overtaken>>

\* `while BUSY != 0 {}`, one test of it.
Spin(t) ==
  /\ pc[t] = "spin" /\ Runs(t)
  /\ \/ BUSY = 0 /\ Goto(t, "claim")
     \/ BUSY = 1 /\ reloads = 0 /\ Goto(t, "hung")
  /\ UNCHANGED <<platform, kernel, MASK, BUSY, loaded, overtaken>>

\* BUSY = 1.
Claim(t) ==
  /\ pc[t] = "claim" /\ Runs(t)
  /\ BUSY' = 1
  /\ Goto(t, "printing")
  /\ UNCHANGED <<platform, kernel, MASK, loaded, overtaken>>

\* Mutant: a record that CString::new refuses is dropped by an early return,
\* which leaves the flag set.
Finish_EarlyReturn(t) ==
  /\ pc[t] = "printing" /\ Runs(t)
  /\ BUSY' = 0 \/ UNCHANGED BUSY
  /\ Goto(t, "client")
  /\ UNCHANGED <<platform, kernel, MASK, loaded, overtaken>>

\* The record is formatted and printed, or dropped when it holds a NUL and
\* CString::new refuses it; BUSY = 0 in both cases.
Finish(t) ==
  /\ pc[t] = "printing" /\ Runs(t)
  /\ BUSY' = 0
  /\ Goto(t, "client")
  /\ UNCHANGED <<platform, kernel, MASK, loaded, overtaken>>

-----------------------------------------------------------------------------
(* Configuration: each setter reads MASK, and then writes it.              *)

\* The flags that a setter leaves as it has read them.
Keeps(setter) ==
  CASE setter = "set_level_log"    -> {"STATE"}
    [] setter = "set_enable_log"   -> Flags \ {"STATE"}
    [] setter = "set_enable_color" -> Flags \ {"COLOR"}

Load(t, setter) ==
  /\ pc[t] = "client" /\ t \in Configurers /\ Runs(t)
  /\ loaded' = [loaded EXCEPT ![t] = MASK \cap Keeps(setter)]
  /\ Goto(t, setter)
  /\ UNCHANGED <<platform, kernel, MASK, BUSY, overtaken>>

Store(t, setter, mask) ==
  /\ pc[t] = setter /\ Runs(t)
  /\ MASK' = mask
  /\ overtaken' = (overtaken \ {t}) \cup
        {u \in Tasks \ {t} : pc[u] \in Setters /\ ("STATE" \in mask <=> "STATE" \notin MASK)}
  /\ loaded' = [loaded EXCEPT ![t] = {}]
  /\ Goto(t, "client")
  /\ UNCHANGED <<platform, kernel, BUSY>>

\* Mutant: the level is written as it comes.
SetLevelLog_Plain(t, level) == Store(t, "set_level_log", level)

\* (MASK & FLAG_STATE_ON) | (level & !FLAG_STATE_ON): sets COLOR too.
SetLevelLog(t, level) ==
  Store(t, "set_level_log", loaded[t] \cup (level \ {"STATE"}))

SetEnableLog(t) ==
  \/ Store(t, "set_enable_log", loaded[t] \cup {"STATE"})
  \/ Store(t, "set_enable_log", loaded[t])

SetEnableColor(t) ==
  \/ Store(t, "set_enable_color", loaded[t] \cup {"COLOR"})
  \/ Store(t, "set_enable_color", loaded[t])

-----------------------------------------------------------------------------

SysLog(t) == Spin(t) \/ Claim(t) \/ Finish(t)

Configure(t) ==
  \/ \E setter \in Setters : Load(t, setter)
  \/ \E level \in SUBSET Flags : SetLevelLog(t, level)
  \/ SetEnableLog(t)
  \/ SetEnableColor(t)

\* History: whether a task that is past its test of BUSY was suspended, or
\* has run with the priority of another one, since the last moment when no
\* task was there.
Disturb ==
  LET inside == {t \in Tasks : pc'[t] \in {"claim", "printing"}} IN
  disturbed' = \E t \in inside : disturbed \/ t \in suspended' \/ inherits'[t] # t

Step(t) ==
  \/ Sleep(t)
  \/ Wake(t)
  \/ \E u \in Tasks : Block(t, u) \/ Disinherit(t, u)
  \/ Suspend(t)
  \/ Resume(t)
  \/ Delete(t)
  \/ \E l \in Levels : Log(t, l)
  \/ SysLog(t)
  \/ Configure(t)

Next == (\E t \in Tasks : Step(t)) /\ Disturb

Spec == Init /\ [][Next]_vars

\* Time slicing gives every ready task of the highest ready priority its
\* turn, unless client code keeps the scheduler stopped.  Clients need not log,
\* sleep, wake or resume anybody.
FairSpec == Spec /\ \A t \in Tasks : WF_vars(SysLog(t) /\ Disturb)

-----------------------------------------------------------------------------
(* Properties.                                                             *)

StrictPriorities == \A t, u \in Tasks : Priority[t] = Priority[u] => t = u

OnePriority == \A t, u \in Tasks : Priority[t] = Priority[u]

\* With distinct priorities records are printed one at a time, although the
\* flag is tested and set in two steps: a task that is preempted between its
\* test of BUSY and its write finds BUSY clear again when it goes on, because
\* the higher task has left sys_log before it blocks.  What breaks this is
\* named: a task that Thread::suspend stops past its test of BUSY, or that
\* logs while a Mutex it holds lends it the priority of another task.
Exclusion ==
  StrictPriorities /\ ~disturbed =>
    \A t, u \in Tasks : pc[t] = "printing" /\ pc[u] = "printing" => t = u

\* BUSY does not stay set on behalf of nobody: a task is printing, or one was
\* deleted while printing.  This holds for all priorities, and when records
\* overlap, so that the flag is cleared and set under several of them.
BusyHasOwner ==
  BUSY = 1 => \E t \in Tasks : pc[t] \in {"printing", "killed"}

\* With tasks of equal priority, and a build that tests BUSY again, BUSY is
\* always cleared unless a task is suspended or deleted while printing: a
\* spinning caller is never the reason why the flag stays set.
BusyClears ==
  BUSY = 1 /\ OnePriority /\ reloads = 1 ~>
    \/ BUSY = 0
    \/ \E t \in Tasks : pc[t] = "killed" \/ (pc[t] = "printing" /\ t \in suspended)

\* The price of priorities: a task that has the processor, alone at its
\* priority, and spins on BUSY waits for a task that cannot run, since it has
\* a lower priority or is suspended, or for a task deleted while printing, and
\* so for ever.
SpinnerInverted ==
  \A t \in Tasks :
    /\ Runs(t) /\ pc[t] = "spin" /\ BUSY = 1
    /\ \A u \in Tasks : Effective(u) = Effective(t) => u = t
    => \E u \in Tasks :
         \/ pc[u] = "printing" /\ (u \in suspended \/ Effective(u) < Effective(t))
         \/ pc[u] = "killed"

\* Only set_enable_log turns logging on or off: set_level_log keeps it off
\* even when the level has that flag.  They read and write MASK in two steps,
\* so this fails when another task's set_enable_log comes between the two, and
\* only then, however many tasks configure the logger.
StateNeedsEnable ==
  [][\A t \in Tasks \ overtaken :
       pc[t] \in {"set_level_log", "set_enable_color"} =>
         ("STATE" \in MASK' <=> "STATE" \in MASK) \/ UNCHANGED pc[t]]_vars

-----------------------------------------------------------------------------
(* The inductive invariant of configuration.                               *)

\* What a setter that keeps STATE has read of it is still so when it writes,
\* unless it was overtaken.
LoadsAreCurrent ==
  /\ \A t \in Tasks \ overtaken :
       pc[t] \in Setters /\ "STATE" \in Keeps(pc[t]) =>
         ("STATE" \in loaded[t] <=> "STATE" \in MASK)
  /\ \A t \in overtaken : pc[t] \in Setters

-----------------------------------------------------------------------------
(* The inductive invariant of tasks with distinct priorities.              *)

PrintingSetsBusy == \A t \in Tasks : pc[t] = "printing" => BUSY = 1

\* While t prints, a task that has seen BUSY clear did so before t preempted
\* it, and cannot run before t has finished.
ClaimantsBelow ==
  \A t, u \in Tasks :
    pc[t] = "printing" /\ pc[u] \in {"claim", "printing"} /\ t # u =>
      pc[u] = "claim" /\ Priority[u] < Priority[t]

\* The tasks past their test of BUSY are ready, with priorities of their own.
InsideUndisturbed ==
  \A t \in Tasks : pc[t] \in {"claim", "printing"} => t \notin suspended /\ inherits[t] = t

Protocol ==
  StrictPriorities /\ ~disturbed => PrintingSetsBusy /\ ClaimantsBelow /\ InsideUndisturbed

IInv == TypeOK /\ Protocol

=============================================================================

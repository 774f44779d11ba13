-------------------------------- MODULE Clock --------------------------------
(***************************************************************************)
(* The time of osal-rs/src/freertos/system.rs and duration.rs: the tick    *)
(* counter, the conversions between durations and ticks, delays, and       *)
(* check_timer, with which a task asks whether a duration has passed since *)
(* a time-stamp it took.                                                   *)
(*                                                                         *)
(* The counter is TickType wide and wraps.  It stands still while the      *)
(* scheduler is suspended, and catches up when it is resumed; ticks that   *)
(* come during a critical section are lost, but for the last.              *)
(*                                                                         *)
(* Durations are whole milliseconds, but for the correction check_timer    *)
(* makes, which is in microseconds.                                        *)
(***************************************************************************)
EXTENDS Types

CONSTANTS
  Tasks,       \* those that measure time
  Others,      \* those that only suspend the scheduler, or mask interrupts
  None,        \* no task
  Modulus,     \* the number of values of the kernel's TickType_t
  Rates,       \* the values of configTICK_RATE_HZ
  Corrections, \* the microseconds that check_timer adds
  Waits,       \* the durations clients ask for
  Instants,    \* bound: the instants, in hardware ticks, at which somebody acts
  MaxRounds,   \* bound: the calls of delay_until in one loop
  MaxNest      \* bound: the suspensions and sections open at a time

ASSUME ClockAssumption ==
  /\ None \notin Tasks \cup Others /\ Tasks \cap Others = {}
  /\ Modulus \in Nat \ {0} /\ MaxNest \in Nat /\ MaxRounds \in Nat
  /\ Rates \subseteq Nat \ {0} /\ Corrections \subseteq Nat
  /\ Waits \subseteq Nat /\ Instants \subseteq Nat

\* What the generator supposes of the kernel: a TickType_t of four bytes.
ASSUME KernelAssumption == Modulus = ByteValues ^ 4

VARIABLES
  compiles,   \* whether the machine that built the library has gcc
  hz,         \* configTICK_RATE_HZ
  correction, \* 0xff_ff_ff_ff or 0xff_ff_ff_ff_ff_ff_ff_ff, by register_bit_size
  time,       \* history: the ticks of the hardware since the start
  counted,    \* the ticks the kernel has counted: xTickCount, had it no width
  pended,     \* xPendedTicks: those that came while the scheduler was suspended
  latched,    \* 1 if a tick interrupt waits for the end of a critical section
  holder,     \* the task that keeps the others from running, or None
  suspends,   \* uxSchedulerSuspended
  sections,   \* uxCriticalNesting
  clients,    \* what each task is doing
  fault       \* how the system has stopped, or "none"

clockVars == <<compiles, hz, correction, time, counted, pended, latched, holder, suspends,
               sections, clients, fault>>

config == <<compiles, hz, correction>>
kernel == <<time, counted, pended, latched, holder, suspends, sections>>

\* `from` is the count at the time-stamp, or at the last wake-up of a periodic
\* task, and `since` the hardware's time then; `blind` says that the counter
\* stood still when the stamp was taken; `wake` is the count that ends a delay.
Idle == [at |-> "idle", from |-> 0, since |-> 0, blind |-> FALSE, wait |-> 0, wake |-> 0,
         rounds |-> 0]

Doing == {"idle", "timing", "delayed", "slept", "fired", "periodic", "sleeping"}

Activities == [at : Doing, from : Nat, since : Nat, blind : BOOLEAN,
               wait : Waits \cup {0}, wake : Nat, rounds : 0..MaxRounds]

ClockTypeOK ==
  /\ compiles \in BOOLEAN
  /\ hz \in Rates /\ correction \in Corrections
  /\ time \in Nat /\ counted \in 0..time /\ pended \in Nat /\ latched \in {0, 1}
  /\ holder \in Tasks \cup Others \cup {None}
  /\ suspends \in 0..MaxNest /\ sections \in 0..MaxNest
  /\ clients \in [Tasks -> Activities]
  /\ fault \in {"none", "assert", "panic"}

ClockInit ==
  /\ compiles \in BOOLEAN
  /\ hz \in Rates /\ correction \in Corrections
  /\ time = 0 /\ counted = 0 /\ pended = 0 /\ latched = 0
  /\ holder = None /\ suspends = 0 /\ sections = 0
  /\ clients = [t \in Tasks |-> Idle]
  /\ fault = "none"

-----------------------------------------------------------------------------
(* Conversions.  TickType is unsigned.                                     *)

\* The number of values of the library's TickType.
Ticks == ValuesOf(GenerateTypes(compiles).TickType)

Saturated(n) == IF n < Ticks THEN n ELSE Ticks - 1

\* Mutant: the division is forgotten.
ToTicks_Undivided(ms) == Saturated((ms % Ticks) * hz)

\* to_ticks() of Duration.
ToTicks(ms) == Saturated((ms % Ticks) * hz) \div 1000

\* ticks() of Duration.
FromTicks(ticks) == Saturated(ticks * 1000) \div hz

\* xTaskGetTickCount(), and what get_tick_count() makes of it.
Kernel(count) == count % Modulus

TickCount(count) == Kernel(count) % Ticks

\* Mutant: the division comes first.
Milliseconds_WholeSeconds(count) == 1000 * (TickCount(count) \div hz)

\* get_current_time_us(), in milliseconds.  tick_period_ms!() is the rate.
Milliseconds(count) == (1000 * TickCount(count)) \div hz

-----------------------------------------------------------------------------
(* check_timer.                                                            *)

\* The microseconds that check_timer believes have passed.
Passing(from) ==
  LET stamp == Milliseconds(from)
      now   == Milliseconds(counted)
  IN  IF now >= stamp THEN 1000 * (now - stamp)
      ELSE correction - 1000 * stamp + 1000 * now

\* Mutant: a counter that has not wrapped is corrected as well.
Underflows_Always(from) == correction < 1000 * Milliseconds(from)

\* A Duration cannot be negative: its subtraction panics.
Underflows(from) ==
  /\ Milliseconds(counted) < Milliseconds(from)
  /\ correction < 1000 * Milliseconds(from)

CheckTimer(from, wait) == Passing(from) >= 1000 * wait

-----------------------------------------------------------------------------
(* Tasks.                                                                  *)

Runs(t) == holder \in {None, t}

Set(t, doing) == clients' = [clients EXCEPT ![t] = doing]

\* timestamp = get_current_time_us(): `wait` is what the task will wait for.
Stamp(t, wait) ==
  /\ clients[t].at = "idle" /\ Runs(t)
  /\ Set(t, [Idle EXCEPT !.at = "timing", !.from = counted, !.since = time,
                         !.blind = suspends + sections > 0, !.wait = wait])
  /\ UNCHANGED <<config, kernel, fault>>

\* check_timer(&timestamp, &wait).
Poll(t) ==
  /\ clients[t].at \in {"timing", "slept"} /\ Runs(t)
  /\ IF Underflows(clients[t].from)
     THEN fault' = "panic" /\ UNCHANGED clients
     ELSE /\ CheckTimer(clients[t].from, clients[t].wait)
          /\ Set(t, [Idle EXCEPT !.at = "fired"])
          /\ UNCHANGED fault
  /\ UNCHANGED <<config, kernel>>

\* The task is done with its time-stamp, or with its loop.
Forget(t) ==
  /\ clients[t].at \in {"timing", "slept", "fired", "periodic"} /\ Runs(t)
  /\ Set(t, Idle)
  /\ UNCHANGED <<config, kernel, fault>>

\* delay_with_to_tick(wait) after the time-stamp.  vTaskDelay asserts that the
\* scheduler runs, if there is anything to wait for.
Delay(t) ==
  /\ clients[t].at = "timing" /\ Runs(t)
  /\ sections = 0
  /\ LET ticks == ToTicks(clients[t].wait)
     IN  IF suspends > 0 /\ ticks > 0
         THEN fault' = "assert" /\ UNCHANGED clients
         ELSE /\ Set(t, [clients[t] EXCEPT !.at = IF ticks > 0 THEN "delayed" ELSE "slept",
                                           !.wake = counted + ticks])
              /\ UNCHANGED fault
  /\ UNCHANGED <<config, kernel>>

\* xTaskIncrementTick, or xTaskResumeAll for the ticks that were pended.
WakeUp(t) ==
  /\ clients[t].at \in {"delayed", "sleeping"} /\ Runs(t)
  /\ counted >= clients[t].wake
  /\ Set(t, [clients[t] EXCEPT !.at = IF @ = "delayed" THEN "slept" ELSE "periodic",
                               !.wake = 0])
  /\ UNCHANGED <<config, kernel, fault>>

\* previous_wake_time = get_tick_count(), for a loop over delay_until.
Begin(t, wait) ==
  /\ clients[t].at = "idle" /\ Runs(t)
  /\ Set(t, [Idle EXCEPT !.at = "periodic", !.from = counted, !.wait = wait])
  /\ UNCHANGED <<config, kernel, fault>>

\* The decision of xTaskDelayUntil, on what TickType keeps of its arguments.
MustWait(previous, wake) ==
  LET now == Kernel(counted)
  IN  IF now < Kernel(previous)
      THEN Kernel(wake) < Kernel(previous) /\ Kernel(wake) > now
      ELSE Kernel(wake) < Kernel(previous) \/ Kernel(wake) > now

\* Mutant: previous_wake_time is passed by value, and does not advance.
DelayUntil_ByValue(t) ==
  /\ clients[t].at = "periodic" /\ Runs(t)
  /\ sections = 0 /\ clients[t].rounds < MaxRounds
  /\ LET ticks == ToTicks(clients[t].wait)
         wake  == clients[t].from + ticks
     IN  IF suspends > 0 \/ ticks = 0
         THEN fault' = "assert" /\ UNCHANGED clients
         ELSE /\ MustWait(clients[t].from, wake)
              /\ Set(t, [clients[t] EXCEPT
                   !.at = "sleeping", !.rounds = @ + 1,
                   !.wake = counted + ((Kernel(wake) - Kernel(counted)) % Modulus)])
              /\ UNCHANGED fault
  /\ UNCHANGED <<config, kernel>>

\* delay_until_with_to_tick(&mut previous_wake_time, wait): xTaskDelayUntil
\* asserts that the increment is not zero, and that the scheduler runs.
DelayUntil(t) ==
  /\ clients[t].at = "periodic" /\ Runs(t)
  /\ sections = 0 /\ clients[t].rounds < MaxRounds
  /\ LET ticks == ToTicks(clients[t].wait)
         wake  == clients[t].from + ticks
     IN  IF suspends > 0 \/ ticks = 0
         THEN fault' = "assert" /\ UNCHANGED clients
         ELSE /\ IF MustWait(clients[t].from, wake)
                 THEN Set(t, [clients[t] EXCEPT
                        !.at = "sleeping", !.from = wake, !.rounds = @ + 1,
                        !.wake = counted + ((Kernel(wake) - Kernel(counted)) % Modulus)])
                 ELSE Set(t, [clients[t] EXCEPT !.from = wake, !.rounds = @ + 1])
              /\ UNCHANGED fault
  /\ UNCHANGED <<config, kernel>>

-----------------------------------------------------------------------------
(* The scheduler.                                                          *)

\* Hardware ticks up to instant i: the interrupt of the first is latched while
\* interrupts are masked, and those of the others are lost.
Pass(i) ==
  /\ i > time
  /\ time' = i
  /\ IF sections > 0
     THEN latched' = 1 /\ UNCHANGED <<counted, pended>>
     ELSE IF suspends > 0
     THEN pended' = pended + (i - time) /\ UNCHANGED <<counted, latched>>
     ELSE counted' = counted + (i - time) /\ UNCHANGED <<pended, latched>>
  /\ UNCHANGED <<config, holder, suspends, sections, clients, fault>>

CanAct(t) == Runs(t) /\ (t \in Tasks => clients[t].at \notin {"delayed", "sleeping"})

\* suspend_all().
SuspendAll(t) ==
  /\ CanAct(t) /\ suspends + sections < MaxNest
  /\ holder' = t
  /\ suspends' = suspends + 1
  /\ UNCHANGED <<config, time, counted, pended, latched, sections, clients, fault>>

\* Mutant: the pended ticks are counted again by the next resume_all().
ResumeAll_KeepsPended(t) ==
  /\ holder = t /\ suspends > 0
  /\ suspends' = suspends - 1
  /\ holder' = IF suspends > 1 \/ sections > 0 THEN t ELSE None
  /\ counted' = IF suspends = 1 THEN counted + pended ELSE counted
  /\ UNCHANGED <<config, time, pended, latched, sections, clients, fault>>

\* resume_all().
ResumeAll(t) ==
  /\ holder = t /\ suspends > 0
  /\ suspends' = suspends - 1
  /\ holder' = IF suspends > 1 \/ sections > 0 THEN t ELSE None
  /\ counted' = IF suspends = 1 THEN counted + pended ELSE counted
  /\ pended' = IF suspends = 1 THEN 0 ELSE pended
  /\ UNCHANGED <<config, time, latched, sections, clients, fault>>

\* critical_section_enter().
CriticalSectionEnter(t) ==
  /\ CanAct(t) /\ suspends + sections < MaxNest
  /\ holder' = t
  /\ sections' = sections + 1
  /\ UNCHANGED <<config, time, counted, pended, latched, suspends, clients, fault>>

\* critical_section_exit().
CriticalSectionExit(t) ==
  /\ holder = t /\ sections > 0
  /\ sections' = sections - 1
  /\ holder' = IF sections > 1 \/ suspends > 0 THEN t ELSE None
  /\ IF sections > 1 THEN UNCHANGED <<counted, pended, latched>>
     ELSE /\ latched' = 0
          /\ counted' = IF suspends = 0 THEN counted + latched ELSE counted
          /\ pended' = IF suspends > 0 THEN pended + latched ELSE pended
  /\ UNCHANGED <<config, time, suspends, clients, fault>>

-----------------------------------------------------------------------------

ClockStep ==
  \/ \E i \in Instants : Pass(i)
  \/ \E t \in Tasks :
       \/ \E wait \in Waits : Stamp(t, wait) \/ Begin(t, wait)
       \/ Poll(t)
       \/ Forget(t)
       \/ Delay(t)
       \/ WakeUp(t)
       \/ DelayUntil(t)
  \/ \E t \in Tasks \cup Others :
       \/ SuspendAll(t)
       \/ ResumeAll(t)
       \/ CriticalSectionEnter(t)
       \/ CriticalSectionExit(t)

\* A panic, or a failed assertion of the kernel, stops the system.
ClockNext == fault = "none" /\ ClockStep

ClockSpec == ClockInit /\ [][ClockNext]_clockVars

-----------------------------------------------------------------------------
(* Properties.                                                             *)

Waiting(t) == clients[t].at \in {"timing", "slept"}

\* The counter has not wrapped since the task took its time-stamp.
Unwrapped(t) == counted \div Modulus = clients[t].from \div Modulus

\* What the kernel has counted since the time-stamp is what has passed.
Counted(t) ==
  /\ ~clients[t].blind
  /\ counted - clients[t].from = time - clients[t].since

\* check_timer never says too early that a duration has passed, up to the
\* millisecond its time-stamps are rounded to: not across a critical section
\* or a suspension of the scheduler either, unless the stamp was taken in it.
NotEarly ==
  \A t \in Tasks :
    /\ Waiting(t) /\ Unwrapped(t) /\ ~clients[t].blind
    /\ CheckTimer(clients[t].from, clients[t].wait)
    => 1000 * (time - clients[t].since) > hz * (clients[t].wait - 1)

\* check_timer says that a duration has passed, a millisecond after it has at
\* the latest, if no tick has been lost or is pended.
NotLate ==
  \A t \in Tasks :
    /\ Waiting(t) /\ Unwrapped(t) /\ Counted(t)
    /\ 1000 * (time - clients[t].since) >= hz * (clients[t].wait + 1)
    => CheckTimer(clients[t].from, clients[t].wait)

\* check_timer panics only if the counter has wrapped since the time-stamp.
PanicNeedsWrap ==
  fault = "panic" => \E t \in Tasks : Waiting(t) /\ ~Unwrapped(t)

\* The conversion loses nothing: the duration is a whole number of ticks, and
\* neither the duration nor the product overflows TickType.
Exact(ms) == ms * hz < Modulus /\ (ms * hz) % 1000 = 0

\* After delay(wait.to_ticks()), check_timer(&timestamp, &wait) is true, if
\* the conversion loses nothing.
SleptEnough ==
  \A t \in Tasks :
    clients[t].at = "slept" /\ Unwrapped(t) /\ Exact(clients[t].wait)
    => CheckTimer(clients[t].from, clients[t].wait)

\* A time-out given as a Duration is never longer than that, not even when
\* what is left of it is turned back into one, and none is endless, that of
\* MAX_DELAY neither: the saturated product is divided.
TimeoutsBounded ==
  \A t \in Tasks :
    clients[t].at = "delayed" =>
      LET left == clients[t].wake - counted
      IN  /\ 1000 * left <= hz * clients[t].wait
          /\ left > 0 => FromTicks(left) <= clients[t].wait
          /\ left <= (Modulus - 1) \div 1000

\* A loop over delay_until sleeps until the instant it has planned, however
\* late it comes, and whether the counter wraps or not: only a loop that is
\* late by a whole round of the counter sleeps on.
PeriodKept ==
  \A t \in Tasks :
    clients[t].at = "sleeping" =>
      \/ clients[t].wake = clients[t].from
      \/ clients[t].wake >= clients[t].from + Modulus

-----------------------------------------------------------------------------
(* The inductive invariant.                                                *)

\* The count when everybody lets the kernel catch up.
Due == counted + pended + latched

\* Ticks are pended only while the scheduler is suspended, and one is latched
\* only in a critical section; nothing is counted that has not passed.
Bookkeeping ==
  /\ suspends = 0 => pended = 0
  /\ sections = 0 => latched = 0
  /\ Due <= time

\* A time-stamp is of the past.  If the counter ran when it was taken, no more
\* will have been counted since than has passed.
StampsArePast ==
  \A t \in Tasks :
    clients[t].at \in {"timing", "delayed", "slept"} =>
      /\ clients[t].from <= counted
      /\ ~clients[t].blind => Due - clients[t].from <= time - clients[t].since

\* A delay ends that many ticks after the time-stamp, at least, and that many
\* from now, at most.
DelaysAreWhole ==
  \A t \in Tasks :
    LET doing == clients[t]
    IN  /\ doing.at = "delayed" =>
             /\ doing.wake >= doing.from + ToTicks(doing.wait)
             /\ doing.wake <= counted + ToTicks(doing.wait)
        /\ doing.at = "slept" => counted >= doing.from + ToTicks(doing.wait)

\* A loop that runs is past the instant it has planned last.
LoopsArePast == \A t \in Tasks : clients[t].at = "periodic" => clients[t].from <= counted

ClockIInv ==
  /\ ClockTypeOK
  /\ Bookkeeping
  /\ StampsArePast
  /\ DelaysAreWhole
  /\ LoopsArePast
  /\ PeriodKept
  /\ PanicNeedsWrap

=============================================================================

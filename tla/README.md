# Verification of osal-rs

TLA+ modules, TLC configurations and TLAPS proofs for osal-rs, an operating
system abstraction layer that gives Rust programs threads, mutexes, semaphores,
queues, event groups, timers and a logger over FreeRTOS. Paths below are
relative to `src/` (and `freertos/` stands for `src/osal-rs/src/freertos/`).

The library is thin. What can go wrong is not in long algorithms but in how
Rust ownership (values, clones, drops, boxes behind raw pointers) meets a kernel
that keeps its own idea of who owns what, with tasks, interrupt handlers, a
timer daemon and time-outs in between. That is what the modules are about: each
has the Rust side, line by line, the part of the kernel it relies on, and the
clients that may call it in any order that Rust's borrow rules permit.

FreeRTOS itself is not in the repository. Its side of each call is modelled from
how the code uses it (the arguments it gives, the results it tests) and marked
`external` in `PROJECT.json`.

## 1. The system

| component | source | state | operations | modules |
|---|---|---|---|---|
| Mutex | `freertos/mutex.rs` | kernel recursive mutex, the data, the guards alive | new, lock, lock_from_isr, the drops of both guards, Deref/DerefMut, get_mut, drop | `AbstractLock`, `Mutex`, `MutexProofs` |
| Semaphore | `freertos/semaphore.rs` | handle, permits, limit | new, new_with_count, wait, signal, their `_from_isr`, delete, drop | `CountingSemaphore`, `Semaphore`, `SemaphoreProofs` |
| Queue, QueueStreamed | `freertos/queue.rs` | handle, items, size | new, fetch, post, their `_from_isr`, delete, drop | `CountingSemaphore`, `Queue`, `QueueProofs` |
| Event group | `freertos/event_group.rs` | handle, bits, commands queued for the timer daemon | new, set, clear, wait, set/clear_from_isr, delete, drop | `EventGroup`, `EventGroupProofs` |
| Thread | `freertos/thread.rs` | Thread values, boxes behind raw pointers, reference counts, tasks | new, new_with_handle, get_current, clone, spawn, spawn_simple, both wrappers, delete, join, suspend, resume, get_metadata | `Closure`, `Thread`, `System`, `ThreadProofs` |
| Notifications | `freertos/thread.rs`, `src/osal-rs/src/traits/thread.rs` | one value and one state per thread | notify, notify_from_isr, wait_notification | `Notification`, `NotificationProofs` |
| Timer | `freertos/timer.rs`, `osal-rs-porting/freeretos/src/osal_rs_freertos.c` | Timer values, the box in the timer ID, the daemon's queue | new, start, stop, reset, change_period, delete, clone, drop, the callback wrapper | `Timer`, `TimerProofs` |
| Logger | `src/osal-rs/src/log.rs` | the statics `MASK` and `BUSY` | the log macros, sys_log, set_level_log, set_enable_log, set_enable_color | `Log`, `LogProofs` |
| System, lists of tasks | `freertos/system.rs` | none of its own; the kernel's lists of tasks | count_threads, get_all_thread | `System`, `ThreadProofs` |
| System, time | `freertos/system.rs` | none of its own; the kernel's tick counter | get_tick_count, get_current_time_us, check_timer, delay, delay_until, suspend_all, resume_all, critical sections | `Clock`, `TimerProofs` |
| Durations and ticks | `freertos/duration.rs`, `config.rs` | none | to_ticks, ticks | `Clock`, `TimerProofs` |
| Type generator | `osal-rs-build/src/lib.rs` | none | query_type_sizes, size_to_type, generate_types | `Types` |
| Allocator | `freertos/allocator.rs` | the kernel heap | alloc, alloc_zeroed, realloc, dealloc | not modelled |
| Utilities | `src/osal-rs/src/utils.rs` | none | `register_bit_size`; `Bytes`, C-string macros | `Clock`, in part |
| Bindings | `freertos/ffi.rs`, `osal-rs-porting` | none | macros and porting functions between a component and the kernel | with the components that use them |
| POSIX stub, re-exports | `posix*`, `lib.rs` | none | declarations | not modelled |

How they interact: every component calls the kernel through `ffi.rs`. Mutex,
Semaphore and Queue share one kernel object, the queue, and one shape: a call
that may block with a time-out, and a variant for handlers that may not. Timer
and EventGroup share the timer daemon and its bounded command queue: `EventGroup`
has the timers as `OtherCommand`, `Timer` models the daemon for one timer.
Notifications belong to a thread; their state does not touch the life cycle in
`Thread`, so they have their own module. `System` runs beside `Thread`: it reads, in
several kernel calls, what the tasks of `Thread` change in between. The tick counter of `Clock` is
width `TickType`, which the type generator has chosen when the library was built. The logger is called by tasks under the
scheduler's priorities and uses no kernel object.

What is hard here, and tested least (the `hazards` of `PROJECT.json`, each at its
line): a time-out racing the event it waits for; a handler between two steps of
a task; a task deleted while it holds something; a value used after its own
`delete()`; memory behind a raw pointer that a callback may drop; commands the
daemon applies later than they were accepted, or that its full queue refuses;
`BUSY`, tested and then set; and the conversions of time at their limits; `Thread::suspend`
and `Thread::delete`, which stop a task wherever it is. The
tests in `osal-rs-tests` run one call after another on one task, and meet almost
none of this.

## 2. Modules, and how they correspond to the code

Every module has the code's functions as actions under the code's names. A call
that blocks is two or three actions (the call, its success, its time-out) with
`Tick` between, since that is where other tasks and handlers get in; a call that
does not is one action. Ownership supplies guards: what takes `&mut self` or
`self` (delete, drop) happens only while nobody is inside a call (`NobodyInside`),
what takes `&self` happens at any time. A task deleted inside a call never returns what it borrowed
(`"gone"`), since nothing runs its destructors. Where a call takes a raw `TickType` (`fetch`, `post`, `wait`,
`wait_notification`, the commands of timers) its time-out may be the kernel's endless one: `Endless`, a value
beyond `MaxWait` that does not age. A `Duration` never converts to it (`TimeoutsBounded`). Names ending in `_Something` under a
comment "Mutant" are faulty variants of an action, used only to show that
a property can fail.

**Mutex.** The kernel mutex is `items`, `holder`, `depth`. `Lock` blocks for
`MaxDelayTicks`, since `MAX_DELAY.to_ticks()` is finite, and ends in `LockOk` or
`LockFailed`. `lock_from_isr` takes the item of a *recursive* mutex without
becoming its holder, and the two guards give it back by different kernel calls.
`GiveRecursive` is what the kernel does with a drop by a thread that is not the
holder: nothing, and `DropGuard` ignores the answer. `MutexGuard` is `Send`, so
clients may move guards: in half of the behaviours (`moves = 1`) they do. Data
is a counter that contexts read and write back in two steps. `AbstractLock` is
what callers are promised.

Handlers take and give back by `TakeFromIsr` and `GiveFromIsr`, tasks by `Take` and `GiveRecursive`.
A thread may be suspended and resumed in `lock()` (its time runs on), and deleted anywhere.
`get_mut` and `into_inner` need the mutex for themselves (`Unshared`), which Rust's borrows see to.

**Semaphore**, **Queue.** `Queue::new(size, message_size)` calls
`xSemaphoreCreateCounting!(size, message_size)`, so the kernel object is a
counting semaphore with `message_size` permits at the start, and its items have no
content. The model follows the code: `fetch` brings nothing (`Zeros`), the
accounting starts at `initial`. Both modules refine `CountingSemaphore`.
`UBaseType::MAX`, the limit of `new_with_count`, is `MaxCount`. `Semaphore::wait` converts its time-out, so that
it is finite; a queue's may be `Endless`. Callers of a queue are suspended, resumed and deleted in their calls
(`Suspend`, `Resume`, `DeleteCaller`); a waiter of a semaphore that is suspended or deleted is one that takes no
step, which its run, of safety only, has among its behaviours.

**EventGroup.** Set, clear and wait act at once; the `_from_isr` calls append a
command, which `Process` (the daemon) applies later with the bare handle. `wanted`
is the history of what bits would be, had each accepted call acted at once, and
`crossed` names the bits that a task changed while a handler's command on
them was queued. `wait` is always "any bit, clear none". A task suspended inside `wait` is taken off the group's list, and its wait
is over unless a bit had woken it. The daemon is that of the timers: a timer's callback that waits for ever
on the daemon's own queue leaves it `stuck` (`DaemonSticks`, the `"stuck"` of `Timer`), and accepted commands then stay where they are.

**Thread.** `strong` counts the references to each closure as the code makes and
drops them: `self.callback`, the box, the returned value, the two copies of the
wrapper. A task that is deleted leaks what it owns (`leaked`). `phase` follows a
spawn call from "refused" (a NUL in the name) or "failed" (xTaskCreate) to the end
of its task. A kernel call with the handle of a task that is gone is
undefined (`ub`), and the model stops there.
`Closure` is what all this counting is for: the life of a closure, with nothing of who counts. It is new, then given to a
task that has not begun, running, and kept for ever once its task has ended or was lost in the making; it is freed only while unused. `Life` maps the state of `Thread` to it.

**System.** EXTENDS `Thread` with readers, tasks that ask for lists and descriptions. `get_all_thread` is
`CountThreads`, `ListThreads`, and a `ReadName` for each task; steps of `Thread` (`ThreadStep`) come
between them. A task that ended stays in the kernel's list until the idle task buries it (`Bury`);
after that its name may not be read, and the model stops (`gone`).

**Types**, **Clock.** `Types` is the generator: the sizes it finds, with and without gcc, and the types
it chooses. `Clock` takes the range of `TickType` from it. `time` is real time in ticks, `counted` what the kernel
has counted without its width, so that a wrap, a pended tick and a lost tick can be told from one that counts.
`to_ticks`, `ticks` and `get_current_time_us` are operators, with their truncation, saturation and
rounding; `check_timer` compares two readings and corrects for a wrap by the constant that `register_bit_size()`
selects, or panics. Tasks sleep by `delay` and in loops over `delay_until`, whose decision (`MustWait`) is the kernel's.
A task that suspends the scheduler, or is in a critical section, is the only one to run (`holder`).

**Notification.** `wait_notification` is `Wait`, then `Tick`s, then `Return`: the two
critical sections of the kernel's call, with notifications, time-outs and
suspend, resume and delete in between. `use` says what clients do with the value.

**Timer.** The `Timer` values that still have a handle (`live`), those `delete()` has
cleared (`nulled`), the box the timer's ID points to, and the daemon's queue. The
model follows a program to its first undefined behaviour and records its kind in
`ub`; the properties say what it takes to get there. `DropNulled` is the drop of a value that `delete()` has cleared: it sends a delete for the
null handle. A callback runs on the daemon: when it sends a
command to a full queue with a time to wait (`CallbackWaits`) nobody makes room until the time is over
(`WaitTimesOut`), or ever, if the `TickType` it gave is endless (`daemon = "stuck"`).

**Log.** A task steps only while no ready task has a higher priority. Clients block (`Sleep`, `Wake`), and suspend, resume and
delete tasks *anywhere*, inside `sys_log` too. A task that holds a Mutex and logs may run with the priority of one that
waits for it: `Block` lends it (`inherits`), `Disinherit` takes it back. The history `disturbed` says that a task past
its test of `BUSY` was suspended or ran with a lent priority, `overtaken` names the setters that another task's setter has made stale. `Spin`, `Claim`
and `Finish` are the three accesses to `BUSY`; `Load`/`Store` the two to `MASK`.
Because `BUSY` is a plain `static mut`, the compiler may hoist its test out of
the loop: `reloads` says whether this build does. Printing itself is assumed not
to block, which holds of the polling UART output the library is used with.

No module uses a RECURSIVE operator.

## 3. The runs

| run | states | what it shows |
|---|---|---|
| `mutex` | 80,576 | at most one context owns guards; a taken mutex has a guard that will free it; no increment is lost; the kernel mutex stays taken while any thread's guard lives, even one that was moved; the abstract lock is implemented; a blocked `lock()` returns, with or without a guard, even when the holder was deleted, unless its own thread is left suspended |
| `semaphore` | 11,610 | results account for every permit; only the use of a value after `delete()` fails an assertion of the kernel, never its drop; results are those of a counting semaphore |
| `queue` | 53,778 | results account for every item the kernel object has, those it starts with and those lost when `from_bytes` rejects one included; results are those of a counting semaphore with `message_size` permits; calls with a finite time-out return, unless their task is suspended or deleted. None of these says that it is a queue: |
| `queue_data` | violation | `FetchBringsPosted`, which the queue tests assert of a fetch after a post and of one on a fresh queue, fails |
| `event_group` | 79,679 | no task sleeps on a set bit; a woken `wait()` returns a bit it asked for; accepted calls take effect in order and refused ones not at all, except for crossed bits; only reuse faults; a `wait()` with a finite time-out returns unless its task is suspended or deleted in it; an accepted `set_from_isr` takes effect unless the bit is cleared or crossed or the daemon is stuck |
| `thread` (module `System`) | 1,408,788 | the counting of references implements `Closure`: a closure runs at most once, is freed at most once and only if no task was made for it, and nothing refers to it again; a thread that finishes leaks exactly one reference; `get_all_thread` comes back empty only if a task was created after they were counted, not because one ended |
| `thread_join` | violation | `JoinWaits`: `join()` returns without the closure having run |
| `notification` | 59,112 | a mailbox loses, repeats and reorders nothing; a wait that returns a value returns every bit set since the last; `Err(Timeout)` only if there is nothing to receive; a wait with a finite time-out returns unless its thread is suspended or deleted in it |
| `timer` | 105,978 | a timer never cloned, whose callback has not run, gets no command after it is freed; a callback finds its box freed only if the delete that the drop sent is late or was refused; no timer leaks unless a delete was refused; an accepted delete takes effect unless the daemon is stuck |
| `timer_auto` | violation | `AutoReloadKeepsRunning`, which the timer test relies on, fails |
| `clock` | 5,409,824 | `check_timer` is true at most a millisecond early (unless the stamp was taken with the counter stopped) and, unless ticks are lost or pended, at most a millisecond late, as long as the counter has not wrapped; it panics only after a wrap; a delay whose conversion is exact is long enough for `check_timer`; a time-out given as a `Duration` is never longer than that, and none is endless, `MAX_DELAY` neither; `delay_until` sleeps until the planned instant, across a wrap too |
| `log` | 1,194,280 | with distinct priorities records overlap only after a task was suspended past its test of `BUSY`, or logged with a lent priority; a task that spins, alone at its priority, waits for a printer that is below it, suspended or was deleted; with equal priorities and a reloading build `BUSY` is cleared unless its owner is suspended or deleted; with two tasks that configure, `set_level_log` and `set_enable_color` change whether logging is on only if another task's setter changed it since they read `MASK` |

**Bounds.** Two contexts suffice for each race of two, and kernel objects keep no
identity of more: the mutex has two threads *and* two handlers, so that a
handler can be between two of either kind; the semaphore and the logger have three
tasks (two waiting for a third; an inversion needs a task in the middle).
Two of the logger's tasks configure it, for a race of setters is one of two; one level is enough, as levels are alike.
`event_group` has one waiting task and all masks of two bits: bits are set and cleared by anybody (`Set`, `Clear`, the daemon), and two waits
have nothing to do with each other, since no wait clears bits; the theorems are for any number of waiting tasks. The queue of the daemon holds two or three commands: one to apply, one to cross or
to follow a delete, and then it is full. Time-outs are 0, 1 or 2 ticks: none, one
that may expire at once, and one that ages before it expires, with the endless one beyond. Sizes and limits
up to 2 have 0 (refused), 1 (empty is next to full) and 2. A value of two bits
tells a mask, its complement and an increment that wraps apart. Two spawn
calls and two places for Thread values let one value be spawned twice,
cloned and dropped (`thread_join` has a third); `System` adds one reader, and readers do not meet each other. `clock` scales a byte to 4
bits, so that a `TickType` of 4 bytes has 65,536 values: small enough to wrap twice, large enough for
saturation, truncation and exact conversions to be cases of their own. `Waits` has a duration below a tick or a
millisecond, an ordinary one, the width's largest and one beyond it; `Instants` lie around those and around each wrap, and
the task may act at each of them; the rates divide a second into whole milliseconds or not; the corrections are that of a 32-bit
build (the scaled width) and one too large to matter, of a 64-bit build. `MaxNest` allows one suspension
inside a critical section and the reverse. Each `Max...` constant bounds something the code does not bound, in
the guard of one action; none stops a call that is under way.

`CHECK_DEADLOCK FALSE` is set where the system can stop: after a failed kernel
assertion, a panic or undefined behaviour (`event_group`, `timer`, `thread`, `clock`), when every task is deleted
or suspended (`log`), when the thread is (`notification`) and when the bounded clients are done.

**Fairness.** Liveness is checked under `FairSpec`, which asks for what the
platform does: the tick interrupt comes (`WF(Tick)`), a task that is ready
runs, so a call whose wait is over returns (`WF` on the returns), and the daemon
processes its queue, unless it is stuck in a callback. The scheduler,
when it is stopped, is started again. In `Timer` a callback returns (`SF`, since it may wait again and again) and a finite wait of the
daemon for itself ends. Clients are never obliged to do anything: nobody has to signal,
post, unlock, set a bit, notify or resume anybody. So the liveness properties say that a call
with a finite time-out returns by itself, unless its task is suspended (and perhaps never resumed) or deleted. In `Log`, fairness is on the steps inside
`sys_log` only, of tasks that may run under their priorities.

### Findings

* `queue_data`: `Queue::new` (`freertos/queue.rs:54`) creates a counting semaphore with `message_size` permits, so a `fetch` on a
  fresh queue succeeds, against `osal-rs-tests/src/freertos/queue_tests.rs:71`, and no `fetch` brings what was posted, against `:59`.
  Those permits take room: only `size - message_size` messages can be posted (one of the five of `:84`).
* `timer_auto`: the callback wrapper (`freertos/timer.rs:100`) hands over the box that the
  timer ID points to, and its drop deletes the timer: an auto-reload timer
  fires once, against `timer_tests.rs:100`.
* `thread_join`: `join()` (`freertos/thread.rs:365`) deletes the task, while
  `thread.rs:296` documents the threads as similar to those of `std::thread::spawn`.

### Observations

No run is a counterexample to these, but the models and the code they follow show them:

* `lock()` (`freertos/mutex.rs:51`) is not endless, against `traits/mutex.rs:53`: "blocking the current thread until it is able to do so".
  It waits `MAX_DELAY.to_ticks()`, and the saturated product is divided by 1000 (`freertos/duration.rs:31`): 2^32 - 1 milliseconds become at
  most (2^32 - 1) / 1000 ticks, about 72 minutes at 1 kHz. Then it returns `Err(MutexLockFailed)`. `LockReturns` depends on that, and
  `TimeoutsBounded` says so of every duration.
* The drop of a `Timer` sends a delete for the handle (`freertos/timer.rs:189`) that `delete()` has made null (`:178`), and the kernel asserts
  against a null timer. `osal-rs-tests/src/freertos/timer_tests.rs:224` does it: the timer it deletes goes out of scope at the end of the test (`DropNulled`).
* Records of the logger overlap, with distinct priorities too, when a task is suspended between its test of `BUSY` and its write, or
  logs there while a Mutex lends it a priority (`disturbed` in `Exclusion`). A task that is suspended while it prints keeps `BUSY` set,
  and every other task that logs spins; one that is deleted there does so for good.
* `set_level_log` and `set_enable_color` write back what they have read of `MASK`: logging comes on again if another task has turned it off in between
  (`overtaken` in `StateNeedsEnable`).
* `fetch`, `post`, `EventGroup::wait`, `wait_notification` and the commands of timers pass a raw `TickType` on, so `TickType::MAX` waits
  for ever, which no `Duration` does. Given by a timer's callback to its own daemon's full queue, it stops the daemon for all timers and event groups.
* A clone of a `Timer` that sends a command after the delete of another reaches a freed timer (`"cloned"` in `SoleTimerIsSafe`).
* `duration_tests.rs:86` and `:96` hold at 1 kHz, the rate they are written for, and fail at lower ones, such as the 300 Hz of `clock.cfg`.
* `check_timer` corrects for a wrap by 2^32 - 1 microseconds (`freertos/system.rs:183`), but the counter wraps after
  2^32 ticks: on a 32-bit build it panics after a wrap when the stamp, in microseconds, is beyond the correction; on a 64-bit build it is true at once.
* `delay_until` with a duration below a tick passes a zero increment, which the kernel asserts against.
* `get_all_thread` may return no tasks at all, where `osal-rs-tests/src/freertos/system_tests.rs:60` asserts some.
* `get_us_from_tick` returns 0 for 100 ms at 1 kHz, where `system_tests.rs:159` asserts more.
* `get_metadata` of a `Thread` that was not spawned has a null handle and describes the calling task; `stack_depth` is always 0
  (`freertos/thread.rs:83`). `thread_tests.rs:43` and `:44` assert the values given to `new`.
* The generated types say that they are "based on the actual type sizes" (`osal-rs-build/src/lib.rs:293`); the query
  program prints constants. A kernel with another `TickType_t` is not noticed.

## 4. What is proved

Theorems hold for every value of the constants that satisfies the named
assumptions (`MutexAssumption`, ...): any number of tasks, handlers, bits, any queue
length, time-out and limit. The assumptions only say what type a constant has and that
thread, handler and null names differ; one more, `KernelAssumption` of `Clock`, is that the kernel's `TickType_t` has four bytes, which
the type generator prints as a constant (`osal-rs-build/src/lib.rs:107`). Each proof module extends its component and has the same
shape: `IInv` holds initially, each action keeps it, and it implies the property. All type invariants are
proved, so the runs do not check them again. An inductive invariant was checked with TLC on an instance before it was proved.

* **MutexProofs**: `MutualExclusion`, `MutexNeverLost`, `EveryUpdateCounts`, `TypeCorrect`, and
  `Refinement` of `AbstractLock`. Exclusion is not inductive: it rests on the kernel's
  bookkeeping matching the guards. `Kept` says so: a thread owns one guard per
  take (`GuardsAreTakes`), while a thread holds the mutex its item is gone and no handler has a guard
  (`HeldIsTaken`, `IsrsExcluded`), and a mutex taken by no thread is a handler's (`TakenIsOwned`). All of it
  holds for clients that do not move guards (`moves = 0`). For those that do, `GuardsKeepMutex` has an invariant
of its own, `MovedIInv`: a guard dropped on the wrong thread leaves a take behind, so takes and guards no longer match, but there are
never more guards than takes (`TakesCoverGuards`). The guards of all threads are named by pairs, so that their number is
a cardinality and needs no sum; `GuardNames`, `OneMoreGuard`, `OneGuardLess` and `GuardMoves` say how an action changes it.
* **SemaphoreProofs**: `PermitsConserved`, `DropAfterDeleteIsSafe` (`OnlyReuseFaults`: only the use of a value after `delete()` fails
  a kernel assertion, never its drop), `TypeCorrect`, and `Refinement` of `CountingSemaphore`; the invariant adds that a kernel
  object exists exactly while the handle is live, and that nobody waits on a deleted one.
* **QueueProofs**: `NoItemLost`, `DropAfterDeleteIsSafe`, `TypeCorrect`, `Refinement`, likewise.
* **EventGroupProofs**: `AcceptedCallsSettle`, `SetWakesEveryWaiter`, `WokenBringsBit`,
  `DropAfterDeleteIsSafe`, `TypeCorrect`. `Settles` is about the last command on each bit in the queue, and
  about the bits themselves where there is none: so it survives the removal of the head. It needs
  `BitsNeedLive` (a deleted group has nothing on its way), the waits need `WokenHasBit`, and `SuspendedInside` that only tasks taken off the
  group's list are suspended in a wait.
* **LogProofs**: `StrictExclusion`, `SpinIsInversion`, `BusyIsOwned`, `StateIsKept`, `TypeCorrect`. The first rests on `Protocol`, for
  distinct priorities and as long as the section is not `disturbed`: while a task prints, any task that has seen `BUSY` clear has a lower priority
  (`ClaimantsBelow`), is ready and has its own priority (`InsideUndisturbed`), so it cannot run. A disturbance is over when no
  task is in the section, hence the invariant holds again afterwards (`Undisturbed`). `SpinIsInversion` and `BusyIsOwned` need none of that:
  they hold for any priorities, whoever is suspended and whatever is lent. `StateIsKept` is for any number of configuring tasks: `LoadsStayCurrent` says that
  what a setter that keeps the flag of logging (`Keeps`) has loaded agrees with `MASK` about it, unless the setter was overtaken.
* **NotificationProofs**: `MailboxIsExact`, `BitsAllArrive`, `TimeoutIsTrue` (action properties, the last
  two), `TypeCorrect`. `OwedIsThere` says that a bit still owed to the thread is in its value, and
  `WokenHasReason` that a thread out of its wait was notified, ran out of time or was suspended.
* **ThreadProofs**: `RunningClosureIsKept`, `FinishedLeaksOneRef`, `TypeCorrect`. The invariant is an
  account: `Accounted` says that the count of each closure is the number of Thread values that refer to it,
  plus what its task owns, plus what leaked. Each action then changes both sides alike; `RefsChange`, about
  the cardinality of the set of values when one place changes, is the lemma they share. `SystemImplementsThread` shows that each step of `System` is a step of `Thread` or leaves it alone, so that
  all of this holds with readers around (`SystemKeepsClosures`); `EmptyListNeedsBirth` adds `RoomEnough`: the array measured is long enough until a task is created. `Unheard`
  keeps a new closure apart from all values, `LeaksAtEnd` says when references leak. `Refinement` shows that `Thread` implements `Closure`:
  `spawn` maps to `Give`, or to `Replace` if it drops the last reference to an unused closure; `Enter` to `Begin`; a return or a deletion
  to `Finish`, unless the closure has returned before; the drop of a value to `Free` if it is the last one; all other steps leave
  every life as it is. `TaskLife`, `CallLife` and `CountLife` are these three cases. That no clone brings a freed closure back is
  `Referred`: what a place refers to has a count, by `Accounted`.
* **TimerProofs**: `SoleTimerSafe`, `FreedBoxIsLag`, `TimersDoNotLeak`, `TypeCorrect`. `DeleteIsOnItsWay` follows the
  delete of a timer whose box was freed or whose last value is gone until the daemon processes
  it; `OneSender` says that a sole value sends its delete last.

  `TimerProofs` also holds the theorems of `Clock`, for any rates, durations, corrections and instants, `ClockTypeCorrect` and
  `CheckTimerNotEarly`, `CheckTimerNotLate`, `CheckTimerPanics`, `SleepIsEnough`, `TimeoutsAreBounded`, `PeriodIsKept`: the run
  checks them at one width that is small enough to enumerate, the theorems for bytes of any size. `ClockIInv` is a ledger of ticks.
  `Bookkeeping`: what the kernel has counted and pended, and what waits at the end of a critical section (`Due`), is never more
  than the time that has passed, for ticks may be lost. `StampsArePast`: since a time-stamp no more ticks have come, counted or still due, than time has passed, unless the counter stood still when it was taken;
  `DelaysAreWhole`, `LoopsArePast`: a task that has slept has slept all its ticks, and a periodic one has planned from the past. The rest is arithmetic
  of the conversions, in lemmas over numbers: division is monotonic, loses less than the divisor, and rounds time-stamps by less than a
  millisecond each.

Only model-checked are the seven liveness properties (`LockReturns`, `CallsReturn`, `BusyClears`, `WaitReturns` of `Notification` and of
`EventGroup`, `SetTakesEffect`, `DeleteTakesEffect`): liveness under fairness, and `ENABLED`, are outside the prover's reach. Every
safety invariant, action property and refinement that a passing run checks is also a theorem. The three violations are no theorems.

## 5. What is not modelled

* The start and stop of the scheduler, `get_state`, `get_free_heap_size`, `get_us_from_tick`, the two yields of handlers: each passes
  one call to the kernel, or computes, and changes nothing that is modelled.
* `get` of event groups: read-only.
* The allocator: one call to the kernel's for each operation, and a copy in `realloc`; its state is the kernel's heap.
* `Bytes` and the C-string macros: sequential conversions of text (`Bytes<0>` underflows at
  `src/osal-rs/src/utils.rs:161` as soon as there is a byte to copy; no code uses it).
* `print!`/`println!`, the text of log records, debug formatting.
* A log macro called by an interrupt handler, which would spin on `BUSY` above every task: the models of handlers do not log.
* A timer's callback that hands its box to other client code, which would then use and drop it beside the daemon: in `Timer` the callback drops its box or leaks it.
* The boxed clone that stays allocated when `Timer::new` fails: memory that nothing refers to.
* Aliasing of two guards of one thread: `Deref` and `DerefMut` of one context are not interleaved with themselves.
* `wait_notification` on a value that is another thread's: it waits for the calling task, as the kernel offers nothing else.
* A kernel whose `TickType_t` differs in width from the library's `TickType`: `KernelAssumption` says that they are equal, as the generator supposes.
* Where the type generator writes, the bindings that are only declarations, and the POSIX stub.

## 6. Plan

Done: Mutex, Semaphore, Queue, Log, Timer, EventGroup, Thread, Notification, System, Types and Clock, each checked and
proved; the refinements of `AbstractLock`, `CountingSemaphore` (twice) and `Closure`. Next:

1. `Daemon`: timers and event groups behind one command queue, where the `stuck` of `EventGroup` and the `OtherCommand`s in its
   queue are the callbacks and the commands of `Timer`.
2. An abstract specification of what an event group promises through its daemon (`Settles` as a refinement), and one of the mailbox of `Notification`.
3. The life of a timer's box as an abstract specification that `Timer` implements while it is defined.

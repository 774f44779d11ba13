------------------------------- MODULE Timer -------------------------------
(***************************************************************************)
(* osal-rs/src/freertos/timer.rs: one software timer, the Timer values     *)
(* that refer to it, the boxed copy of the Timer that its ID points to,    *)
(* the FreeRTOS timer daemon and its command queue.                        *)
(*                                                                         *)
(* A Timer value is a plain handle that anybody may clone; its drop sends  *)
(* the daemon a delete.  Each callback takes the box back from the ID, and *)
(* what it does with it is up to the client: drop it (which sends a delete *)
(* too, and frees the memory the ID still points to), or leak it.          *)
(*                                                                         *)
(* The model follows the program up to its first undefined behaviour.      *)
(***************************************************************************)
EXTENDS Integers, Sequences

CONSTANTS
  QueueLength,  \* configTIMER_QUEUE_LENGTH
  MaxTimers,    \* bound: Timer values with a handle, at a time
  MaxNulled,    \* bound: Timer values that delete() has cleared
  MaxFired      \* bound: callbacks

ASSUME TimerAssumption ==
  /\ QueueLength \in Nat \ {0}
  /\ MaxTimers \in Nat \ {0}
  /\ MaxNulled \in Nat \ {0}
  /\ MaxFired \in Nat

VARIABLES
  timer,   \* kernel: "none", "dormant", "active" or "freed"
  mode,    \* "oneshot" or "auto"
  queue,   \* commands sent to the daemon and not yet processed
  daemon,  \* "idle"; "callback" while it runs the client's callback; and
           \* there, "waiting" for room in its queue, or "stuck": without end
  live,    \* client: Timer values whose handle is the timer's
  nulled,  \* client: Timer values whose handle delete() has cleared
  box,     \* "none", "registered" (the ID's), "taken" (the callback's),
           \* "nulled" (taken, and deleted there) or "freed"
  fired,   \* history: callbacks begun
  past,    \* history: what has happened, among Events
  ub       \* the first undefined behaviour, or "no"

client == <<live, nulled>>
vars   == <<timer, mode, queue, daemon, client, box, fired, past, ub>>

Commands == {"arm", "stop", "delete"}   \* start, reset, change_period: "arm"

\* new() failed; a Timer was cloned; delete() was called; a delete was
\* refused because the queue was full; a client asked to stop or delete.
Events == {"failed", "cloned", "deleted", "lost", "asked"}

Undefined ==
  { "null",         \* a command for a null handle
    "null drop",    \* the same, sent by a drop
    "freed timer",  \* the daemon processes a command for a freed timer
    "freed box" }   \* a callback takes a box that was freed

TypeOK ==
  /\ timer \in {"none", "dormant", "active", "freed"}
  /\ mode \in {"oneshot", "auto"}
  /\ queue \in Seq(Commands) /\ Len(queue) <= QueueLength
  /\ daemon \in {"idle", "callback", "waiting", "stuck"}
  /\ live \in 0..MaxTimers
  /\ nulled \in 0..MaxNulled
  /\ box \in {"none", "registered", "taken", "nulled", "freed"}
  /\ fired \in 0..MaxFired
  /\ past \subseteq Events
  /\ ub \in {"no"} \cup Undefined

Init ==
  /\ timer = "none" /\ mode = "oneshot"
  /\ queue = <<>>
  /\ daemon = "idle"
  /\ live = 0 /\ nulled = 0
  /\ box = "none"
  /\ fired = 0
  /\ past = {}
  /\ ub = "no"

-----------------------------------------------------------------------------
(* Timer::new.                                                             *)

New(m) ==
  /\ timer = "none"
  /\ timer' = "dormant" /\ mode' = m
  /\ live' = 1 /\ box' = "registered"
  /\ UNCHANGED <<queue, daemon, nulled, fired, past, ub>>

\* xTimerCreate returns NULL.  Err(NullPtr) drops boxed_timer, whose handle is
\* null: drop sends a delete for it.  The clone made for the ID leaks.
NewFails ==
  /\ timer = "none"
  /\ ub' = "null drop"
  /\ past' = past \cup {"failed"}
  /\ UNCHANGED <<timer, mode, queue, daemon, client, box, fired>>

-----------------------------------------------------------------------------
(* Client calls.  A call that waits for room in the queue is a call that   *)
(* is made later.                                                          *)

Full == Len(queue) = QueueLength

DeletePending == \E i \in 1..Len(queue) : queue[i] = "delete"

\* xTimerGenericCommand: pdPASS, or pdFAIL when the queue is full.
Send(command) ==
  queue' = IF Full THEN queue ELSE Append(queue, command)

\* Deletes are noted when they are refused.
SendDelete(events) ==
  /\ Send("delete")
  /\ past' = past \cup events \cup (IF Full THEN {"lost"} ELSE {})

\* #[derive(Clone)].
Clone ==
  /\ live \in 1..(MaxTimers - 1)
  /\ live' = live + 1
  /\ past' = past \cup {"cloned"}
  /\ UNCHANGED <<timer, mode, queue, daemon, nulled, box, fired, ub>>

\* start, reset, change_period and stop.
Command(command) ==
  /\ live > 0
  /\ Send(command)
  /\ past' = past \cup (IF command = "stop" THEN {"asked"} ELSE {})
  /\ UNCHANGED <<timer, mode, daemon, client, box, fired, ub>>

\* delete(): the handle is null afterwards, whether the command was accepted
\* or not.
Delete ==
  /\ live > 0 /\ nulled < MaxNulled
  /\ SendDelete({"deleted", "asked"})
  /\ live' = live - 1 /\ nulled' = nulled + 1
  /\ UNCHANGED <<timer, mode, daemon, box, fired, ub>>

\* Mutant: drop only forgets the handle.
DropTimer_Forgets ==
  /\ live > 0
  /\ live' = live - 1
  /\ past' = past \cup {"asked"}
  /\ UNCHANGED <<timer, mode, queue, daemon, nulled, box, fired, ub>>

\* Mutant: drop sends its delete twice.
DropTimer_Twice ==
  /\ live > 0
  /\ queue' = IF Len(queue) + 2 > QueueLength THEN queue ELSE queue \o <<"delete", "delete">>
  /\ past' = past \cup {"asked"} \cup (IF queue' = queue THEN {"lost"} ELSE {})
  /\ live' = live - 1
  /\ UNCHANGED <<timer, mode, daemon, nulled, box, fired, ub>>

\* Drop: delete(0).
DropTimer ==
  /\ live > 0
  /\ SendDelete({"asked"})
  /\ live' = live - 1
  /\ UNCHANGED <<timer, mode, daemon, nulled, box, fired, ub>>

\* Drop of a Timer that delete() has cleared: it does not look at the handle,
\* and sends another delete.
DropNulled ==
  /\ nulled > 0
  /\ ub' = "null drop"
  /\ UNCHANGED <<timer, mode, queue, daemon, client, box, fired, past>>

\* Any other call on such a Timer.
UseNulled ==
  /\ nulled > 0
  /\ ub' = "null"
  /\ UNCHANGED <<timer, mode, queue, daemon, client, box, fired, past>>

-----------------------------------------------------------------------------
(* The daemon and the callback.                                            *)

\* The timer expires.  callback_c_wrapper takes the box from the ID.  A late
\* daemon may expire an auto-reload timer again before it looks at its queue.
Expire ==
  /\ daemon = "idle" /\ timer = "active" /\ fired < MaxFired
  /\ timer' = IF mode = "auto" THEN "active" ELSE "dormant"
  /\ fired' = fired + 1
  /\ IF box = "registered"
       THEN daemon' = "callback" /\ box' = "taken" /\ UNCHANGED ub
       ELSE ub' = "freed box" /\ UNCHANGED <<daemon, box>>
  /\ UNCHANGED <<mode, queue, client, past>>

\* The callback uses the Timer it was given.
CallbackCommand(command) ==
  /\ box = "taken" /\ daemon = "callback"
  /\ Send(command)
  /\ past' = past \cup (IF command = "stop" THEN {"asked"} ELSE {})
  /\ UNCHANGED <<timer, mode, daemon, client, box, fired, ub>>

CallbackDelete ==
  /\ box = "taken" /\ daemon = "callback"
  /\ SendDelete({"deleted", "asked"})
  /\ box' = "nulled"
  /\ UNCHANGED <<timer, mode, daemon, client, fired, ub>>

\* A command, with a time to wait, from the callback: it runs on the daemon, so
\* that nobody makes room while it waits.  The command is refused when the time
\* has passed; only the caller's own TickType can make that time endless.
CallbackWaits(command) ==
  /\ box = "taken" /\ daemon = "callback" /\ Full
  /\ daemon' \in {"waiting", "stuck"}
  /\ IF command = "delete"
       THEN box' = "nulled" /\ past' = past \cup {"deleted", "asked", "lost"}
       ELSE /\ past' = past \cup (IF command = "stop" THEN {"asked"} ELSE {})
            /\ UNCHANGED box
  /\ UNCHANGED <<timer, mode, queue, client, fired, ub>>

WaitTimesOut ==
  /\ daemon = "waiting"
  /\ daemon' = "callback"
  /\ UNCHANGED <<timer, mode, queue, client, box, fired, past, ub>>

\* Mutant: the box is freed without its drop being run.
CallbackDrops_NoDrop ==
  /\ daemon = "callback"
  /\ daemon' = "idle"
  /\ box' = "freed"
  /\ UNCHANGED <<timer, mode, queue, client, fired, past, ub>>

\* The callback returns and its Box<dyn Timer> is dropped.
CallbackDrops ==
  /\ daemon = "callback"
  /\ daemon' = "idle"
  /\ box' = "freed"
  /\ IF box = "taken"
       THEN SendDelete({}) /\ UNCHANGED ub
       ELSE ub' = "null drop" /\ UNCHANGED <<queue, past>>
  /\ UNCHANGED <<timer, mode, client, fired>>

\* The callback leaks its box: the ID's pointer stays good.  (If it has
\* deleted the timer first, the wrapper sets the handle again.)
CallbackLeaks ==
  /\ daemon = "callback"
  /\ daemon' = "idle"
  /\ box' = "registered"
  /\ UNCHANGED <<timer, mode, queue, client, fired, past, ub>>

\* Mutant: the daemon only stops an active timer that it is to delete.
Process_StopsActive ==
  /\ daemon = "idle" /\ queue # <<>>
  /\ queue' = Tail(queue)
  /\ timer' = CASE Head(queue) = "arm" -> "active"
                [] Head(queue) = "stop" -> "dormant"
                [] Head(queue) = "delete" -> IF timer = "active" THEN "dormant" ELSE "freed"
  /\ UNCHANGED <<mode, daemon, client, box, fired, past, ub>>

\* The daemon processes the oldest command.
Process ==
  /\ daemon = "idle" /\ queue # <<>>
  /\ queue' = Tail(queue)
  /\ IF timer = "freed"
       THEN ub' = "freed timer" /\ UNCHANGED timer
       ELSE /\ timer' = CASE Head(queue) = "arm" -> "active"
                          [] Head(queue) = "stop" -> "dormant"
                          [] Head(queue) = "delete" -> "freed"
            /\ UNCHANGED ub
  /\ UNCHANGED <<mode, daemon, client, box, fired, past>>

-----------------------------------------------------------------------------

Step ==
  \/ \E m \in {"oneshot", "auto"} : New(m)
  \/ NewFails
  \/ Clone
  \/ \E command \in {"arm", "stop"} : Command(command)
  \/ Delete
  \/ DropTimer
  \/ DropNulled
  \/ UseNulled
  \/ Expire
  \/ \E command \in {"arm", "stop"} : CallbackCommand(command)
  \/ CallbackDelete
  \/ \E command \in Commands : CallbackWaits(command)
  \/ WaitTimesOut
  \/ CallbackDrops
  \/ CallbackLeaks
  \/ Process

\* Nothing is said of a program after its first undefined behaviour.
Next == ub = "no" /\ Step

Spec == Init /\ [][Next]_vars

\* The daemon is run: callbacks return, commands are processed, and a time that
\* is not endless passes.  A callback returns however often it has waited.
FairSpec ==
  /\ Spec
  /\ WF_vars(ub = "no" /\ WaitTimesOut)
  /\ SF_vars(ub = "no" /\ (CallbackDrops \/ CallbackLeaks))
  /\ WF_vars(ub = "no" /\ Process)

-----------------------------------------------------------------------------
(* Properties.                                                             *)

\* The use of one Timer value is safe.  A timer that was never cloned and
\* whose callback has not run is freed by its only Timer value, with nothing
\* sent after the delete: the daemon never processes a command for a freed
\* timer.  (What is not safe is to drop a value that delete() has cleared, as
\* timer_tests.rs:224 does: DropNulled, the undefined behaviour "null drop".)
SoleTimerIsSafe == ub = "freed timer" => fired > 0 \/ "cloned" \in past

\* A callback finds its box freed only if the delete that the drop of the box
\* has sent is still in the queue (the daemon is late), or was refused: the
\* delete is all that protects the pointer in the ID.
FreedBoxNeedsLag ==
  ub = "freed box" =>
    "lost" \in past \/ DeletePending

\* No timer is left behind: when no Timer value refers to it any more and the
\* daemon has nothing to do, it is freed, unless a delete was refused by a
\* full queue, which is not tried again.
NoTimerLeak ==
  timer \in {"dormant", "active"} /\ live = 0 /\ queue = <<>> /\ ub = "no" => "lost" \in past

\* A delete the queue has accepted takes effect, or the program is undefined,
\* or a callback has stopped the daemon, and all timers, by an endless wait.
DeleteTakesEffect ==
  DeletePending ~> timer = "freed" \/ ub # "no" \/ daemon = "stuck"

\* What test_timer_auto_reload relies on to see `count >= 2`: an auto-reload
\* timer that has fired stays active while nobody asks to stop or delete it.
AutoReloadKeepsRunning ==
  mode = "auto" /\ fired > 0 /\ "asked" \notin past => timer = "active"

-----------------------------------------------------------------------------
(* The inductive invariant.                                                *)

\* There is nothing before Timer::new has returned, but what it left behind
\* when it failed.
NothingBefore ==
  IF timer = "none" THEN /\ live = 0 /\ nulled = 0 /\ queue = <<>>
                         /\ box = "none" /\ past \subseteq {"failed"}
                    ELSE box # "none"

\* The daemon runs a callback exactly while the callback has the box, and
\* no box was touched before the first.
BoxIsLent ==
  /\ daemon # "idle" <=> box \in {"taken", "nulled"}
  /\ fired = 0 => box \in {"none", "registered"}

\* While no callback has run and nothing was cloned there is one Timer value
\* that sends, and its last command is its delete.
OneSender ==
  fired = 0 /\ "cloned" \notin past =>
    /\ live <= 1 /\ ub # "freed timer"
    /\ live = 1 => ~DeletePending /\ timer # "freed"
    /\ timer = "freed" => queue = <<>>
    /\ \A i \in 1..Len(queue) : queue[i] = "delete" => i = Len(queue)

\* A delete was sent before the box was freed, and when the last Timer value
\* went; until the daemon sees to it it is in the queue.
DeleteIsOnItsWay ==
  "lost" \notin past /\ timer # "freed" /\ (box \in {"nulled", "freed"} \/ (live = 0 /\ timer # "none")) =>
    DeletePending

\* A callback without its box is one whose box was freed.
FaultIsFreedBox == ub = "freed box" => box = "freed" /\ timer # "freed"

IInv ==
  /\ TypeOK
  /\ NothingBefore
  /\ BoxIsLent
  /\ OneSender
  /\ DeleteIsOnItsWay
  /\ FaultIsFreedBox

=============================================================================

---------------------------- MODULE Notification ----------------------------
(***************************************************************************)
(* osal-rs/src/freertos/thread.rs: notify, notify_from_isr and             *)
(* wait_notification on one thread.  The kernel keeps one 32-bit value and *)
(* one state for it; anybody notifies, only the thread itself waits, in    *)
(* two critical sections between which others may act.                     *)
(*                                                                         *)
(* A value is the set of its bits.  Clients agree on one use of it: its    *)
(* bits as events, the value as a mailbox, or anything.                    *)
(***************************************************************************)
EXTENDS Integers, Sequences

CONSTANTS
  Width,    \* bound: bits in a value, 32 in the code
  MaxWait,  \* bound: the longest finite time-out in ticks
  MaxMail   \* bound: values accepted without overwriting

ASSUME NotificationAssumption ==
  /\ Width \in Nat \ {0}
  /\ MaxWait \in Nat
  /\ MaxMail \in Nat

\* portMAX_DELAY, which the kernel takes for no time-out: wait_notification
\* takes any TickType, although no Duration converts to this one.
Endless == MaxWait + 1

VARIABLES
  use,       \* client: "bits", "mail" or "any"
  value,     \* kernel: ulNotifiedValue
  note,      \* kernel: ucNotifyState, "none", "waiting" or "received"
  pc,        \* the thread: "ready", "blocked", "woken", "stopped" (suspended
             \* inside the call) or "gone" (deleted inside the call)
  remaining, \* the ticks it will still wait
  onExit,    \* bits_to_clear_on_exit of the call under way
  result,    \* what wait_notification last returned
  stopped,   \* history: was the thread suspended during the call under way?
  owed,      \* history: bits set since a wait last returned a value
  sent, got  \* history: values notified without overwriting, and received

kernel  == <<value, note>>
thread  == <<pc, remaining, onExit, result, stopped>>
history == <<owed, sent, got>>
vars    == <<use, kernel, thread, history>>

Values == SUBSET (0..(Width - 1))

\* The actions of ThreadNotification.
Actions == {"NoAction", "SetBits", "Increment", "WithOverwrite", "WithoutOverwrite"}

Allowed ==
  CASE use = "bits" -> {"SetBits", "NoAction"}
    [] use = "mail" -> {"WithoutOverwrite"}
    [] use = "any"  -> Actions

TypeOK ==
  /\ use \in {"bits", "mail", "any"}
  /\ value \in Values
  /\ note \in {"none", "waiting", "received"}
  /\ pc \in {"ready", "blocked", "stopped", "woken", "gone"}
  /\ remaining \in 0..Endless
  /\ onExit \in Values
  /\ result \in [ok : BOOLEAN, value : Values]
  /\ stopped \in BOOLEAN
  /\ owed \in Values
  /\ sent \in Seq(Values) /\ Len(sent) <= MaxMail
  /\ got \in Seq(Values) /\ Len(got) <= MaxMail

Timeout == [ok |-> FALSE, value |-> {}]

Init ==
  /\ use \in {"bits", "mail", "any"}
  /\ value = {} /\ note = "none"
  /\ pc = "ready" /\ remaining = 0 /\ onExit = {}
  /\ result = Timeout /\ stopped = FALSE
  /\ owed = {} /\ sent = <<>> /\ got = <<>>

-----------------------------------------------------------------------------
(* Notifying.                                                              *)

\* The value plus one, modulo 2^Width.
Incremented(v) ==
  {i \in 0..(Width - 1) : (i \in v) # (\A j \in 0..(i - 1) : j \in v)}

Applied(action, v) ==
  CASE action = "SetBits"   -> value \cup v
    [] action = "Increment" -> Incremented(value)
    [] action = "NoAction"  -> value
    [] OTHER                -> v

\* Mutant: SetValueWithoutOverwrite becomes the action of SetValueWithOverwrite.
Accepts_Overwrites(action) == TRUE

\* xTaskGenericNotify and its FromISR variant: only a value that is not to be
\* overwritten can be refused.
Accepts(action) == action = "WithoutOverwrite" => note # "received"

Delivered(action, v) ==
  /\ value' = Applied(action, v)
  /\ note' = "received"
  /\ pc' = IF note = "waiting" THEN "woken" ELSE pc
  /\ owed' = IF action = "SetBits" THEN owed \cup v ELSE owed
  /\ sent' = IF use = "mail" THEN Append(sent, v) ELSE sent
  /\ UNCHANGED <<use, remaining, onExit, result, stopped, got>>

\* notify() and notify_from_isr(): Ok(()), or Err(QueueFull).  With the handle
\* of a deleted thread they are undefined (see Thread).
Notify(action, v) ==
  /\ pc # "gone"
  /\ action \in Allowed
  /\ use = "mail" => Len(sent) < MaxMail
  /\ \/ Accepts(action) /\ Delivered(action, v)
     \/ ~Accepts(action) /\ UNCHANGED vars

-----------------------------------------------------------------------------
(* Waiting: xTaskGenericNotifyWait.                                        *)

\* Mutant: the bits to clear on entry are cleared although a notification has
\* been received.
Wait_ClearsFirst(entry, exit, n) ==
  /\ pc = "ready"
  /\ onExit' = exit /\ stopped' = FALSE
  /\ value' = value \ entry
  /\ IF note = "received"
       THEN pc' = "woken" /\ UNCHANGED <<note, remaining>>
       ELSE /\ note' = "waiting"
            /\ pc' = IF n > 0 THEN "blocked" ELSE "woken"
            /\ remaining' = n
  /\ UNCHANGED <<use, result, history>>

\* The first critical section, and the decision to block.
Wait(entry, exit, n) ==
  /\ pc = "ready"
  /\ onExit' = exit /\ stopped' = FALSE
  /\ IF note = "received"
       THEN pc' = "woken" /\ UNCHANGED <<value, note, remaining>>
       ELSE /\ value' = value \ entry
            /\ note' = "waiting"
            /\ pc' = IF n > 0 THEN "blocked" ELSE "woken"
            /\ remaining' = n
  /\ UNCHANGED <<use, result, history>>

\* The tick interrupt; an endless wait does not age.
Tick ==
  /\ pc = "blocked" /\ remaining # Endless
  /\ remaining' = remaining - 1
  /\ pc' = IF remaining = 1 THEN "woken" ELSE "blocked"
  /\ UNCHANGED <<use, kernel, onExit, result, stopped, history>>

\* What suspend() and delete() leave of the thread's state: nobody waits any
\* more, and what has been received stays.
NotWaiting == note' = IF note = "waiting" THEN "none" ELSE note

\* suspend() of a thread inside the call takes it out of its wait, if it is
\* still blocked; notifications go on being received, but do not wake it.
Suspend ==
  /\ pc \in {"blocked", "woken"}
  /\ pc' = "stopped" /\ stopped' = TRUE
  /\ NotWaiting
  /\ UNCHANGED <<use, value, remaining, onExit, result, history>>

\* resume() does not put it back: the wait is over.
Resume ==
  /\ pc = "stopped"
  /\ pc' = "woken"
  /\ UNCHANGED <<use, kernel, remaining, onExit, result, stopped, history>>

\* Thread::delete of a thread inside the call.
Delete ==
  /\ pc \in {"blocked", "woken", "stopped"}
  /\ pc' = "gone"
  /\ NotWaiting
  /\ UNCHANGED <<use, value, remaining, onExit, result, stopped, history>>

\* Mutant: a time-out is decided by the clock alone.
Return_ByClock ==
  /\ pc = "woken"
  /\ pc' = "ready" /\ remaining' = 0
  /\ result' = Timeout
  /\ note' = "none"
  /\ UNCHANGED <<use, value, onExit, stopped, history>>

\* Mutant: wait_notification waits again until it has a value.
Return_Retries ==
  /\ pc = "woken"
  /\ \/ /\ note = "received" /\ note' = "none"
        /\ pc' = "ready" /\ remaining' = 0
        /\ result' = [ok |-> TRUE, value |-> value]
     \/ /\ note # "received" /\ note' = "waiting"
        /\ pc' = "blocked" /\ remaining' = MaxWait
        /\ UNCHANGED result
  /\ UNCHANGED <<use, value, onExit, stopped, history>>

\* The second critical section: Ok(value) if a notification has been received
\* by now, else Err(Timeout).
Return ==
  /\ pc = "woken"
  /\ pc' = "ready" /\ remaining' = 0
  /\ note' = "none"
  /\ \/ /\ note = "received"
        /\ result' = [ok |-> TRUE, value |-> value]
        /\ value' = value \ onExit
        /\ owed' = {}
        /\ got' = IF use = "mail" THEN Append(got, value) ELSE got
     \/ /\ note # "received"
        /\ result' = Timeout
        /\ UNCHANGED <<value, owed, got>>
  /\ UNCHANGED <<use, onExit, stopped, sent>>

-----------------------------------------------------------------------------

Next ==
  \/ \E action \in Actions, v \in Values : Notify(action, v)
  \/ \E entry, exit \in Values, n \in 0..Endless : Wait(entry, exit, n)
  \/ Tick
  \/ Suspend
  \/ Resume
  \/ Delete
  \/ Return

Spec == Init /\ [][Next]_vars

\* The tick interrupt keeps coming, and a woken thread is run.  Nothing makes
\* anybody notify or resume.
FairSpec ==
  /\ Spec
  /\ WF_vars(Tick)
  /\ WF_vars(Return)

-----------------------------------------------------------------------------
(* Properties.                                                             *)

\* A mailbox: every value notify() has accepted is received once, in order,
\* or is still there, whatever the masks and time-outs of the waits.
MailExact ==
  use = "mail" => sent = got \o (IF note = "received" THEN <<value>> ELSE <<>>)

Returns == pc = "woken" /\ pc' = "ready"

\* Events: a wait that returns a value returns every bit set since a wait last
\* did, whatever bits the waits clear on entry and on exit, and whatever waits
\* timed out in between.
BitsArrive ==
  [][Returns /\ result'.ok /\ use = "bits" => owed \subseteq result'.value]_vars

\* wait_notification returns Err(Timeout) only if no notification has been
\* received, and if its time is over or the thread was suspended meanwhile.
TimeoutMissesNothing ==
  [][Returns /\ ~result'.ok => note # "received" /\ (remaining = 0 \/ stopped)]_vars

\* A blocked wait_notification with a finite time-out returns, unless its
\* thread is suspended or deleted in it.
WaitReturns == pc = "blocked" /\ remaining # Endless ~> pc \in {"ready", "stopped", "gone"}

-----------------------------------------------------------------------------
(* The inductive invariant.                                                *)

\* The kernel waits on behalf of a thread inside the call.
WaitingInside ==
  /\ note = "waiting" => pc \in {"blocked", "woken"}
  /\ pc = "blocked" => note = "waiting" /\ remaining > 0

\* A thread that is woken without a notification has used up its time, or was
\* suspended.
WokenHasReason ==
  /\ pc = "woken" /\ note # "received" => remaining = 0 \/ stopped
  /\ pc = "stopped" => stopped

\* Bits that no wait has returned are in the value, and are announced.
OwedIsThere == use = "bits" /\ owed # {} => note = "received" /\ owed \subseteq value

IInv ==
  /\ TypeOK
  /\ MailExact
  /\ WaitingInside
  /\ WokenHasReason
  /\ OwedIsThere

=============================================================================

------------------------- MODULE NotificationProofs -------------------------
(***************************************************************************)
(* Theorems of Notification, for any width of the value, any time-outs and *)
(* any length of a mailbox.                                                *)
(***************************************************************************)
EXTENDS Notification, TLAPS, SequenceTheorems

USE NotificationAssumption DEF NotificationAssumption, Endless

LEMMA IInvInit == Init => IInv
<1> SUFFICES ASSUME Init PROVE IInv
  OBVIOUS
<1>1. TypeOK
  <2>1. {} \in Values
    BY DEF Values
  <2>2. Timeout \in [ok : BOOLEAN, value : Values]
    BY <2>1 DEF Timeout
  <2>3. <<>> \in Seq(Values) /\ Len(<<>>) <= MaxMail
    OBVIOUS
  <2>4. 0 \in 0..Endless
    OBVIOUS
  <2> QED
    BY <2>1, <2>2, <2>3, <2>4 DEF Init, TypeOK
<1>2. MailExact
  BY DEF Init, MailExact
<1> QED
  BY <1>1, <1>2 DEF Init, IInv, WaitingInside, WokenHasReason, OwedIsThere

-----------------------------------------------------------------------------
(* One lemma per action.                                                   *)

\* Masks and notified values leave a value a value.
LEMMA ValuesClosed ==
  ASSUME NEW v \in Values, NEW w \in Values
  PROVE  /\ v \cup w \in Values
         /\ v \ w \in Values
         /\ {} \in Values
         /\ Incremented(v) \in Values
  BY DEF Values, Incremented

LEMMA NotifyStep ==
  ASSUME IInv, NEW action \in Actions, NEW v \in Values, Notify(action, v)
  PROVE  IInv'
<1>1. CASE UNCHANGED vars
  BY <1>1 DEF vars, kernel, thread, history, IInv, TypeOK, Values, MailExact,
     WaitingInside, WokenHasReason, OwedIsThere
<1>2. CASE Accepts(action) /\ Delivered(action, v)
  <2>1. Applied(action, v) \in Values
    BY ValuesClosed DEF Applied, IInv, TypeOK
  <2>2. /\ value' = Applied(action, v) /\ note' = "received"
        /\ pc' = IF note = "waiting" THEN "woken" ELSE pc
        /\ owed' = IF action = "SetBits" THEN owed \cup v ELSE owed
        /\ sent' = IF use = "mail" THEN Append(sent, v) ELSE sent
        /\ UNCHANGED <<use, remaining, onExit, result, stopped, got>>
    BY <1>2 DEF Delivered
  <2>3. use = "mail" => action = "WithoutOverwrite" /\ note # "received"
    BY <1>2 DEF Notify, Allowed, Accepts
  <2>4. use = "bits" => action \in {"SetBits", "NoAction"}
    BY DEF Notify, Allowed
  <2>5. use = "mail" => Len(sent) < MaxMail
    BY DEF Notify
  <2>6. TypeOK'
    <3>1. sent' \in Seq(Values) /\ Len(sent') <= MaxMail
      BY <2>2, <2>5, AppendProperties DEF IInv, TypeOK
    <3>2. owed' \in Values
      BY <2>2, ValuesClosed DEF IInv, TypeOK
    <3>3. Values' = Values
      BY DEF Values
    <3> QED
      BY <2>1, <2>2, <3>1, <3>2, <3>3 DEF IInv, TypeOK
  <2>7. MailExact'
    <3> SUFFICES ASSUME use = "mail"
                 PROVE  sent' = got' \o <<value'>>
      BY <2>2 DEF MailExact
    <3>1. sent = got
      BY <2>3, ConcatEmptySeq DEF IInv, TypeOK, MailExact
    <3>2. value' = v
      BY <2>2, <2>3 DEF Applied
    <3> QED
      BY <2>2, <3>1, <3>2, AppendIsConcat DEF IInv, TypeOK
  <2>8. OwedIsThere'
    BY <2>2, <2>4 DEF Applied, IInv, OwedIsThere
  <2>9. WaitingInside' /\ WokenHasReason'
    BY <2>2 DEF IInv, TypeOK, WaitingInside, WokenHasReason
  <2> QED
    BY <2>6, <2>7, <2>8, <2>9 DEF IInv
<1> QED
  BY <1>1, <1>2 DEF Notify

LEMMA WaitStep ==
  ASSUME IInv, NEW entry \in Values, NEW exit \in Values, NEW n \in 0..Endless,
         Wait(entry, exit, n)
  PROVE  IInv'
<1>1. /\ pc = "ready" /\ onExit' = exit /\ stopped' = FALSE
      /\ UNCHANGED <<use, result, owed, sent, got>>
  BY DEF Wait, history
<1>2. \/ /\ note = "received" /\ pc' = "woken"
         /\ UNCHANGED <<value, note, remaining>>
      \/ /\ note # "received" /\ note' = "waiting"
         /\ value' = value \ entry
         /\ pc' = IF n > 0 THEN "blocked" ELSE "woken"
         /\ remaining' = n
  BY DEF Wait
<1>3. TypeOK'
  <2>1. value' = value \/ value' = value \ entry
    BY <1>2
  <2>2. value \in Values /\ value \ entry \in Values
    BY ValuesClosed DEF IInv, TypeOK
  <2>3. Values' = Values
    BY DEF Values
  <2> QED
    BY <1>1, <1>2, <2>1, <2>2, <2>3 DEF IInv, TypeOK
<1>4. MailExact'
  BY <1>1, <1>2 DEF IInv, MailExact
<1>5. WaitingInside' /\ WokenHasReason'
  BY <1>1, <1>2 DEF IInv, WaitingInside, WokenHasReason
<1>6. OwedIsThere'
  BY <1>1, <1>2 DEF IInv, OwedIsThere
<1> QED
  BY <1>3, <1>4, <1>5, <1>6 DEF IInv

\* What happens to a thread inside the call.
LEMMA MeanwhileStep ==
  ASSUME IInv, Tick \/ Suspend \/ Resume \/ Delete
  PROVE  IInv'
<1>1. UNCHANGED <<use, value, onExit, result, owed, sent, got>>
  BY DEF Tick, Suspend, Resume, Delete, kernel, history
<1>2. note' = note \/ (note = "waiting" /\ note' = "none")
  BY DEF Tick, Suspend, Resume, Delete, NotWaiting, kernel
<1>3. TypeOK'
  <2>1. Values' = Values
    BY DEF Values
  <2>2. remaining' \in 0..Endless
    BY DEF Tick, Suspend, Resume, Delete, IInv, TypeOK, WaitingInside
  <2>3. pc' \in {"ready", "blocked", "stopped", "woken", "gone"} /\ stopped' \in BOOLEAN
    BY DEF Tick, Suspend, Resume, Delete, IInv, TypeOK
  <2> QED
    BY <1>1, <1>2, <2>1, <2>2, <2>3 DEF IInv, TypeOK
<1>4. MailExact' /\ OwedIsThere'
  BY <1>1, <1>2 DEF IInv, MailExact, OwedIsThere
<1>5. WaitingInside' /\ WokenHasReason'
  <2>1. CASE Tick
    BY <2>1 DEF Tick, kernel, IInv, TypeOK, WaitingInside, WokenHasReason
  <2>2. CASE Suspend \/ Delete
    BY <2>2 DEF Suspend, Delete, NotWaiting, IInv, TypeOK, WaitingInside, WokenHasReason
  <2>3. CASE Resume
    BY <2>3 DEF Resume, kernel, IInv, WaitingInside, WokenHasReason
  <2> QED
    BY <2>1, <2>2, <2>3
<1> QED
  BY <1>3, <1>4, <1>5 DEF IInv

LEMMA ReturnStep ==
  ASSUME IInv, Return
  PROVE  IInv'
<1>1. /\ pc' = "ready" /\ remaining' = 0 /\ note' = "none"
      /\ UNCHANGED <<use, onExit, stopped, sent>>
  BY DEF Return
<1>2. CASE note = "received"
  <2>1. /\ result' = [ok |-> TRUE, value |-> value]
        /\ value' = value \ onExit /\ owed' = {}
        /\ got' = IF use = "mail" THEN Append(got, value) ELSE got
    BY <1>2 DEF Return
  <2>2. use = "mail" => got' = sent
    BY <1>2, <2>1, AppendIsConcat DEF IInv, TypeOK, MailExact
  <2>3. TypeOK'
    <3>1. got' \in Seq(Values) /\ Len(got') <= MaxMail
      BY <2>1, <2>2 DEF IInv, TypeOK
    <3>2. value' \in Values /\ owed' \in Values
      BY <2>1, ValuesClosed DEF IInv, TypeOK
    <3>3. Values' = Values
      BY DEF Values
    <3> QED
      BY <1>1, <2>1, <3>1, <3>2, <3>3 DEF IInv, TypeOK
  <2>4. MailExact'
    BY <1>1, <2>2, <2>3, ConcatEmptySeq DEF TypeOK, MailExact
  <2> QED
    BY <1>1, <2>1, <2>3, <2>4 DEF IInv, WaitingInside, WokenHasReason, OwedIsThere
<1>3. CASE note # "received"
  <2>1. result' = Timeout /\ UNCHANGED <<value, owed, got>>
    BY <1>3 DEF Return
  <2>2. TypeOK'
    <3>1. Values' = Values
      BY DEF Values
    <3>2. Timeout \in [ok : BOOLEAN, value : Values]
      BY DEF Timeout, Values
    <3> QED
      BY <1>1, <2>1, <3>1, <3>2 DEF IInv, TypeOK
  <2> QED
    BY <1>1, <1>3, <2>1, <2>2
       DEF IInv, MailExact, WaitingInside, WokenHasReason, OwedIsThere
<1> QED
  BY <1>2, <1>3

LEMMA IInvStep == IInv /\ [Next]_vars => IInv'
<1> SUFFICES ASSUME IInv, [Next]_vars PROVE IInv'
  OBVIOUS
<1>1. CASE UNCHANGED vars
  BY <1>1 DEF vars, kernel, thread, history, IInv, TypeOK, Values, MailExact,
     WaitingInside, WokenHasReason, OwedIsThere
<1> QED
  BY <1>1, NotifyStep, WaitStep, MeanwhileStep, ReturnStep DEF Next

LEMMA Invariant == Spec => []IInv
  BY IInvInit, IInvStep, PTL DEF Spec

-----------------------------------------------------------------------------
(* Theorems.                                                               *)

\* Every variable keeps its type (notify, wait_notification).
THEOREM TypeCorrect == Spec => []TypeOK
<1>1. IInv => TypeOK
  BY DEF IInv
<1> QED
  BY Invariant, <1>1, PTL

\* A thread used as a mailbox by notify() with SetValueWithoutOverwrite loses,
\* repeats and reorders nothing.
THEOREM MailboxIsExact == Spec => []MailExact
<1>1. IInv => MailExact
  BY DEF IInv
<1> QED
  BY Invariant, <1>1, PTL

\* wait_notification, when it returns a value, returns every bit set since it
\* last did.
THEOREM BitsAllArrive == Spec => BitsArrive
<1>1. IInv /\ [Next]_vars
        => [Returns /\ result'.ok /\ use = "bits" => owed \subseteq result'.value]_vars
  <2> SUFFICES ASSUME IInv, Next, pc = "woken", pc' = "ready", result'.ok, use = "bits"
               PROVE  owed \subseteq result'.value
    BY DEF Returns
  <2>1. Return
    BY DEF Next, Notify, Delivered, Wait, Tick, Suspend, Resume, Delete, vars, thread
  <2>2. result'.ok => note = "received" /\ result'.value = value
    BY <2>1 DEF Return, Timeout
  <2> QED
    BY <2>2 DEF IInv, OwedIsThere
<1> QED
  BY Invariant, <1>1, PTL DEF Spec, BitsArrive

\* wait_notification reports Err(Timeout) only if nothing was received, and
\* its time is over or suspend() took it out of its wait.
THEOREM TimeoutIsTrue == Spec => TimeoutMissesNothing
<1>1. IInv /\ [Next]_vars
        => [Returns /\ ~result'.ok => note # "received" /\ (remaining = 0 \/ stopped)]_vars
  <2> SUFFICES ASSUME IInv, Next, pc = "woken", pc' = "ready", ~result'.ok
               PROVE  note # "received" /\ (remaining = 0 \/ stopped)
    BY DEF Returns
  <2>1. Return
    BY DEF Next, Notify, Delivered, Wait, Tick, Suspend, Resume, Delete, vars, thread
  <2>2. note # "received"
    BY <2>1 DEF Return
  <2> QED
    BY <2>2 DEF IInv, WokenHasReason
<1> QED
  BY Invariant, <1>1, PTL DEF Spec, TimeoutMissesNothing

=============================================================================

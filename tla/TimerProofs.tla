---------------------------- MODULE TimerProofs ----------------------------
(***************************************************************************)
(* Theorems of Timer, for any length of the daemon's queue and any number  *)
(* of Timer values and callbacks: where the delete of a timer is, once     *)
(* nobody refers to the timer.                                             *)
(*                                                                         *)
(* Theorems of Clock, for any width of TickType, any tick rate, durations, *)
(* corrections and instants, and any number of tasks: what a tick counter  *)
(* that wraps, stands still and loses ticks says of the time that passes.  *)
(***************************************************************************)
EXTENDS Timer, Clock, TLAPS

USE TimerAssumption DEF TimerAssumption

-----------------------------------------------------------------------------
(* The queue.                                                              *)

\* A delete in the queue is the last command.
DeleteIsLast == \A i \in 1..Len(queue) : queue[i] = "delete" => i = Len(queue)

LEMMA SendFacts ==
  ASSUME TypeOK, NEW command \in Commands, Send(command)
  PROVE  /\ queue' \in Seq(Commands) /\ Len(queue') <= QueueLength
         /\ DeletePending => DeletePending'
         /\ command = "delete" /\ ~Full => DeletePending'
         /\ command # "delete" /\ DeletePending' => DeletePending
         /\ ~DeletePending => DeleteIsLast'
<1>1. queue \in Seq(Commands) /\ Len(queue) \in Nat /\ Len(queue) <= QueueLength
  BY DEF TypeOK
<1>2. CASE Full
  <2>1. queue' = queue
    BY <1>2 DEF Send
  <2> QED
    BY <1>1, <1>2, <2>1 DEF DeletePending, DeleteIsLast
<1>3. CASE ~Full
  <2>1. queue' = Append(queue, command)
    BY <1>3 DEF Send
  <2>2. /\ queue' \in Seq(Commands) /\ Len(queue') = Len(queue) + 1
        /\ queue'[Len(queue) + 1] = command
        /\ \A i \in 1..Len(queue) : queue'[i] = queue[i]
    BY <1>1, <2>1
  <2>3. \A i \in 1..Len(queue') : i = Len(queue) + 1 \/ i \in 1..Len(queue)
    BY <1>1, <2>2
  <2>4. 1..Len(queue) \subseteq 1..Len(queue') /\ Len(queue) + 1 \in 1..Len(queue')
    BY <1>1, <2>2
  <2>5. Len(queue') <= QueueLength
    BY <1>1, <1>3, <2>2 DEF Full
  <2> QED
    BY <1>3, <2>2, <2>3, <2>4, <2>5 DEF DeletePending, DeleteIsLast
<1> QED
  BY <1>2, <1>3

LEMMA TailFacts ==
  ASSUME TypeOK, queue # <<>>, queue' = Tail(queue)
  PROVE  /\ queue' \in Seq(Commands) /\ Len(queue') <= QueueLength
         /\ Head(queue) \in Commands
         /\ DeletePending' => DeletePending
         /\ DeletePending /\ Head(queue) # "delete" => DeletePending'
         /\ Head(queue) = "delete" => DeletePending
         /\ DeleteIsLast => DeleteIsLast'
         /\ DeleteIsLast /\ Head(queue) = "delete" => queue' = <<>>
<1>1. queue \in Seq(Commands) /\ Len(queue) \in Nat \ {0} /\ Len(queue) <= QueueLength
  BY DEF TypeOK
<1>2. /\ queue' \in Seq(Commands) /\ Len(queue') = Len(queue) - 1
      /\ Head(queue) = queue[1] /\ Head(queue) \in Commands
      /\ \A i \in 1..Len(queue') : queue'[i] = queue[i + 1] /\ i + 1 \in 1..Len(queue)
  BY <1>1
<1>3. \A i \in 1..Len(queue) : i = 1 \/ (i - 1 \in 1..Len(queue') /\ queue'[i - 1] = queue[i])
  <2> TAKE i \in 1..Len(queue)
  <2>1. i = 1 \/ (i - 1 \in 1..Len(queue') /\ (i - 1) + 1 = i)
    BY <1>1, <1>2
  <2> QED
    BY <1>2, <2>1
<1>4. Len(queue') <= QueueLength /\ 1 \in 1..Len(queue)
  BY <1>1, <1>2
<1>5. DeletePending' => DeletePending
  BY <1>2 DEF DeletePending
<1>6. DeletePending /\ Head(queue) # "delete" => DeletePending'
  BY <1>2, <1>3 DEF DeletePending
<1>7. Head(queue) = "delete" => DeletePending
  BY <1>2, <1>4 DEF DeletePending
<1>8. DeleteIsLast => DeleteIsLast'
  <2> SUFFICES ASSUME DeleteIsLast, NEW i \in 1..Len(queue'), queue'[i] = "delete"
               PROVE  i = Len(queue')
    BY DEF DeleteIsLast
  <2>1. i + 1 = Len(queue)
    BY <1>2 DEF DeleteIsLast
  <2>2. Len(queue') = Len(queue) - 1
    BY <1>2
  <2> QED
    BY <1>1, <2>1, <2>2
<1>9. DeleteIsLast /\ Head(queue) = "delete" => queue' = <<>>
  <2> SUFFICES ASSUME DeleteIsLast, Head(queue) = "delete" PROVE queue' = <<>>
    OBVIOUS
  <2>1. Len(queue) = 1
    BY <1>2, <1>4 DEF DeleteIsLast
  <2> QED
    BY <1>2, <2>1
<1> QED
  BY <1>2, <1>4, <1>5, <1>6, <1>7, <1>8, <1>9

-----------------------------------------------------------------------------
(* The steps.                                                              *)

\* A command is sent by one who is allowed to.
LEMMA CommandStep ==
  ASSUME IInv, ub = "no", NEW command \in {"arm", "stop"},
         Command(command) \/ CallbackCommand(command)
  PROVE  IInv'
<1>1. /\ Send(command) /\ command \in Commands /\ command # "delete"
      /\ live > 0 \/ box = "taken"
      /\ past \subseteq past' /\ past' \subseteq past \cup {"asked"}
      /\ UNCHANGED <<timer, mode, daemon, live, nulled, box, fired, ub>>
  BY DEF Command, CallbackCommand, Commands, client
<1>2. /\ queue' \in Seq(Commands) /\ Len(queue') <= QueueLength
      /\ DeletePending => DeletePending'
      /\ DeletePending' => DeletePending
      /\ ~DeletePending => DeleteIsLast'
  BY <1>1, SendFacts DEF IInv
<1>3. "lost" \in past' <=> "lost" \in past
  BY <1>1
<1>4. TypeOK'
  BY <1>1, <1>2 DEF IInv, TypeOK, Events
<1>5. timer # "none"
  BY <1>1 DEF IInv, NothingBefore
<1>6. NothingBefore'
  BY <1>1, <1>5 DEF IInv, NothingBefore
<1>7. BoxIsLent' /\ FaultIsFreedBox'
  BY <1>1 DEF IInv, BoxIsLent, FaultIsFreedBox
<1>8. OneSender'
  <2> SUFFICES ASSUME fired = 0, "cloned" \notin past
               PROVE  /\ live <= 1 /\ ub # "freed timer"
                      /\ live = 1 => ~DeletePending' /\ timer # "freed"
                      /\ timer = "freed" => queue' = <<>>
                      /\ DeleteIsLast'
    BY <1>1 DEF OneSender, DeleteIsLast
  <2>1. live \in Nat /\ live > 0 /\ live <= 1
    BY <1>1 DEF IInv, BoxIsLent, OneSender, TypeOK
  <2> QED
    BY <1>2, <2>1 DEF IInv, OneSender
<1>9. DeleteIsOnItsWay'
  BY <1>1, <1>2, <1>3 DEF IInv, DeleteIsOnItsWay
<1> QED
  BY <1>4, <1>6, <1>7, <1>8, <1>9 DEF IInv

\* delete(), or the drop, of a Timer value.
LEMMA DeleteStep ==
  ASSUME IInv, ub = "no", Delete \/ DropTimer
  PROVE  IInv'
<1>1. /\ Send("delete") /\ live > 0 /\ live' = live - 1
      /\ past' \subseteq past \cup {"deleted", "asked", "lost"} /\ past \subseteq past'
      /\ Full => "lost" \in past'
      /\ nulled' = nulled \/ (nulled < MaxNulled /\ nulled' = nulled + 1 /\ "deleted" \in past')
      /\ UNCHANGED <<timer, mode, daemon, box, fired, ub>>
  BY DEF Delete, DropTimer, SendDelete
<1>2. /\ queue' \in Seq(Commands) /\ Len(queue') <= QueueLength
      /\ DeletePending => DeletePending'
      /\ "lost" \in past' \/ DeletePending'
      /\ ~DeletePending => DeleteIsLast'
  BY <1>1, SendFacts DEF IInv, Commands
<1>3. TypeOK'
  BY <1>1, <1>2 DEF IInv, TypeOK, Events
<1>4. timer # "none"
  BY <1>1 DEF IInv, NothingBefore
<1>5. NothingBefore'
  BY <1>1, <1>4 DEF IInv, NothingBefore
<1>6. BoxIsLent' /\ FaultIsFreedBox'
  BY <1>1 DEF IInv, BoxIsLent, FaultIsFreedBox
<1>7. OneSender'
  <2> SUFFICES ASSUME fired = 0, "cloned" \notin past
               PROVE  /\ live' = 0 /\ ub # "freed timer"
                      /\ timer # "freed" /\ DeleteIsLast'
    BY <1>1 DEF OneSender, DeleteIsLast
  <2>1. live = 1
    BY <1>1 DEF IInv, TypeOK, OneSender
  <2> QED
    BY <1>1, <1>2, <2>1 DEF IInv, OneSender
<1>8. DeleteIsOnItsWay'
  BY <1>2 DEF DeleteIsOnItsWay
<1> QED
  BY <1>3, <1>5, <1>6, <1>7, <1>8 DEF IInv

\* The callback deletes the timer, or drops its box with the handle in it.
LEMMA CallbackSendsDeleteStep ==
  ASSUME IInv, ub = "no", CallbackDelete \/ (CallbackDrops /\ box = "taken")
  PROVE  IInv'
<1>1. /\ Send("delete") /\ box = "taken" /\ daemon = "callback"
      /\ past' \subseteq past \cup {"deleted", "asked", "lost"} /\ past \subseteq past'
      /\ Full => "lost" \in past'
      /\ \/ box' = "nulled" /\ "deleted" \in past' /\ daemon' = daemon
         \/ box' = "freed" /\ daemon' = "idle"
      /\ UNCHANGED <<timer, mode, live, nulled, fired, ub>>
  BY DEF CallbackDelete, CallbackDrops, SendDelete, client
<1>2. /\ queue' \in Seq(Commands) /\ Len(queue') <= QueueLength
      /\ "lost" \in past' \/ DeletePending'
  BY <1>1, SendFacts DEF IInv, Commands
<1>3. TypeOK'
  BY <1>1, <1>2 DEF IInv, TypeOK, Events
<1>4. timer # "none" /\ fired # 0
  BY <1>1 DEF IInv, NothingBefore, BoxIsLent
<1>5. NothingBefore' /\ BoxIsLent'
  BY <1>1, <1>4 DEF IInv, NothingBefore, BoxIsLent
<1>6. FaultIsFreedBox'
  BY <1>1 DEF IInv, FaultIsFreedBox
<1>7. OneSender'
  BY <1>1, <1>4 DEF OneSender
<1>8. DeleteIsOnItsWay'
  BY <1>2 DEF DeleteIsOnItsWay
<1> QED
  BY <1>3, <1>5, <1>6, <1>7, <1>8 DEF IInv

\* The callback waits for room in the queue, or has done so.
LEMMA CallbackWaitStep ==
  ASSUME IInv, ub = "no", (\E command \in Commands : CallbackWaits(command)) \/ WaitTimesOut
  PROVE  IInv'
<1>1. /\ \/ box' = box \/ (box = "taken" /\ box' = "nulled" /\ {"deleted", "lost"} \subseteq past')
      /\ past \subseteq past' /\ past' \subseteq past \cup {"deleted", "asked", "lost"}
      /\ daemon # "idle" /\ daemon' \in {"callback", "waiting", "stuck"}
      /\ daemon' # "callback" => Full
      /\ UNCHANGED <<timer, mode, queue, live, nulled, fired, ub>>
  BY DEF CallbackWaits, WaitTimesOut, client
<1>2. TypeOK'
  BY <1>1 DEF IInv, TypeOK, Events
<1>3. box \in {"taken", "nulled"} /\ box' \in {"taken", "nulled"} /\ timer # "none" /\ fired # 0
  BY <1>1 DEF IInv, BoxIsLent, NothingBefore
<1>4. NothingBefore' /\ BoxIsLent' /\ OneSender'
  BY <1>1, <1>3 DEF IInv, NothingBefore, BoxIsLent, OneSender
<1>5. FaultIsFreedBox'
  BY <1>1, <1>3 DEF IInv, FaultIsFreedBox
<1>6. DeleteIsOnItsWay'
  BY <1>1 DEF IInv, DeleteIsOnItsWay, DeletePending
<1> QED
  BY <1>2, <1>4, <1>5, <1>6 DEF IInv

LEMMA NewStep ==
  ASSUME IInv, ub = "no", NEW m \in {"oneshot", "auto"}, New(m)
  PROVE  IInv'
<1>1. /\ timer = "none" /\ timer' = "dormant" /\ mode' = m /\ live' = 1 /\ box' = "registered"
      /\ UNCHANGED <<queue, daemon, nulled, fired, past, ub>>
  BY DEF New
<1>2. nulled = 0 /\ queue = <<>> /\ box = "none" /\ ~DeletePending
  BY <1>1 DEF IInv, NothingBefore, DeletePending
<1>3. TypeOK'
  BY <1>1 DEF IInv, TypeOK
<1>4. NothingBefore' /\ BoxIsLent' /\ FaultIsFreedBox' /\ DeleteIsOnItsWay'
  BY <1>1, <1>2 DEF IInv, NothingBefore, BoxIsLent, FaultIsFreedBox, DeleteIsOnItsWay
<1>5. OneSender'
  BY <1>1, <1>2 DEF OneSender, DeletePending
<1> QED
  BY <1>3, <1>4, <1>5 DEF IInv

LEMMA CloneStep ==
  ASSUME IInv, ub = "no", Clone
  PROVE  IInv'
<1>1. /\ live > 0 /\ live' = live + 1 /\ live' \in 0..MaxTimers
      /\ past' = past \cup {"cloned"}
      /\ UNCHANGED <<timer, mode, queue, daemon, nulled, box, fired, ub>>
  BY DEF Clone
<1>2. TypeOK'
  BY <1>1 DEF IInv, TypeOK, Events
<1>3. timer # "none" /\ live' # 0
  BY <1>1 DEF IInv, NothingBefore, TypeOK
<1>4. NothingBefore' /\ BoxIsLent' /\ FaultIsFreedBox' /\ OneSender'
  BY <1>1, <1>3 DEF IInv, NothingBefore, BoxIsLent, FaultIsFreedBox, OneSender
<1>5. DeleteIsOnItsWay'
  BY <1>1, <1>3 DEF IInv, DeleteIsOnItsWay, DeletePending
<1> QED
  BY <1>2, <1>4, <1>5 DEF IInv

\* A command for a null handle: new() failed, a Timer that delete() has cleared
\* is used, or the callback drops such a one.
LEMMA NullStep ==
  ASSUME IInv, ub = "no", NewFails \/ DropNulled \/ UseNulled \/ (CallbackDrops /\ box = "nulled")
  PROVE  IInv'
<1>1. /\ ub' \in {"null", "null drop"} /\ past' \subseteq past \cup {"failed"} /\ past \subseteq past'
      /\ \/ UNCHANGED <<box, daemon>>
         \/ box = "nulled" /\ box' = "freed" /\ daemon' = "idle"
      /\ UNCHANGED <<timer, mode, queue, live, nulled, fired>>
  BY DEF NewFails, DropNulled, UseNulled, CallbackDrops, client
<1>2. TypeOK'
  BY <1>1 DEF IInv, TypeOK, Events, Undefined
<1>3. NothingBefore'
  <2>1. box = "none" <=> box' = "none"
    BY <1>1
  <2>2. box = "none" => UNCHANGED <<box, daemon>>
    BY <1>1
  <2> QED
    BY <1>1, <2>1, <2>2 DEF IInv, NothingBefore
<1>4. BoxIsLent' /\ FaultIsFreedBox'
  BY <1>1 DEF IInv, BoxIsLent, FaultIsFreedBox
<1>5. OneSender' /\ DeleteIsOnItsWay'
  BY <1>1 DEF IInv, OneSender, DeleteIsOnItsWay, DeletePending
<1> QED
  BY <1>2, <1>3, <1>4, <1>5 DEF IInv

LEMMA LeakStep ==
  ASSUME IInv, ub = "no", CallbackLeaks
  PROVE  IInv'
<1>1. /\ box \in {"taken", "nulled"} /\ daemon' = "idle" /\ box' = "registered"
      /\ UNCHANGED <<timer, mode, queue, live, nulled, fired, past, ub>>
  BY DEF CallbackLeaks, client, IInv, BoxIsLent
<1>2. TypeOK' /\ NothingBefore' /\ BoxIsLent' /\ FaultIsFreedBox'
  BY <1>1 DEF IInv, TypeOK, NothingBefore, BoxIsLent, FaultIsFreedBox
<1>3. OneSender' /\ DeleteIsOnItsWay'
  BY <1>1 DEF IInv, OneSender, DeleteIsOnItsWay, DeletePending
<1> QED
  BY <1>2, <1>3 DEF IInv

LEMMA ExpireStep ==
  ASSUME IInv, ub = "no", Expire
  PROVE  IInv'
<1>0. fired' \in 0..MaxFired /\ fired' # 0
  <2>1. fired \in 0..MaxFired /\ fired < MaxFired /\ fired' = fired + 1
    BY DEF Expire, IInv, TypeOK
  <2>2. fired + 1 \in 0..MaxFired /\ fired + 1 # 0
    BY <2>1
  <2> QED
    BY <2>1, <2>2
<1>1. /\ daemon = "idle" /\ timer = "active" /\ timer' \in {"active", "dormant"}
      /\ \/ box = "registered" /\ daemon' = "callback" /\ box' = "taken" /\ UNCHANGED ub
         \/ box # "registered" /\ ub' = "freed box" /\ UNCHANGED <<daemon, box>>
      /\ UNCHANGED <<mode, queue, live, nulled, past>>
  BY DEF Expire, client
<1>2. box \in {"registered", "freed"}
  BY <1>1 DEF IInv, TypeOK, NothingBefore, BoxIsLent
<1>3. TypeOK'
  BY <1>0, <1>1 DEF IInv, TypeOK, Undefined
<1>4. NothingBefore' /\ BoxIsLent' /\ FaultIsFreedBox'
  BY <1>0, <1>1, <1>2 DEF IInv, NothingBefore, BoxIsLent, FaultIsFreedBox
<1>5. OneSender' /\ DeleteIsOnItsWay'
  BY <1>0, <1>1, <1>2 DEF IInv, OneSender, DeleteIsOnItsWay, DeletePending
<1> QED
  BY <1>3, <1>4, <1>5 DEF IInv

LEMMA ProcessStep ==
  ASSUME IInv, ub = "no", Process
  PROVE  IInv'
<1>1. /\ daemon = "idle" /\ queue # <<>> /\ queue' = Tail(queue)
      /\ UNCHANGED <<mode, daemon, live, nulled, box, fired, past>>
  BY DEF Process, client
<1>2. /\ queue' \in Seq(Commands) /\ Len(queue') <= QueueLength
      /\ Head(queue) \in {"arm", "stop", "delete"}
      /\ DeletePending' => DeletePending
      /\ DeletePending /\ Head(queue) # "delete" => DeletePending'
      /\ Head(queue) = "delete" => DeletePending
      /\ DeleteIsLast => DeleteIsLast'
      /\ DeleteIsLast /\ Head(queue) = "delete" => queue' = <<>>
  BY <1>1, TailFacts DEF IInv, Commands
<1>3. /\ timer # "none" /\ timer' \in {"active", "dormant", "freed"}
      /\ timer = "freed" => timer' = "freed" /\ ub' = "freed timer"
      /\ timer # "freed" => ub' = ub
      /\ timer # "freed" /\ timer' = "freed" <=> timer # "freed" /\ Head(queue) = "delete"
  BY <1>1, <1>2 DEF Process, IInv, NothingBefore
<1>4. TypeOK'
  BY <1>1, <1>2, <1>3 DEF IInv, TypeOK, Undefined
<1>5. NothingBefore' /\ BoxIsLent' /\ FaultIsFreedBox'
  BY <1>1, <1>3 DEF IInv, NothingBefore, BoxIsLent, FaultIsFreedBox
<1>6. OneSender'
  <2> SUFFICES ASSUME fired = 0, "cloned" \notin past
               PROVE  /\ live <= 1 /\ ub' # "freed timer"
                      /\ live = 1 => ~DeletePending' /\ timer' # "freed"
                      /\ timer' = "freed" => queue' = <<>>
                      /\ DeleteIsLast'
    BY <1>1 DEF OneSender, DeleteIsLast
  <2>1. /\ live <= 1 /\ ub # "freed timer" /\ timer # "freed" /\ DeleteIsLast
        /\ live = 1 => ~DeletePending
    BY <1>1 DEF IInv, OneSender, DeleteIsLast
  <2> QED
    BY <1>2, <1>3, <2>1
<1>7. DeleteIsOnItsWay'
  <2> SUFFICES ASSUME "lost" \notin past, timer' # "freed", box \in {"nulled", "freed"} \/ live = 0
               PROVE  DeletePending'
    BY <1>1 DEF DeleteIsOnItsWay
  <2>1. DeletePending
    BY <1>3 DEF IInv, DeleteIsOnItsWay
  <2> QED
    BY <1>2, <1>3, <2>1
<1> QED
  BY <1>4, <1>5, <1>6, <1>7 DEF IInv

-----------------------------------------------------------------------------
(* The invariant.                                                          *)

LEMMA IInvInit == Init => IInv
<1> SUFFICES ASSUME Init PROVE IInv
  OBVIOUS
<1>1. TypeOK
  BY DEF Init, TypeOK
<1>2. NothingBefore /\ BoxIsLent /\ FaultIsFreedBox
  BY DEF Init, NothingBefore, BoxIsLent, FaultIsFreedBox
<1>3. OneSender /\ DeleteIsOnItsWay
  BY DEF Init, OneSender, DeleteIsOnItsWay, DeletePending
<1> QED
  BY <1>1, <1>2, <1>3 DEF IInv

LEMMA IInvStep == IInv /\ [Next]_vars => IInv'
<1> SUFFICES ASSUME IInv, [Next]_vars PROVE IInv'
  OBVIOUS
<1> USE DEF Next, Step
<1>1. ASSUME ub = "no", NEW m \in {"oneshot", "auto"}, New(m) PROVE IInv'
  BY <1>1, NewStep
<1>2. CASE ub = "no" /\ Clone
  BY <1>2, CloneStep
<1>3. ASSUME ub = "no", NEW command \in {"arm", "stop"},
             Command(command) \/ CallbackCommand(command)
      PROVE  IInv'
  BY <1>3, CommandStep
<1>4. CASE ub = "no" /\ (Delete \/ DropTimer)
  BY <1>4, DeleteStep
<1>5. CASE ub = "no" /\ (NewFails \/ DropNulled \/ UseNulled)
  BY <1>5, NullStep
<1>6. CASE ub = "no" /\ CallbackDelete
  BY <1>6, CallbackSendsDeleteStep
<1>7. CASE ub = "no" /\ CallbackDrops
  <2>1. box = "taken" \/ box = "nulled"
    BY <1>7 DEF CallbackDrops, IInv, BoxIsLent
  <2> QED
    BY <1>7, <2>1, CallbackSendsDeleteStep, NullStep
<1>8. CASE ub = "no" /\ CallbackLeaks
  BY <1>8, LeakStep
<1>9. CASE ub = "no" /\ Expire
  BY <1>9, ExpireStep
<1>10. CASE ub = "no" /\ Process
  BY <1>10, ProcessStep
<1>12. ASSUME ub = "no", (\E command \in Commands : CallbackWaits(command)) \/ WaitTimesOut
       PROVE  IInv'
  BY <1>12, CallbackWaitStep
<1>11. CASE UNCHANGED vars
  <2>1. UNCHANGED <<timer, mode, queue, daemon, live, nulled, box, fired, past, ub>>
    BY <1>11 DEF vars, client
  <2>2. TypeOK' /\ NothingBefore' /\ BoxIsLent' /\ FaultIsFreedBox'
    BY <2>1 DEF IInv, TypeOK, NothingBefore, BoxIsLent, FaultIsFreedBox
  <2>3. OneSender' /\ DeleteIsOnItsWay'
    BY <2>1 DEF IInv, OneSender, DeleteIsOnItsWay, DeletePending
  <2> QED
    BY <2>2, <2>3 DEF IInv
<1> QED
  BY <1>1, <1>2, <1>3, <1>4, <1>5, <1>6, <1>7, <1>8, <1>9, <1>10, <1>11, <1>12

\* The inductive invariant holds in every reachable state.
THEOREM Invariant == Spec => []IInv
BY IInvInit, IInvStep, PTL DEF Spec

-----------------------------------------------------------------------------
(* Properties.                                                             *)

\* Types, for any queue length: the daemon's queue never overflows.
THEOREM TypeCorrect == Spec => []TypeOK
<1>1. IInv => TypeOK
  BY DEF IInv
<1> QED
  BY <1>1, Invariant, PTL

\* The sole Timer value of a timer whose callback has not run is safe to use
\* and to drop: Drop sends its delete last.
THEOREM SoleTimerSafe == Spec => []SoleTimerIsSafe
<1>1. IInv => SoleTimerIsSafe
  <2> SUFFICES ASSUME IInv PROVE SoleTimerIsSafe
    OBVIOUS
  <2>1. fired = 0 \/ fired > 0
    BY DEF IInv, TypeOK
  <2> QED
    BY <2>1 DEF IInv, OneSender, SoleTimerIsSafe
<1> QED
  BY <1>1, Invariant, PTL

\* callback_c_wrapper finds its box freed only while the delete sent by the
\* drop of the box is late, or if it was refused.
THEOREM FreedBoxIsLag == Spec => []FreedBoxNeedsLag
<1>1. IInv => FreedBoxNeedsLag
  BY DEF IInv, FaultIsFreedBox, DeleteIsOnItsWay, FreedBoxNeedsLag
<1> QED
  BY <1>1, Invariant, PTL

\* A timer nobody refers to is freed once the daemon has emptied its queue,
\* unless Drop's delete, which does not wait for room, was refused.
THEOREM TimersDoNotLeak == Spec => []NoTimerLeak
<1>1. IInv => NoTimerLeak
  BY DEF IInv, DeleteIsOnItsWay, DeletePending, NoTimerLeak
<1> QED
  BY <1>1, Invariant, PTL

-----------------------------------------------------------------------------
(* Clock: division, conversions and the tick counter.                      *)

\* Division rounds down, and its remainder is what it leaves.
LEMMA Division ==
  ASSUME NEW a \in Int, NEW b \in Nat \ {0}
  PROVE  /\ a \div b \in Int /\ a % b \in 0..(b - 1)
         /\ a = b * (a \div b) + (a % b)
OBVIOUS

\* A quotient is the largest number of times the divisor fits.
LEMMA Floor ==
  ASSUME NEW a \in Int, NEW b \in Nat \ {0}
  PROVE  /\ a \div b \in Int
         /\ b * (a \div b) <= a /\ a < b * (a \div b) + b
<1>1. /\ a \div b \in Int /\ a % b \in 0..(b - 1)
      /\ a = b * (a \div b) + (a % b)
  BY Division
<1>2. b * (a \div b) \in Int
  BY <1>1
<1> QED
  BY <1>1, <1>2

\* Naturals have natural quotients.
LEMMA DivNat ==
  ASSUME NEW a \in Nat, NEW b \in Nat \ {0}
  PROVE  a \div b \in Nat
OBVIOUS

\* With gcc or without, the generated TickType is as wide as the kernel's.
LEMMA TicksIsModulus == Ticks = Modulus
<1>1. GenerateTypes(compiles).TickType.bytes = 4
  BY DEF GenerateTypes, QueryTypeSizes, SizeToType, Printed
<1> QED
  BY <1>1, KernelAssumption DEF Ticks, ValuesOf
\* A larger number has no smaller quotient.
LEMMA DivMonotone ==
  ASSUME NEW a \in Int, NEW c \in Int, a <= c, NEW b \in Nat \ {0}
  PROVE  a \div b <= c \div b
<1>1. /\ a \div b \in Int /\ c \div b \in Int
      /\ b * (a \div b) <= a /\ c < b * (c \div b) + b
  BY Division
<1>2. b * (a \div b) < b * ((c \div b) + 1)
  BY <1>1
<1> QED
  BY <1>1, <1>2

\* Within one round of the counter, differences of readings are differences of
\* counts.
LEMMA SameRound ==
  ASSUME NEW a \in Nat, NEW c \in Nat, a \div Modulus = c \div Modulus
  PROVE  Kernel(a) - Kernel(c) = a - c
<1>1. /\ a = Modulus * (a \div Modulus) + Kernel(a)
      /\ c = Modulus * (c \div Modulus) + Kernel(c)
      /\ Kernel(a) \in Nat /\ Kernel(c) \in Nat /\ a \div Modulus \in Int
  BY Division, ClockAssumption DEF ClockAssumption, Kernel
<1>2. Modulus * (a \div Modulus) \in Int
  BY <1>1, ClockAssumption DEF ClockAssumption
<1> QED
  BY <1>1, <1>2

\* get_tick_count() loses nothing of xTaskGetTickCount().
LEMMA CountIsKernel ==
  ASSUME NEW n \in Nat
  PROVE  TickCount(n) = Kernel(n) /\ Kernel(n) \in 0..(Modulus - 1)
<1>1. Kernel(n) \in 0..(Modulus - 1)
  BY Division, ClockAssumption DEF ClockAssumption, Kernel
<1>2. Kernel(n) % Modulus = Kernel(n)
  BY <1>1, ClockAssumption DEF ClockAssumption
<1> QED
  BY <1>1, <1>2, TicksIsModulus DEF TickCount

\* get_current_time_us() rounds down, to less than a millisecond.
LEMMA MillisecondsFacts ==
  ASSUME NEW n \in Nat, hz \in Nat \ {0}
  PROVE  /\ Milliseconds(n) \in Nat
         /\ hz * Milliseconds(n) <= 1000 * Kernel(n)
         /\ 1000 * Kernel(n) < hz * Milliseconds(n) + hz
<1> DEFINE thousand == 1000 * Kernel(n)
<1>1. thousand \in Nat
  BY CountIsKernel, ClockAssumption DEF ClockAssumption
<1>2. Milliseconds(n) = thousand \div hz
  BY CountIsKernel DEF Milliseconds
<1> HIDE DEF thousand
<1>3. /\ thousand \div hz \in Nat
      /\ hz * (thousand \div hz) <= thousand /\ thousand < hz * (thousand \div hz) + hz
  BY <1>1, Floor, DivNat
<1> QED
  BY <1>2, <1>3 DEF thousand

\* to_ticks() never rounds up, and never returns the largest TickType, which would
\* wait for ever.
LEMMA ToTicksFacts ==
  ASSUME hz \in Nat \ {0}, NEW ms \in Nat
  PROVE  /\ ToTicks(ms) \in Nat
         /\ 1000 * ToTicks(ms) <= ms * hz
         /\ 1000 * ToTicks(ms) <= Modulus - 1
         /\ ToTicks(ms) <= (Modulus - 1) \div 1000
<1> DEFINE product == (ms % Modulus) * hz
<1>1. ms % Modulus \in Nat /\ ms % Modulus <= ms
  BY ClockAssumption DEF ClockAssumption
<1>2. product \in Nat /\ product <= ms * hz
  BY <1>1
<1>3. Saturated(product) \in Nat /\ Saturated(product) <= product
      /\ Saturated(product) <= Modulus - 1
  BY <1>2, TicksIsModulus, ClockAssumption DEF ClockAssumption, Saturated
<1>4. ToTicks(ms) = Saturated(product) \div 1000
  BY TicksIsModulus DEF ToTicks
<1>5. ToTicks(ms) \in Nat /\ 1000 * ToTicks(ms) <= Saturated(product)
  BY <1>3, <1>4
<1>6. ToTicks(ms) <= (Modulus - 1) \div 1000
  <2> DEFINE saturated == Saturated(product)
  <2>1. saturated \in Int /\ Modulus - 1 \in Int /\ 1000 \in Nat \ {0} /\ saturated <= Modulus - 1
    BY <1>3, ClockAssumption DEF ClockAssumption
  <2> HIDE DEF saturated
  <2>2. saturated \div 1000 <= (Modulus - 1) \div 1000
    BY <2>1, DivMonotone
  <2> QED
    BY <1>4, <2>2 DEF saturated
<1>7. ms * hz \in Nat
  OBVIOUS
<1> HIDE DEF product
<1> QED
  BY <1>2, <1>3, <1>5, <1>6, <1>7, ClockAssumption DEF ClockAssumption

\* to_ticks() of a whole number of ticks that does not overflow is that number.
LEMMA ExactTicks ==
  ASSUME hz \in Nat \ {0}, NEW ms \in Nat, Exact(ms)
  PROVE  1000 * ToTicks(ms) = ms * hz
<1>1. ms * hz \in Nat /\ ms <= ms * hz
  OBVIOUS
<1>2. ms % Modulus = ms
  BY <1>1, ClockAssumption DEF ClockAssumption, Exact
<1>3. ToTicks(ms) = (ms * hz) \div 1000
  BY <1>1, <1>2, TicksIsModulus DEF ToTicks, Saturated, Exact
<1> QED
  BY <1>1, <1>3 DEF Exact

\* ticks() of no more than a duration is no more than that duration.
LEMMA FromTicksBound ==
  ASSUME hz \in Nat \ {0}, NEW ticks \in Nat, NEW ms \in Nat, 1000 * ticks <= hz * ms
  PROVE  FromTicks(ticks) <= ms
<1> DEFINE saturated == Saturated(ticks * 1000)
<1>1. saturated \in Nat /\ saturated <= 1000 * ticks
  BY TicksIsModulus, ClockAssumption DEF ClockAssumption, Saturated
<1> HIDE DEF saturated
<1>2. hz * (saturated \div hz) <= saturated /\ saturated \div hz \in Nat
  BY <1>1, Floor, DivNat
<1>3. hz * (saturated \div hz) <= hz * ms
  BY <1>1, <1>2
<1>4. saturated \div hz <= ms
  BY <1>2, <1>3
<1> QED
  BY <1>4 DEF FromTicks, saturated

\* In the round of its time-stamp check_timer compares milliseconds, and has
\* nothing to correct.
LEMMA PassingSameRound ==
  ASSUME hz \in Nat \ {0}, counted \in Nat, NEW from \in Nat, from <= counted,
         counted \div Modulus = from \div Modulus
  PROVE  /\ Milliseconds(from) <= Milliseconds(counted)
         /\ \A wait \in Nat :
              CheckTimer(from, wait) <=> wait <= Milliseconds(counted) - Milliseconds(from)
<1>1. Kernel(counted) - Kernel(from) = counted - from
  BY SameRound
<1>2. Kernel(counted) \in Nat /\ Kernel(from) \in Nat
  BY CountIsKernel, ClockAssumption DEF ClockAssumption
<1>3. 1000 * Kernel(from) <= 1000 * Kernel(counted)
  BY <1>1, <1>2
<1>4. Milliseconds(from) <= Milliseconds(counted)
  <2>1. /\ Milliseconds(from) = (1000 * Kernel(from)) \div hz
        /\ Milliseconds(counted) = (1000 * Kernel(counted)) \div hz
    BY CountIsKernel DEF Milliseconds
  <2> DEFINE a == 1000 * Kernel(from)
             c == 1000 * Kernel(counted)
  <2>2. a \in Int /\ c \in Int /\ a <= c
    BY <1>2, <1>3
  <2> HIDE DEF a, c
  <2>3. a \div hz <= c \div hz
    BY <2>2, DivMonotone
  <2> QED
    BY <2>1, <2>3 DEF a, c
<1>5. Milliseconds(from) \in Nat /\ Milliseconds(counted) \in Nat
  BY MillisecondsFacts
<1>6. Passing(from) = 1000 * (Milliseconds(counted) - Milliseconds(from))
  BY <1>4, <1>5 DEF Passing
<1> QED
  BY <1>4, <1>5, <1>6 DEF CheckTimer

\* What check_timer answers there, in ticks: right but for the rounding of both
\* readings.
LEMMA CheckedIsPassed ==
  ASSUME hz \in Nat \ {0}, counted \in Nat, NEW from \in Nat, from <= counted,
         counted \div Modulus = from \div Modulus, NEW wait \in Nat
  PROVE  /\ CheckTimer(from, wait) => 1000 * (counted - from) > hz * (wait - 1)
         /\ ~CheckTimer(from, wait) => 1000 * (counted - from) < hz * (wait + 1)
         /\ 1000 * (counted - from) >= hz * wait => CheckTimer(from, wait)
<1> DEFINE now   == Milliseconds(counted)
           stamp == Milliseconds(from)
           c == Kernel(counted)
           f == Kernel(from)
<1>1. /\ now \in Nat /\ stamp \in Nat
      /\ hz * now <= 1000 * c /\ 1000 * c < hz * now + hz
      /\ hz * stamp <= 1000 * f /\ 1000 * f < hz * stamp + hz
  BY MillisecondsFacts
<1>2. c - f = counted - from
  BY SameRound
<1>3. c \in Nat /\ f \in Nat
  BY CountIsKernel, ClockAssumption DEF ClockAssumption
<1>4. CheckTimer(from, wait) <=> wait <= now - stamp
  BY PassingSameRound
<1> HIDE DEF now, stamp, c, f
<1>5. /\ hz * now \in Int /\ hz * stamp \in Int /\ hz * wait \in Int
      /\ hz * (wait - 1) = hz * wait - hz /\ hz * (wait + 1) = hz * wait + hz
      /\ hz * (now - stamp) = hz * now - hz * stamp
  BY <1>1
<1>6. 1000 * (counted - from) = 1000 * c - 1000 * f
  BY <1>2, <1>3
<1>7. ASSUME CheckTimer(from, wait) PROVE 1000 * (counted - from) > hz * (wait - 1)
  <2>1. hz * wait <= hz * (now - stamp)
    BY <1>1, <1>4, <1>7
  <2> QED
    BY <1>1, <1>3, <1>5, <1>6, <2>1
<1>8. ASSUME ~CheckTimer(from, wait) PROVE 1000 * (counted - from) < hz * (wait + 1)
  <2>1. now - stamp + 1 <= wait
    BY <1>1, <1>4, <1>8
  <2>2. hz * (now - stamp + 1) <= hz * wait
    BY <1>1, <2>1
  <2>3. hz * (now - stamp) + hz <= hz * wait
    BY <1>1, <2>2
  <2> QED
    BY <1>1, <1>3, <1>5, <1>6, <2>3
<1>9. ASSUME 1000 * (counted - from) >= hz * wait PROVE CheckTimer(from, wait)
  <2>1. hz * (stamp + wait) = hz * stamp + hz * wait
    BY <1>1
  <2>2. hz * (stamp + wait) < hz * (now + 1)
    BY <1>1, <1>3, <1>5, <1>6, <1>9, <2>1
  <2>3. stamp + wait < now + 1
    BY <1>1, <2>2
  <2> QED
    BY <1>1, <1>4, <2>3
<1> QED
  BY <1>7, <1>8, <1>9

\* A count is what the counter shows, and a number of rounds.
LEMMA Rounds ==
  ASSUME NEW n \in Nat
  PROVE  \E k \in Nat : n = Modulus * k + Kernel(n)
<1>1. n \div Modulus \in Nat /\ n = Modulus * (n \div Modulus) + Kernel(n)
  BY Division, DivNat, ClockAssumption DEF ClockAssumption, Kernel
<1> QED
  BY <1>1

\* A number of rounds that is not negative is none, or one at least.
LEMMA WholeRounds ==
  ASSUME NEW k \in Int, Modulus * k > -Modulus
  PROVE  Modulus * k = 0 \/ Modulus * k >= Modulus
<1>1. k >= 0
  BY ClockAssumption DEF ClockAssumption
<1>2. k = 0 \/ k >= 1
  BY <1>1
<1> QED
  BY <1>2, ClockAssumption DEF ClockAssumption

\* The kernel computes in TickType when a task wakes: at the planned instant, or
\* whole rounds after it.
LEMMA WakeIsPlanned ==
  ASSUME counted \in Nat, NEW planned \in Nat, planned < counted + Modulus,
         NEW wake, wake = counted + ((Kernel(planned) - Kernel(counted)) % Modulus)
  PROVE  /\ wake \in Nat /\ wake >= counted
         /\ wake = planned \/ wake >= planned + Modulus
<1>1. Kernel(planned) \in Nat /\ Kernel(counted) \in Nat
  BY CountIsKernel, ClockAssumption DEF ClockAssumption
<1>2. PICK p \in Nat : planned = Modulus * p + Kernel(planned)
  BY Rounds
<1>3. PICK c \in Nat : counted = Modulus * c + Kernel(counted)
  BY Rounds
<1> DEFINE d == Kernel(planned) - Kernel(counted)
           q == d \div Modulus
           r == d % Modulus
<1>4. q \in Int /\ r \in 0..(Modulus - 1) /\ d = Modulus * q + r
  <2>1. d \in Int
    BY <1>1
  <2> HIDE DEF d
  <2> QED
    BY <2>1, Division, ClockAssumption DEF ClockAssumption
<1>5. wake = counted + r
  OBVIOUS
<1> HIDE DEF q, r
<1>6. wake \in Nat /\ wake >= counted
  BY <1>4, <1>5, ClockAssumption DEF ClockAssumption
<1>7. wake - planned = Modulus * c - Modulus * p - Modulus * q
  BY <1>1, <1>2, <1>3, <1>4, <1>5, ClockAssumption DEF ClockAssumption
<1>8. Modulus * (c - p - q) = Modulus * c - Modulus * p - Modulus * q
  BY <1>2, <1>3, <1>4, ClockAssumption DEF ClockAssumption
<1>9. wake - planned > -Modulus
  BY <1>6, ClockAssumption DEF ClockAssumption
<1>10. Modulus * (c - p - q) = 0 \/ Modulus * (c - p - q) >= Modulus
  <2>1. c - p - q \in Int
    BY <1>2, <1>3, <1>4
  <2> QED
    BY <2>1, <1>7, <1>8, <1>9, WholeRounds
<1> QED
  BY <1>6, <1>7, <1>8, <1>10, ClockAssumption DEF ClockAssumption

\* xTaskDelayUntil does not wait only if the planned instant has passed, although
\* it compares what TickType keeps of the instants.
LEMMA NotWaitingIsLate ==
  ASSUME counted \in Nat, NEW previous \in Nat, previous <= counted,
         NEW ticks \in Nat, 0 < ticks, ticks < Modulus,
         ~MustWait(previous, previous + ticks)
  PROVE  previous + ticks <= counted
<1> DEFINE wake == previous + ticks
<1> SUFFICES ASSUME counted < wake PROVE FALSE
  OBVIOUS
<1>1. /\ Kernel(wake) \in 0..(Modulus - 1) /\ Kernel(counted) \in 0..(Modulus - 1)
      /\ Kernel(previous) \in 0..(Modulus - 1)
  BY CountIsKernel
<1>2. PICK w \in Nat : wake = Modulus * w + Kernel(wake)
  BY Rounds
<1>3. PICK c \in Nat : counted = Modulus * c + Kernel(counted)
  BY Rounds
<1>4. PICK p \in Nat : previous = Modulus * p + Kernel(previous)
  BY Rounds
<1>5. Modulus * (c - p) = Modulus * c - Modulus * p /\ Modulus * (w - c) = Modulus * w - Modulus * c
  BY <1>2, <1>3, <1>4, ClockAssumption DEF ClockAssumption
<1>6. Modulus * (w - p) = Modulus * w - Modulus * p
  BY <1>2, <1>4, ClockAssumption DEF ClockAssumption
<1>7. \A k \in Int : Modulus * k > -Modulus => Modulus * k = 0 \/ Modulus * k >= Modulus
  BY WholeRounds
<1>8. c - p \in Int /\ w - c \in Int /\ w - p \in Int
  BY <1>2, <1>3, <1>4
<1> DEFINE cp == Modulus * (c - p)
           wc == Modulus * (w - c)
           wp == Modulus * (w - p)
           kw == Kernel(wake)
           kc == Kernel(counted)
           kp == Kernel(previous)
<1>9. /\ cp \in Int /\ wc \in Int /\ wp \in Int /\ wp = cp + wc
  BY <1>2, <1>3, <1>4, <1>5, <1>6, <1>8, ClockAssumption DEF ClockAssumption
<1>10. /\ wake - counted = wc + kw - kc /\ counted - previous = cp + kc - kp
  BY <1>1, <1>2, <1>3, <1>4, <1>5, ClockAssumption DEF ClockAssumption
<1>11. /\ cp > -Modulus => cp = 0 \/ cp >= Modulus
       /\ wc > -Modulus => wc = 0 \/ wc >= Modulus
       /\ wp > -Modulus => wp = 0 \/ wp >= Modulus
  BY <1>7, <1>8
<1>12. ~(IF kc < kp THEN kw < kp /\ kw > kc ELSE kw < kp \/ kw > kc)
  BY DEF MustWait
<1> HIDE DEF cp, wc, wp, kw, kc, kp
<1> QED
  BY <1>1, <1>9, <1>10, <1>11, <1>12, ClockAssumption DEF ClockAssumption, kw, kc, kp

-----------------------------------------------------------------------------
(* What the invariant says of one task, as a relation of values.           *)

Consistent(doing, count, due, instant, ticks) ==
  /\ doing.at \in {"timing", "delayed", "slept"} =>
       /\ doing.from <= count
       /\ ~doing.blind => due - doing.from <= instant - doing.since
  /\ doing.at = "delayed" => doing.wake >= doing.from + ticks /\ doing.wake <= count + ticks
  /\ doing.at = "slept" => count >= doing.from + ticks
  /\ doing.at = "periodic" => doing.from <= count
  /\ doing.at = "sleeping" => doing.wake = doing.from \/ doing.wake >= doing.from + Modulus

AllConsistent ==
  \A t \in Tasks : Consistent(clients[t], counted, Due, time, ToTicks(clients[t].wait))

\* The invariant of all tasks is the invariant of each.
LEMMA ByTask ==
  AllConsistent <=> StampsArePast /\ DelaysAreWhole /\ LoopsArePast /\ PeriodKept
BY DEF AllConsistent, StampsArePast, DelaysAreWhole, LoopsArePast, PeriodKept, Consistent

\* A rate is positive.
LEMMA HzIsPositive == ClockTypeOK => hz \in Nat \ {0}
BY ClockAssumption DEF ClockAssumption, ClockTypeOK

\* The fields of what a task is doing.
LEMMA ActivityTypes ==
  ASSUME NEW doing \in Activities
  PROVE  /\ doing.from \in Nat /\ doing.since \in Nat /\ doing.wait \in Nat /\ doing.wake \in Nat
         /\ doing.blind \in BOOLEAN /\ doing.at \in Doing /\ doing.rounds \in 0..MaxRounds
<1>1. 0 \in Nat /\ Waits \cup {0} \subseteq Nat
  BY ClockAssumption DEF ClockAssumption
<1> QED
  BY <1>1 DEF Activities

\* The kernel counts no more than passes.
NoFaster(due1, due2, instant1, instant2) == due2 - due1 <= instant2 - instant1

\* As time passes, and the kernel catches up, a task's stamps stay consistent.
LEMMA ConsistentLater ==
  ASSUME NEW doing \in Activities, NEW ticks \in Nat,
         NEW count1 \in Nat, NEW count2 \in Nat, count1 <= count2,
         NEW due1 \in Nat, NEW due2 \in Nat, NEW instant1 \in Nat, NEW instant2 \in Nat,
         NoFaster(due1, due2, instant1, instant2),
         Consistent(doing, count1, due1, instant1, ticks)
  PROVE  Consistent(doing, count2, due2, instant2, ticks)
BY ActivityTypes DEF Consistent, NoFaster

\* The kernel does not get ahead of the hardware.
LEMMA BooksLater ==
  ASSUME NEW due1 \in Nat, NEW due2 \in Nat, NEW instant1 \in Nat, NEW instant2 \in Nat,
         NoFaster(due1, due2, instant1, instant2), due1 <= instant1
  PROVE  due2 <= instant2
BY DEF NoFaster

\* Time passes, or the kernel catches up.
LEMMA KernelStep ==
  ASSUME ClockIInv, fault = "none", UNCHANGED <<config, clients, fault>>,
         counted <= counted', NoFaster(Due, Due', time, time'),
         time' \in Nat, counted' \in 0..time', pended' \in Nat, latched' \in {0, 1}, Due' \in Nat,
         holder' \in Tasks \cup Others \cup {None},
         suspends' \in 0..MaxNest, sections' \in 0..MaxNest,
         suspends' = 0 => pended' = 0, sections' = 0 => latched' = 0
  PROVE  ClockIInv'
<1>1. ClockTypeOK /\ Bookkeeping /\ AllConsistent
  BY ByTask DEF ClockIInv
<1>2. time \in Nat /\ counted \in Nat /\ Due \in Nat /\ counted' \in Nat
  BY <1>1 DEF ClockTypeOK, Due
<1>3. ClockTypeOK'
  BY <1>1 DEF ClockTypeOK, config
<1>4. Due' <= time'
  BY <1>1, <1>2, BooksLater DEF Bookkeeping
<1>5. Bookkeeping'
  BY <1>4 DEF Bookkeeping
<1>6. AllConsistent'
  <2> SUFFICES ASSUME NEW t \in Tasks
               PROVE  Consistent(clients[t], counted, Due, time, ToTicks(clients[t].wait))'
    BY DEF AllConsistent
  <2>1. /\ clients[t] \in Activities
        /\ Consistent(clients[t], counted, Due, time, ToTicks(clients[t].wait))
    BY <1>1 DEF ClockTypeOK, AllConsistent
  <2>2. ToTicks(clients[t].wait) \in Nat
    BY <1>1, <2>1, ActivityTypes, HzIsPositive, ToTicksFacts
  <2>3. clients'[t] = clients[t]
    OBVIOUS
  <2>4. ToTicks(clients[t].wait)' = ToTicks(clients[t].wait)
    BY <2>3 DEF config, ToTicks, Saturated, Ticks
  <2>5. Consistent(clients[t], counted', Due', time', ToTicks(clients[t].wait))
    BY <1>2, <2>1, <2>2, ConsistentLater
  <2> QED
    BY <2>3, <2>4, <2>5
<1>7. PanicNeedsWrap'
  BY DEF PanicNeedsWrap
<1>8. (StampsArePast /\ DelaysAreWhole /\ LoopsArePast /\ PeriodKept)'
  BY <1>6, ByTask, PTL
<1> QED
  BY <1>3, <1>5, <1>7, <1>8 DEF ClockIInv

\* One task goes on.
LEMMA ClientStep ==
  ASSUME ClockIInv, fault = "none", UNCHANGED <<config, kernel, fault>>,
         NEW t \in Tasks, NEW doing \in Activities, Set(t, doing),
         Consistent(doing, counted, Due, time, ToTicks(doing.wait))
  PROVE  ClockIInv'
<1>1. ClockTypeOK /\ Bookkeeping /\ AllConsistent
  BY ByTask DEF ClockIInv
<1>2. ClockTypeOK'
  BY <1>1 DEF ClockTypeOK, config, kernel, Set
<1>3. Due' = Due
  BY DEF Due, kernel
<1>4. Bookkeeping'
  BY <1>1, <1>3 DEF Bookkeeping, kernel
<1>5. AllConsistent'
  <2> SUFFICES ASSUME NEW u \in Tasks
               PROVE  Consistent(clients[u], counted, Due, time, ToTicks(clients[u].wait))'
    BY DEF AllConsistent
  <2>1. clients'[u] = IF u = t THEN doing ELSE clients[u]
    BY <1>1 DEF ClockTypeOK, Set
  <2>2. ToTicks(clients[u].wait)' = IF u = t THEN ToTicks(doing.wait)
                                             ELSE ToTicks(clients[u].wait)
    BY <2>1 DEF config, ToTicks, Saturated, Ticks
  <2>3. counted' = counted /\ time' = time
    BY DEF kernel
  <2>4. Consistent(clients[u], counted, Due, time, ToTicks(clients[u].wait))
    BY <1>1 DEF AllConsistent
  <2>5. CASE u = t
    BY <1>3, <2>1, <2>2, <2>3, <2>5
  <2>6. CASE u # t
    BY <1>3, <2>1, <2>2, <2>3, <2>4, <2>6
  <2> QED
    BY <2>5, <2>6
<1>6. PanicNeedsWrap'
  BY DEF PanicNeedsWrap
<1>7. (StampsArePast /\ DelaysAreWhole /\ LoopsArePast /\ PeriodKept)'
  BY <1>5, ByTask, PTL
<1> QED
  BY <1>2, <1>4, <1>6, <1>7 DEF ClockIInv

\* The system stops.
LEMMA FaultStep ==
  ASSUME ClockIInv, UNCHANGED <<config, kernel, clients>>, fault' \in {"assert", "panic"},
         fault' = "panic" => \E t \in Tasks : Waiting(t) /\ ~Unwrapped(t)
  PROVE  ClockIInv'
<1>1. ClockTypeOK /\ Bookkeeping /\ AllConsistent
  BY ByTask DEF ClockIInv
<1>2. ClockTypeOK'
  BY <1>1 DEF ClockTypeOK, config, kernel
<1>3. Due' = Due
  BY DEF Due, kernel
<1>4. Bookkeeping'
  BY <1>1, <1>3 DEF Bookkeeping, kernel
<1>5. AllConsistent'
  <2> SUFFICES ASSUME NEW u \in Tasks
               PROVE  Consistent(clients[u], counted, Due, time, ToTicks(clients[u].wait))'
    BY DEF AllConsistent
  <2>1. clients'[u] = clients[u] /\ counted' = counted /\ time' = time
    BY DEF kernel
  <2>2. ToTicks(clients[u].wait)' = ToTicks(clients[u].wait)
    BY <2>1 DEF config, ToTicks, Saturated, Ticks
  <2>3. Consistent(clients[u], counted, Due, time, ToTicks(clients[u].wait))
    BY <1>1 DEF AllConsistent
  <2> QED
    BY <1>3, <2>1, <2>2, <2>3
<1>6. PanicNeedsWrap'
  BY DEF PanicNeedsWrap, Waiting, Unwrapped, kernel
<1>7. (StampsArePast /\ DelaysAreWhole /\ LoopsArePast /\ PeriodKept)'
  BY <1>5, ByTask, PTL
<1> QED
  BY <1>2, <1>4, <1>6, <1>7 DEF ClockIInv

-----------------------------------------------------------------------------
(* The invariant.                                                          *)

\* A task can always do nothing.
LEMMA IdleTypes ==
  /\ Idle \in Activities /\ Idle.at = "idle"
  /\ 0 \in Waits \cup {0} /\ 0 \in 0..MaxRounds
BY ClockAssumption DEF ClockAssumption, Idle, Activities, Doing

\* The invariant holds initially.
LEMMA ClockIInvInit == ClockInit => ClockIInv
<1> SUFFICES ASSUME ClockInit PROVE ClockIInv
  OBVIOUS
<1>1. Idle \in Activities /\ Idle.at = "idle"
  BY IdleTypes
<1>2. \A t \in Tasks : clients[t] = Idle
  BY DEF ClockInit
<1>3. ClockTypeOK
  BY <1>1, ClockAssumption DEF ClockAssumption, ClockInit, ClockTypeOK
<1>4. Bookkeeping
  BY DEF ClockInit, Bookkeeping, Due
<1> QED
  BY <1>1, <1>2, <1>3, <1>4
     DEF ClockInit, ClockIInv, StampsArePast, DelaysAreWhole, LoopsArePast, PeriodKept,
         PanicNeedsWrap

\* What the steps of a task start from.
LEMMA Start ==
  ASSUME ClockIInv, NEW t \in Tasks
  PROVE  /\ hz \in Nat \ {0} /\ counted \in Nat /\ Due \in Nat /\ time \in Nat
         /\ clients[t] \in Activities
         /\ Consistent(clients[t], counted, Due, time, ToTicks(clients[t].wait))
         /\ ToTicks(clients[t].wait) \in Nat
<1>1. ClockTypeOK /\ AllConsistent
  BY ByTask DEF ClockIInv
<1>2. clients[t] \in Activities
  BY <1>1 DEF ClockTypeOK
<1>3. ToTicks(clients[t].wait) \in Nat
  BY <1>1, <1>2, ActivityTypes, HzIsPositive, ToTicksFacts
<1> QED
  BY <1>1, <1>2, <1>3, HzIsPositive DEF ClockTypeOK, AllConsistent, Due

\* A time-stamp is blind unless everything is counted.
LEMMA StampStep ==
  ASSUME ClockIInv, fault = "none", NEW t \in Tasks, NEW wait \in Waits, Stamp(t, wait)
  PROVE  ClockIInv'
<1> DEFINE doing == [Idle EXCEPT !.at = "timing", !.from = counted, !.since = time,
                                 !.blind = suspends + sections > 0, !.wait = wait]
<1>1. /\ counted \in Nat /\ time \in Nat /\ pended \in Nat /\ latched \in Nat
      /\ suspends \in Nat /\ sections \in Nat /\ Bookkeeping
  BY ClockAssumption DEF ClockAssumption, ClockIInv, ClockTypeOK
<1>2. doing \in Activities
  <2>1. /\ "timing" \in Doing /\ time \in Nat /\ 0 \in Nat /\ wait \in Waits \cup {0}
        /\ (suspends + sections > 0) \in BOOLEAN
    BY <1>1 DEF Doing
  <2> QED
    BY <1>1, <2>1, IdleTypes DEF Activities
<1>3. ~doing.blind => Due = counted
  <2>1. doing.blind = (suspends + sections > 0)
    BY DEF Idle
  <2> HIDE DEF doing
  <2>2. suspends + sections > 0 \/ (suspends = 0 /\ sections = 0)
    BY <1>1
  <2>3. suspends = 0 /\ sections = 0 => Due = counted
    BY <1>1 DEF Bookkeeping, Due
  <2> QED
    BY <2>1, <2>2, <2>3, Zenon
<1>4. Consistent(doing, counted, Due, time, ToTicks(doing.wait))
  BY <1>1, <1>3 DEF Consistent, Idle
<1>5. Set(t, doing) /\ UNCHANGED <<config, kernel, fault>>
  BY DEF Stamp
<1> HIDE DEF doing
<1> QED
  BY <1>2, <1>4, <1>5, ClientStep

\* A loop begins now.
LEMMA BeginStep ==
  ASSUME ClockIInv, fault = "none", NEW t \in Tasks, NEW wait \in Waits, Begin(t, wait)
  PROVE  ClockIInv'
<1> DEFINE doing == [Idle EXCEPT !.at = "periodic", !.from = counted, !.wait = wait]
<1>1. counted \in Nat
  BY DEF ClockIInv, ClockTypeOK
<1>2. doing \in Activities
  <2>1. /\ "periodic" \in Doing /\ 0 \in Nat /\ 0 \in Nat /\ wait \in Waits \cup {0}
        /\ FALSE \in BOOLEAN
    BY <1>1 DEF Doing
  <2> QED
    BY <1>1, <2>1, IdleTypes DEF Activities
<1>3. Consistent(doing, counted, Due, time, ToTicks(doing.wait))
  BY <1>1 DEF Consistent, Idle
<1>4. Set(t, doing) /\ UNCHANGED <<config, kernel, fault>>
  BY DEF Begin
<1> HIDE DEF doing
<1> QED
  BY <1>2, <1>3, <1>4, ClientStep

\* A task that does nothing is consistent.
LEMMA ForgetStep ==
  ASSUME ClockIInv, fault = "none", NEW t \in Tasks, Forget(t)
  PROVE  ClockIInv'
<1>1. Idle \in Activities /\ Idle.at = "idle"
  BY IdleTypes
<1>2. Consistent(Idle, counted, Due, time, ToTicks(Idle.wait))
  BY <1>1 DEF Consistent
<1>3. Set(t, Idle) /\ UNCHANGED <<config, kernel, fault>>
  BY DEF Forget
<1> QED
  BY <1>1, <1>2, <1>3, ClientStep

\* Without a wrap of the counter check_timer has nothing to subtract.
LEMMA PollStep ==
  ASSUME ClockIInv, fault = "none", NEW t \in Tasks, Poll(t)
  PROVE  ClockIInv'
<1>1. CASE Underflows(clients[t].from)
  <2>1. fault' = "panic" /\ UNCHANGED <<config, kernel, clients>>
    BY <1>1 DEF Poll
  <2>2. Waiting(t)
    BY DEF Poll, Waiting
  <2>3. clients[t].from \in Nat /\ clients[t].from <= counted
    BY <2>2, Start, ActivityTypes DEF Consistent, Waiting
  <2>4. ~Unwrapped(t)
    <3> SUFFICES ASSUME Unwrapped(t) PROVE FALSE
      OBVIOUS
    <3>1. counted \div Modulus = clients[t].from \div Modulus
      BY DEF Unwrapped
    <3>2. Milliseconds(clients[t].from) <= Milliseconds(counted)
      BY <2>3, <3>1, Start, PassingSameRound
    <3>3. Milliseconds(clients[t].from) \in Nat /\ Milliseconds(counted) \in Nat
      BY <2>3, Start, MillisecondsFacts
    <3> QED
      BY <1>1, <3>2, <3>3 DEF Underflows
  <2> QED
    BY <2>1, <2>2, <2>4, FaultStep
<1>2. CASE ~Underflows(clients[t].from)
  <2> DEFINE doing == [Idle EXCEPT !.at = "fired"]
  <2>1. Set(t, doing) /\ UNCHANGED <<config, kernel, fault>>
    BY <1>2 DEF Poll
  <2>2. doing \in Activities /\ doing.at = "fired"
    BY IdleTypes DEF Idle, Activities, Doing
  <2> HIDE DEF doing
  <2>3. Consistent(doing, counted, Due, time, ToTicks(doing.wait))
    BY <2>2 DEF Consistent
  <2> QED
    BY <2>1, <2>2, <2>3, ClientStep
<1> QED
  BY <1>1, <1>2

\* A delay ends its ticks from now, which is after its ticks from the stamp.
LEMMA DelayStep ==
  ASSUME ClockIInv, fault = "none", NEW t \in Tasks, Delay(t)
  PROVE  ClockIInv'
<1> DEFINE ticks == ToTicks(clients[t].wait)
           at    == IF ticks > 0 THEN "delayed" ELSE "slept"
           doing == [clients[t] EXCEPT !.at = at, !.wake = counted + ticks]
<1>1. CASE suspends > 0 /\ ticks > 0
  <2>1. fault' = "assert" /\ UNCHANGED <<config, kernel, clients>>
    BY <1>1 DEF Delay
  <2> QED
    BY <2>1, FaultStep
<1>2. CASE ~(suspends > 0 /\ ticks > 0)
  <2>1. Set(t, doing) /\ UNCHANGED <<config, kernel, fault>> /\ clients[t].at = "timing"
    BY <1>2 DEF Delay
  <2>2. /\ counted \in Nat /\ ticks \in Nat /\ clients[t] \in Activities
        /\ Consistent(clients[t], counted, Due, time, ticks)
    BY Start
  <2> HIDE DEF ticks
  <2>3. counted + ticks \in Nat /\ at \in Doing
    BY <2>2 DEF Doing
  <2>4. doing \in Activities
    BY <2>2, <2>3 DEF Activities
  <2>5. /\ doing.at = at /\ doing.wake = counted + ticks /\ doing.wait = clients[t].wait
        /\ doing.from = clients[t].from /\ doing.since = clients[t].since
        /\ doing.blind = clients[t].blind
    BY <2>2 DEF Activities
  <2> HIDE DEF doing
  <2>6. clients[t].from \in Nat /\ clients[t].from <= counted
    BY <2>1, <2>2, ActivityTypes DEF Consistent
  <2>7. Consistent(doing, counted, Due, time, ticks)
    BY <2>1, <2>2, <2>5, <2>6 DEF Consistent
  <2>8. Consistent(doing, counted, Due, time, ToTicks(doing.wait))
    BY <2>5, <2>7 DEF ticks
  <2> QED
    BY <2>1, <2>4, <2>8, ClientStep
<1> QED
  BY <1>1, <1>2

\* A task wakes when its delay is over.
LEMMA WakeUpStep ==
  ASSUME ClockIInv, fault = "none", NEW t \in Tasks, WakeUp(t)
  PROVE  ClockIInv'
<1> DEFINE ticks == ToTicks(clients[t].wait)
           at    == IF clients[t].at = "delayed" THEN "slept" ELSE "periodic"
           doing == [clients[t] EXCEPT !.at = at, !.wake = 0]
<1>1. /\ counted \in Nat /\ ticks \in Nat /\ clients[t] \in Activities
      /\ Consistent(clients[t], counted, Due, time, ticks)
  BY Start
<1>2. /\ clients[t].at \in {"delayed", "sleeping"} /\ counted >= clients[t].wake
      /\ UNCHANGED <<config, kernel, fault>>
  BY DEF WakeUp
<1>3. Set(t, doing)
  BY <1>1 DEF WakeUp, Activities
<1> HIDE DEF ticks
<1>4. doing \in Activities
  BY <1>1 DEF Activities, Doing
<1>5. /\ doing.at = at /\ doing.wait = clients[t].wait
      /\ doing.from = clients[t].from /\ doing.since = clients[t].since
      /\ doing.blind = clients[t].blind
  BY <1>1 DEF Activities
<1> HIDE DEF doing
<1>6. clients[t].from \in Nat /\ clients[t].wake \in Nat
  BY <1>1, ActivityTypes
<1>7. Consistent(doing, counted, Due, time, ticks)
  BY <1>1, <1>2, <1>5, <1>6, ClockAssumption DEF ClockAssumption, Consistent
<1>8. Consistent(doing, counted, Due, time, ToTicks(doing.wait))
  BY <1>5, <1>7 DEF ticks
<1> QED
  BY <1>2, <1>3, <1>4, <1>8, ClientStep

\* A loop sleeps to its planned instant, or has it behind it.
LEMMA DelayUntilStep ==
  ASSUME ClockIInv, fault = "none", NEW t \in Tasks, DelayUntil(t)
  PROVE  ClockIInv'
<1> DEFINE ticks == ToTicks(clients[t].wait)
           wake  == clients[t].from + ticks
           ends  == counted + ((Kernel(wake) - Kernel(counted)) % Modulus)
<1>1. /\ counted \in Nat /\ ticks \in Nat /\ clients[t] \in Activities
      /\ hz \in Nat \ {0}
      /\ Consistent(clients[t], counted, Due, time, ticks)
  BY Start
<1>2. /\ clients[t].from \in Nat /\ clients[t].wait \in Nat
      /\ clients[t].rounds \in 0..MaxRounds
  BY <1>1, ActivityTypes
<1>3. /\ clients[t].at = "periodic" /\ clients[t].rounds < MaxRounds
      /\ UNCHANGED <<config, kernel>>
  BY DEF DelayUntil
<1>4. clients[t].from <= counted
  BY <1>1, <1>3 DEF Consistent
<1>5. CASE suspends > 0 \/ ticks = 0
  <2>1. fault' = "assert" /\ UNCHANGED <<config, kernel, clients>>
    BY <1>5 DEF DelayUntil
  <2> QED
    BY <2>1, FaultStep
<1>6. ASSUME ~(suspends > 0 \/ ticks = 0), MustWait(clients[t].from, wake) PROVE ClockIInv'
  <2> DEFINE doing == [clients[t] EXCEPT !.at = "sleeping", !.from = wake, !.rounds = @ + 1,
                                         !.wake = ends]
  <2>1. Set(t, doing) /\ UNCHANGED fault
    BY <1>6 DEF DelayUntil
  <2>2. wake \in Nat /\ wake < counted + Modulus
    <3>1. 1000 * ticks <= Modulus - 1
      BY <1>1, <1>2, ToTicksFacts
    <3> HIDE DEF ticks
    <3> QED
      BY <1>1, <1>2, <1>4, <3>1, ClockAssumption DEF ClockAssumption
  <2> HIDE DEF ticks, wake
  <2>3. ends \in Nat /\ (ends = wake \/ ends >= wake + Modulus)
    BY <1>1, <2>2, WakeIsPlanned
  <2> HIDE DEF ends
  <2>4. clients[t].rounds + 1 \in 0..MaxRounds /\ "sleeping" \in Doing
    BY <1>2, <1>3, ClockAssumption DEF ClockAssumption, Doing
  <2>5. doing \in Activities
    BY <1>1, <2>2, <2>3, <2>4 DEF Activities
  <2>6. doing.at = "sleeping" /\ doing.from = wake /\ doing.wake = ends
    BY <1>1 DEF Activities
  <2> HIDE DEF doing
  <2>7. Consistent(doing, counted, Due, time, ToTicks(doing.wait))
    BY <2>3, <2>6 DEF Consistent
  <2> QED
    BY <1>3, <2>1, <2>5, <2>7, ClientStep
<1>7. ASSUME ~(suspends > 0 \/ ticks = 0), ~MustWait(clients[t].from, wake) PROVE ClockIInv'
  <2> DEFINE doing == [clients[t] EXCEPT !.from = wake, !.rounds = @ + 1]
  <2>1. Set(t, doing) /\ UNCHANGED fault
    BY <1>7 DEF DelayUntil
  <2>2. wake \in Nat /\ wake <= counted
    <3>1. 1000 * ticks <= Modulus - 1
      BY <1>1, <1>2, ToTicksFacts
    <3> HIDE DEF ticks
    <3>2. 0 < ticks /\ ticks < Modulus
      BY <1>1, <1>7, <3>1, ClockAssumption DEF ClockAssumption
    <3> QED
      BY <1>1, <1>2, <1>4, <1>7, <3>2, NotWaitingIsLate
  <2> HIDE DEF ticks, wake
  <2>3. clients[t].rounds + 1 \in 0..MaxRounds
    BY <1>2, <1>3, ClockAssumption DEF ClockAssumption
  <2>4. doing \in Activities
    BY <1>1, <2>2, <2>3 DEF Activities
  <2>5. doing.at = "periodic" /\ doing.from = wake
    BY <1>1, <1>3 DEF Activities
  <2> HIDE DEF doing
  <2>6. Consistent(doing, counted, Due, time, ToTicks(doing.wait))
    BY <2>2, <2>5 DEF Consistent
  <2> QED
    BY <1>3, <2>1, <2>4, <2>6, ClientStep
<1> QED
  BY <1>5, <1>6, <1>7

-----------------------------------------------------------------------------
(* The scheduler.                                                          *)

\* What the steps of the scheduler start from.
LEMMA Books ==
  ASSUME ClockIInv
  PROVE  /\ time \in Nat /\ counted \in Nat /\ pended \in Nat /\ latched \in {0, 1}
         /\ holder \in Tasks \cup Others \cup {None}
         /\ suspends \in 0..MaxNest /\ sections \in 0..MaxNest
         /\ suspends = 0 => pended = 0
         /\ sections = 0 => latched = 0
         /\ counted + pended + latched <= time
BY DEF ClockIInv, ClockTypeOK, Bookkeeping, Due

\* Ticks are counted, pended, or latched: the first of them at most.
LEMMA PassStep ==
  ASSUME ClockIInv, fault = "none", NEW i \in Instants, Pass(i)
  PROVE  ClockIInv'
<1>1. /\ i \in Nat /\ i > time /\ time' = i
      /\ UNCHANGED <<config, clients, fault, holder, suspends, sections>>
  BY ClockAssumption DEF ClockAssumption, Pass
<1>2. CASE sections > 0
  <2>1. latched' = 1 /\ counted' = counted /\ pended' = pended
    BY <1>2 DEF Pass
  <2>2. NoFaster(Due, Due', time, time') /\ counted' \in 0..time' /\ Due' \in Nat
    BY <1>1, <2>1, Books DEF Due, NoFaster
  <2> QED
    BY <1>1, <1>2, <2>1, <2>2, Books, KernelStep
<1>3. CASE sections = 0 /\ suspends > 0
  <2>1. pended' = pended + (i - time) /\ counted' = counted /\ latched' = latched
    BY <1>3 DEF Pass
  <2>2. /\ NoFaster(Due, Due', time, time') /\ counted' \in 0..time' /\ Due' \in Nat
        /\ pended' \in Nat
    BY <1>1, <2>1, Books DEF Due, NoFaster
  <2> QED
    BY <1>1, <1>3, <2>1, <2>2, Books, KernelStep
<1>4. CASE sections = 0 /\ suspends = 0
  <2>1. counted' = counted + (i - time) /\ pended' = pended /\ latched' = latched
    BY <1>4 DEF Pass
  <2>2. /\ NoFaster(Due, Due', time, time') /\ counted' \in 0..time' /\ Due' \in Nat
        /\ counted <= counted'
    BY <1>1, <2>1, Books DEF Due, NoFaster
  <2> QED
    BY <1>1, <1>4, <2>1, <2>2, Books, KernelStep
<1> QED
  BY <1>2, <1>3, <1>4, Books, ClockAssumption DEF ClockAssumption

\* Nothing is pended yet.
LEMMA SuspendAllStep ==
  ASSUME ClockIInv, fault = "none", NEW t \in Tasks \cup Others, SuspendAll(t)
  PROVE  ClockIInv'
<1>1. /\ suspends + sections < MaxNest /\ suspends' = suspends + 1 /\ holder' = t
      /\ UNCHANGED <<config, time, counted, pended, latched, sections, clients, fault>>
  BY DEF SuspendAll
<1>2. NoFaster(Due, Due', time, time') /\ Due' \in Nat
  BY <1>1, Books DEF Due, NoFaster
<1>3. suspends' \in 0..MaxNest /\ suspends' # 0
  BY <1>1, Books, ClockAssumption DEF ClockAssumption
<1> QED
  BY <1>1, <1>2, <1>3, Books, KernelStep

\* What was pended is counted, once, by the last resume_all().
LEMMA ResumeAllStep ==
  ASSUME ClockIInv, fault = "none", NEW t \in Tasks \cup Others, ResumeAll(t)
  PROVE  ClockIInv'
<1>1. /\ suspends > 0 /\ suspends' = suspends - 1 /\ holder' \in {t, None}
      /\ UNCHANGED <<config, time, latched, sections, clients, fault>>
  BY DEF ResumeAll
<1>2. suspends' \in 0..MaxNest /\ suspends \in Nat
  BY <1>1, Books, ClockAssumption DEF ClockAssumption
<1>3. CASE suspends = 1
  <2>1. counted' = counted + pended /\ pended' = 0
    BY <1>3 DEF ResumeAll
  <2>2. /\ NoFaster(Due, Due', time, time') /\ Due' \in Nat
        /\ counted' \in 0..time' /\ counted <= counted'
    BY <1>1, <2>1, Books DEF Due, NoFaster
  <2> QED
    BY <1>1, <1>2, <2>1, <2>2, Books, KernelStep
<1>4. CASE suspends # 1
  <2>1. counted' = counted /\ pended' = pended /\ suspends' # 0
    BY <1>1, <1>2, <1>4 DEF ResumeAll
  <2>2. /\ NoFaster(Due, Due', time, time') /\ Due' \in Nat
        /\ counted' \in 0..time' /\ counted <= counted'
    BY <1>1, <2>1, Books DEF Due, NoFaster
  <2> QED
    BY <1>1, <1>2, <2>1, <2>2, Books, KernelStep
<1> QED
  BY <1>3, <1>4

\* Nothing is latched yet.
LEMMA CriticalSectionEnterStep ==
  ASSUME ClockIInv, fault = "none", NEW t \in Tasks \cup Others, CriticalSectionEnter(t)
  PROVE  ClockIInv'
<1>1. /\ suspends + sections < MaxNest /\ sections' = sections + 1 /\ holder' = t
      /\ UNCHANGED <<config, time, counted, pended, latched, suspends, clients, fault>>
  BY DEF CriticalSectionEnter
<1>2. NoFaster(Due, Due', time, time') /\ Due' \in Nat
  BY <1>1, Books DEF Due, NoFaster
<1>3. sections' \in 0..MaxNest /\ sections' # 0
  BY <1>1, Books, ClockAssumption DEF ClockAssumption
<1> QED
  BY <1>1, <1>2, <1>3, Books, KernelStep

\* The latched tick is counted, or pended if the scheduler is suspended.
LEMMA CriticalSectionExitStep ==
  ASSUME ClockIInv, fault = "none", NEW t \in Tasks \cup Others, CriticalSectionExit(t)
  PROVE  ClockIInv'
<1>1. /\ sections > 0 /\ sections' = sections - 1 /\ holder' \in {t, None}
      /\ UNCHANGED <<config, time, suspends, clients, fault>>
  BY DEF CriticalSectionExit
<1>2. sections' \in 0..MaxNest /\ sections \in Nat /\ suspends \in Nat
  BY <1>1, Books, ClockAssumption DEF ClockAssumption
<1>3. CASE sections > 1
  <2>1. counted' = counted /\ pended' = pended /\ latched' = latched /\ sections' # 0
    BY <1>1, <1>2, <1>3 DEF CriticalSectionExit
  <2>2. /\ NoFaster(Due, Due', time, time') /\ Due' \in Nat
        /\ counted' \in 0..time' /\ counted <= counted'
    BY <1>1, <2>1, Books DEF Due, NoFaster
  <2> QED
    BY <1>1, <1>2, <2>1, <2>2, Books, KernelStep
<1>4. CASE sections = 1 /\ suspends = 0
  <2>1. counted' = counted + latched /\ pended' = pended /\ latched' = 0
    BY <1>1, <1>2, <1>4 DEF CriticalSectionExit
  <2>2. /\ NoFaster(Due, Due', time, time') /\ Due' \in Nat
        /\ counted' \in 0..time' /\ counted <= counted'
    BY <1>1, <2>1, Books DEF Due, NoFaster
  <2> QED
    BY <1>1, <1>2, <2>1, <2>2, Books, KernelStep
<1>5. CASE sections = 1 /\ suspends > 0
  <2>1. counted' = counted /\ pended' = pended + latched /\ latched' = 0
    BY <1>1, <1>2, <1>5 DEF CriticalSectionExit
  <2>2. /\ NoFaster(Due, Due', time, time') /\ Due' \in Nat /\ pended' \in Nat
        /\ counted' \in 0..time' /\ counted <= counted'
    BY <1>1, <2>1, Books DEF Due, NoFaster
  <2> QED
    BY <1>1, <1>2, <1>5, <2>1, <2>2, Books, KernelStep
<1> QED
  BY <1>1, <1>2, <1>3, <1>4, <1>5

\* Nothing happens.
LEMMA ClockIInvStutter ==
  ASSUME ClockIInv, UNCHANGED clockVars
  PROVE  ClockIInv'
<1>1. UNCHANGED <<config, kernel, clients, fault>>
  BY DEF clockVars, config, kernel
<1>2. CASE fault = "none"
  <2>1. /\ NoFaster(Due, Due', time, time') /\ Due' \in Nat
        /\ counted' \in 0..time' /\ counted <= counted'
    BY <1>1, Books DEF Due, NoFaster, kernel
  <2> QED
    BY <1>1, <1>2, <2>1, Books, KernelStep DEF kernel
<1>3. CASE fault # "none"
  <2>1. fault' \in {"assert", "panic"}
    BY <1>1, <1>3 DEF ClockIInv, ClockTypeOK
  <2>2. fault' = "panic" => \E t \in Tasks : Waiting(t) /\ ~Unwrapped(t)
    BY <1>1 DEF ClockIInv, PanicNeedsWrap
  <2> QED
    BY <1>1, <2>1, <2>2, FaultStep
<1> QED
  BY <1>2, <1>3

\* Every step keeps the invariant.
LEMMA ClockIInvStep == ClockIInv /\ [ClockNext]_clockVars => ClockIInv'
<1> SUFFICES ASSUME ClockIInv, [ClockNext]_clockVars PROVE ClockIInv'
  OBVIOUS
<1>1. CASE UNCHANGED clockVars
  BY <1>1, ClockIInvStutter
<1>2. CASE ClockNext
  <2>1. fault = "none" /\ ClockStep
    BY <1>2 DEF ClockNext
  <2>2. ASSUME NEW i \in Instants, Pass(i) PROVE ClockIInv'
    BY <2>1, <2>2, PassStep
  <2>3. ASSUME NEW t \in Tasks, NEW wait \in Waits, Stamp(t, wait) \/ Begin(t, wait)
        PROVE  ClockIInv'
    BY <2>1, <2>3, StampStep, BeginStep
  <2>4. ASSUME NEW t \in Tasks,
               Poll(t) \/ Forget(t) \/ Delay(t) \/ WakeUp(t) \/ DelayUntil(t)
        PROVE  ClockIInv'
    BY <2>1, <2>4, PollStep, ForgetStep, DelayStep, WakeUpStep, DelayUntilStep
  <2>5. ASSUME NEW t \in Tasks \cup Others,
               SuspendAll(t) \/ ResumeAll(t) \/ CriticalSectionEnter(t) \/ CriticalSectionExit(t)
        PROVE  ClockIInv'
    BY <2>1, <2>5, SuspendAllStep, ResumeAllStep, CriticalSectionEnterStep, CriticalSectionExitStep
  <2> QED
    BY <2>1, <2>2, <2>3, <2>4, <2>5 DEF ClockStep
<1> QED
  BY <1>1, <1>2

\* The inductive invariant holds in every reachable state.
THEOREM ClockInvariant == ClockSpec => []ClockIInv
BY ClockIInvInit, ClockIInvStep, PTL DEF ClockSpec

-----------------------------------------------------------------------------
(* Properties.                                                             *)

\* Types, for any width, rate, durations and depth of nesting: the kernel's
\* count never gets ahead of the hardware's.
THEOREM ClockTypeCorrect == ClockSpec => []ClockTypeOK
<1>1. ClockIInv => ClockTypeOK
  BY DEF ClockIInv
<1> QED
  BY <1>1, ClockInvariant, PTL

\* check_timer is never a millisecond too early, however the scheduler was
\* suspended and interrupts were masked since the time-stamp.
THEOREM CheckTimerNotEarly == ClockSpec => []NotEarly
<1>1. ClockIInv => NotEarly
  <2> SUFFICES ASSUME ClockIInv, NEW t \in Tasks, Waiting(t), Unwrapped(t), ~clients[t].blind,
                      CheckTimer(clients[t].from, clients[t].wait)
               PROVE  1000 * (time - clients[t].since) > hz * (clients[t].wait - 1)
    BY DEF NotEarly
  <2> DEFINE from == clients[t].from
             wait == clients[t].wait
             since == clients[t].since
  <2>1. /\ from \in Nat /\ wait \in Nat /\ since \in Nat
        /\ hz \in Nat \ {0} /\ counted \in Nat /\ Due \in Nat /\ time \in Nat
    BY Start, ActivityTypes
  <2>2. from <= counted /\ Due - from <= time - since
    BY Start DEF Consistent, Waiting
  <2>3. counted <= Due
    BY Books DEF Due
  <2>4. counted \div Modulus = from \div Modulus /\ CheckTimer(from, wait)
    BY DEF Unwrapped
  <2> HIDE DEF from, wait, since
  <2>5. 1000 * (counted - from) > hz * (wait - 1)
    BY <2>1, <2>2, <2>4, CheckedIsPassed
  <2>6. 1000 * (time - since) >= 1000 * (counted - from)
    BY <2>1, <2>2, <2>3
  <2>7. hz * (wait - 1) \in Int
    BY <2>1
  <2>8. 1000 * (time - since) > hz * (wait - 1)
    BY <2>1, <2>5, <2>6, <2>7
  <2> QED
    BY <2>8 DEF from, wait, since
<1> QED
  BY <1>1, ClockInvariant, PTL

\* Nor is it more than a millisecond late, while no tick is lost or pended.
THEOREM CheckTimerNotLate == ClockSpec => []NotLate
<1>1. ClockIInv => NotLate
  <2> SUFFICES ASSUME ClockIInv, NEW t \in Tasks, Waiting(t), Unwrapped(t), Counted(t),
                      1000 * (time - clients[t].since) >= hz * (clients[t].wait + 1),
                      ~CheckTimer(clients[t].from, clients[t].wait)
               PROVE  FALSE
    BY DEF NotLate
  <2> DEFINE from == clients[t].from
             wait == clients[t].wait
             since == clients[t].since
  <2>1. /\ from \in Nat /\ wait \in Nat /\ since \in Nat
        /\ hz \in Nat \ {0} /\ counted \in Nat /\ time \in Nat
    BY Start, ActivityTypes
  <2>2. from <= counted /\ counted - from = time - since
    BY Start DEF Consistent, Waiting, Counted
  <2>3. /\ counted \div Modulus = from \div Modulus /\ ~CheckTimer(from, wait)
        /\ 1000 * (time - since) >= hz * (wait + 1)
    BY DEF Unwrapped
  <2> HIDE DEF from, wait, since
  <2>4. 1000 * (counted - from) < hz * (wait + 1)
    BY <2>1, <2>2, <2>3, CheckedIsPassed
  <2>5. hz * (wait + 1) \in Int
    BY <2>1
  <2> QED
    BY <2>1, <2>2, <2>3, <2>4, <2>5
<1> QED
  BY <1>1, ClockInvariant, PTL

\* The subtraction in check_timer panics only after a wrap of the counter.
THEOREM CheckTimerPanics == ClockSpec => []PanicNeedsWrap
<1>1. ClockIInv => PanicNeedsWrap
  BY DEF ClockIInv
<1> QED
  BY <1>1, ClockInvariant, PTL

\* A task that sleeps for wait.to_ticks() has slept for what check_timer asks,
\* for every duration the conversion keeps.
THEOREM SleepIsEnough == ClockSpec => []SleptEnough
<1>1. ClockIInv => SleptEnough
  <2> SUFFICES ASSUME ClockIInv, NEW t \in Tasks, clients[t].at = "slept", Unwrapped(t),
                      Exact(clients[t].wait)
               PROVE  CheckTimer(clients[t].from, clients[t].wait)
    BY DEF SleptEnough
  <2> DEFINE from == clients[t].from
             wait == clients[t].wait
             ticks == ToTicks(wait)
  <2>1. /\ from \in Nat /\ wait \in Nat /\ ticks \in Nat
        /\ hz \in Nat \ {0} /\ counted \in Nat
    BY Start, ActivityTypes
  <2>2. from <= counted /\ counted >= from + ticks
    BY Start DEF Consistent
  <2>3. counted \div Modulus = from \div Modulus
    BY DEF Unwrapped
  <2>4. 1000 * ticks = wait * hz
    BY <2>1, ExactTicks
  <2> HIDE DEF ticks, from, wait
  <2>5. 1000 * (counted - from) >= 1000 * ticks
    BY <2>1, <2>2
  <2>6. wait * hz = hz * wait /\ hz * wait \in Int
    BY <2>1
  <2>7. 1000 * (counted - from) >= hz * wait
    BY <2>1, <2>4, <2>5, <2>6
  <2>8. CheckTimer(from, wait)
    BY <2>1, <2>2, <2>3, <2>7, CheckedIsPassed
  <2> QED
    BY <2>8 DEF from, wait
<1> QED
  BY <1>1, ClockInvariant, PTL

\* No time-out is longer than the Duration it was made from, and none is
\* endless.
THEOREM TimeoutsAreBounded == ClockSpec => []TimeoutsBounded
<1>1. ClockIInv => TimeoutsBounded
  <2> SUFFICES ASSUME ClockIInv, NEW t \in Tasks, clients[t].at = "delayed",
                      NEW left, left = clients[t].wake - counted
               PROVE  /\ 1000 * left <= hz * clients[t].wait
                      /\ left > 0 => FromTicks(left) <= clients[t].wait
                      /\ left <= (Modulus - 1) \div 1000
    BY DEF TimeoutsBounded
  <2> DEFINE wait == clients[t].wait
             ticks == ToTicks(wait)
             bound == (Modulus - 1) \div 1000
  <2>1. /\ wait \in Nat /\ ticks \in Nat /\ hz \in Nat \ {0} /\ counted \in Nat
        /\ clients[t].wake \in Nat
    BY Start, ActivityTypes
  <2>2. clients[t].wake <= counted + ticks
    BY Start DEF Consistent
  <2>3. left \in Int /\ left <= ticks
    BY <2>1, <2>2
  <2>4. 1000 * ticks <= wait * hz /\ ticks <= bound
    BY <2>1, ToTicksFacts
  <2>5. bound \in Int
    BY ClockAssumption DEF ClockAssumption
  <2> HIDE DEF ticks, wait, bound
  <2>6. wait * hz = hz * wait /\ hz * wait \in Int
    BY <2>1
  <2>7. 1000 * left <= hz * wait /\ left <= bound
    BY <2>1, <2>3, <2>4, <2>5, <2>6
  <2>8. left > 0 => FromTicks(left) <= wait
    BY <2>1, <2>3, <2>7, FromTicksBound
  <2> QED
    BY <2>7, <2>8 DEF wait, bound
<1> QED
  BY <1>1, ClockInvariant, PTL

\* delay_until keeps its period, for every increment and however often the
\* counter wraps.
THEOREM PeriodIsKept == ClockSpec => []PeriodKept
<1>1. ClockIInv => PeriodKept
  BY DEF ClockIInv
<1> QED
  BY <1>1, ClockInvariant, PTL

=============================================================================

-------------------------- MODULE EventGroupProofs --------------------------
(***************************************************************************)
(* Theorems of EventGroup, for any tasks, bits, masks, time-outs and       *)
(* length of the daemon's queue.                                           *)
(***************************************************************************)
EXTENDS EventGroup, TLAPS

USE EventGroupAssumption DEF EventGroupAssumption

LEMMA EndlessType == Endless \in Nat /\ 0 \in 0..Endless
  BY DEF Endless

USE EndlessType

LEMMA IInvInit == Init => IInv
<1> SUFFICES ASSUME Init PROVE IInv
  OBVIOUS
<1>1. BitTypes /\ WaitTypes
  <2>1. BitTypes
    <3>1. <<>> \in Seq(Commands \cup {Freed, Other}) /\ Len(<<>>) <= QueueLength
      OBVIOUS
    <3> QED
      BY <3>1 DEF Init, BitTypes
  <2>2. WaitTypes
    BY DEF Init, WaitTypes
  <2> QED
    BY <2>1, <2>2
<1>2. BitInv
  BY <1>1 DEF Init, BitInv, Settles, BitsNeedLive, Pending, OnlyReuseFaults
<1>3. WaitInv
  BY <1>1 DEF Init, WaitInv, NoSleeperOnSetBit, WaitersNeedLive, NobodyInside,
     WaitingHasTime, SuspendedInside, WokenHasBit, NoMissedBit
<1> QED
  BY <1>2, <1>3 DEF IInv

-----------------------------------------------------------------------------
(* The waiting tasks.                                                      *)

\* Bits that come to be set leave nobody asleep on one of them.
LEMMA SetBitsKeepsWaits ==
  ASSUME WaitInv, BitTypes, NEW set \in SUBSET Bits, SetBits(set), UNCHANGED <<handle, missed>>
  PROVE  WaitInv'
<1> DEFINE woken == {t \in Tasks : pc[t] = "waiting" /\ mask[t] \cap (bits \cup set) # {}}
<1>1. \A t \in Tasks :
        \/ /\ t \in woken /\ pc'[t] = "woken" /\ remaining'[t] = 0
           /\ result'[t] = bits'
        \/ /\ t \notin woken /\ pc'[t] = pc[t] /\ remaining'[t] = remaining[t]
           /\ result'[t] = result[t]
  BY DEF SetBits, WaitInv, WaitTypes
<1>2. bits' = bits \cup set /\ UNCHANGED <<suspended, mask>>
  BY DEF SetBits
<1>3. WaitTypes'
  <2>1. pc' \in [Tasks -> {"ready", "waiting", "woken", "expired", "gone"}]
    BY DEF SetBits, WaitInv, WaitTypes
  <2>2. remaining' \in [Tasks -> 0..Endless]
    BY DEF SetBits, WaitInv, WaitTypes
  <2>3. result' \in [Tasks -> SUBSET Bits]
    BY DEF SetBits, WaitInv, WaitTypes, BitTypes
  <2> QED
    BY <1>2, <2>1, <2>2, <2>3 DEF WaitInv, WaitTypes
<1>4. NoSleeperOnSetBit' /\ WokenHasBit'
  BY <1>1, <1>2 DEF WaitInv, WaitTypes, NoSleeperOnSetBit, WokenHasBit
<1>5. WaitersNeedLive' /\ WaitingHasTime' /\ SuspendedInside' /\ NoMissedBit'
  BY <1>1, <1>2 DEF WaitInv, WaitTypes, WaitersNeedLive, NobodyInside, WaitingHasTime,
     SuspendedInside, NoMissedBit
<1> QED
  BY <1>3, <1>4, <1>5 DEF WaitInv

\* Bits that are cleared, or not changed, disturb nobody.
LEMMA FewerBitsKeepWaits ==
  ASSUME WaitInv, bits' \subseteq bits, UNCHANGED <<waits, missed>>,
         NobodyInside \/ UNCHANGED handle
  PROVE  WaitInv'
  BY DEF waits, WaitInv, WaitTypes, NoSleeperOnSetBit, WaitersNeedLive, NobodyInside,
     WaitingHasTime, SuspendedInside, WokenHasBit, NoMissedBit

LEMMA WaitKeepsWaits ==
  ASSUME WaitInv, NEW t \in Tasks, NEW m \in Masks, NEW n \in 0..Endless, Wait(t, m, n)
  PROVE  WaitInv'
<1>1. CASE UNCHANGED waits
  BY <1>1, FewerBitsKeepWaits DEF Wait
<1>2. CASE /\ m \cap bits = {} /\ n > 0
           /\ pc' = [pc EXCEPT ![t] = "waiting"]
           /\ mask' = [mask EXCEPT ![t] = m]
           /\ remaining' = [remaining EXCEPT ![t] = n]
           /\ UNCHANGED <<suspended, result>>
  <2>1. UNCHANGED <<handle, bits, missed>> /\ handle = "live"
    BY DEF Wait
  <2>2. WaitTypes'
    BY <1>2, <2>1 DEF WaitInv, WaitTypes
  <2>3. pc[t] = "ready" /\ t \notin suspended
    BY DEF Wait, WaitInv, SuspendedInside
  <2>4. NoSleeperOnSetBit' /\ WaitersNeedLive' /\ WaitingHasTime'
    BY <1>2, <2>1 DEF WaitInv, WaitTypes, NoSleeperOnSetBit, WaitersNeedLive, NobodyInside,
       WaitingHasTime
  <2>5. SuspendedInside' /\ WokenHasBit' /\ NoMissedBit'
    BY <1>2, <2>1, <2>3 DEF WaitInv, WaitTypes, SuspendedInside, WokenHasBit, NoMissedBit
  <2> QED
    BY <2>2, <2>4, <2>5 DEF WaitInv
<1> QED
  BY <1>1, <1>2 DEF Wait

LEMMA TickKeepsWaits == WaitInv /\ Tick => WaitInv'
<1> SUFFICES ASSUME WaitInv, Tick PROVE WaitInv'
  OBVIOUS
<1>1. \A t \in Tasks :
        \/ ~Ages(t) /\ pc'[t] = pc[t] /\ remaining'[t] = remaining[t]
        \/ /\ Ages(t) /\ remaining[t] = 1
           /\ pc'[t] = "expired" /\ remaining'[t] = 0
        \/ /\ Ages(t) /\ remaining[t] > 1
           /\ pc'[t] = "waiting" /\ remaining'[t] = remaining[t] - 1
  BY DEF Tick, Ages, WaitInv, WaitTypes, WaitingHasTime
<1>2. UNCHANGED <<handle, bits, suspended, mask, result, missed>>
  BY DEF Tick, Ages, history
<1>3. WaitTypes'
  <2>1. pc' \in [Tasks -> {"ready", "waiting", "woken", "expired", "gone"}]
    BY DEF Tick, Ages, WaitInv, WaitTypes
  <2>2. remaining' \in [Tasks -> 0..Endless]
    BY DEF Tick, Ages, WaitInv, WaitTypes, WaitingHasTime
  <2> QED
    BY <1>2, <2>1, <2>2 DEF WaitInv, WaitTypes
<1>4. NoSleeperOnSetBit' /\ WaitersNeedLive' /\ WaitingHasTime' /\ SuspendedInside' /\ WokenHasBit'
        /\ NoMissedBit'
  BY <1>1, <1>2 DEF Ages, WaitInv, WaitTypes, NoSleeperOnSetBit, WaitersNeedLive, NobodyInside,
     WaitingHasTime, SuspendedInside, WokenHasBit, NoMissedBit
<1> QED
  BY <1>3, <1>4 DEF WaitInv

\* Suspending, resuming or deleting a task inside wait() changes no bit, and
\* leaves it with what woke it, if anything did.
LEMMA MeanwhileKeepsWaits ==
  ASSUME WaitInv, NEW t \in Tasks, Suspend(t) \/ Resume(t) \/ DeleteTask(t) PROVE WaitInv'
<1>1. UNCHANGED <<handle, bits, missed>>
  BY DEF Suspend, Resume, DeleteTask
<1>2. Inside(t)
  BY DEF Suspend, Resume, DeleteTask, Inside, WaitInv, SuspendedInside
<1>3. WaitTypes'
  BY <1>1 DEF Suspend, Resume, DeleteTask, WaitInv, WaitTypes
<1>4. NoSleeperOnSetBit' /\ WaitingHasTime' /\ WokenHasBit' /\ NoMissedBit'
  BY <1>1 DEF Suspend, Resume, DeleteTask, WaitInv, WaitTypes, NoSleeperOnSetBit,
     WaitingHasTime, WokenHasBit, NoMissedBit
<1>5. WaitersNeedLive' /\ SuspendedInside'
  BY <1>1, <1>2 DEF Suspend, Resume, DeleteTask, Inside, WaitInv, WaitTypes,
     WaitersNeedLive, NobodyInside, SuspendedInside
<1> QED
  BY <1>3, <1>4, <1>5 DEF WaitInv

LEMMA ReturnKeepsWaits ==
  ASSUME WaitInv, NEW t \in Tasks, Return(t) PROVE WaitInv'
<1>1. UNCHANGED <<handle, bits, remaining>>
  BY DEF Return
<1>2. missed' = missed
  BY DEF Return, Returned, WaitInv, WokenHasBit
<1>3. WaitTypes'
  BY <1>1, <1>2 DEF Return, WaitInv, WaitTypes
<1>4. NoSleeperOnSetBit' /\ WaitersNeedLive' /\ WaitingHasTime' /\ SuspendedInside' /\ WokenHasBit'
        /\ NoMissedBit'
  BY <1>1, <1>2 DEF Return, WaitInv, WaitTypes, NoSleeperOnSetBit, WaitersNeedLive, NobodyInside,
     WaitingHasTime, SuspendedInside, WokenHasBit, NoMissedBit
<1> QED
  BY <1>3, <1>4 DEF WaitInv

-----------------------------------------------------------------------------
(* The bits and the commands on their way.                                 *)

\* A call of a task, which changes the bits now and settles those no command
\* is on its way for.
LEMMA TaskCallSettles ==
  ASSUME BitInv, NEW b \in SUBSET Bits, Set(b) \/ Clear(b) PROVE BitInv'
<1>1. UNCHANGED <<handle, queue, stuck, fault>> /\ handle = "live"
  BY DEF Set, Clear, daemon
<1>2. BitTypes'
  BY <1>1 DEF Set, Clear, SetBits, ClearBits, Crossing, BitInv, BitTypes
<1>3. Settles'
  <2>1. \A c \in Bits : ~Pending(c)' <=> ~Pending(c)
    BY <1>1 DEF Pending
  <2>2. \A c \in Bits \ crossed' :
          \/ c \in b /\ ~Pending(c) /\ (c \in bits' <=> c \in wanted')
          \/ /\ c \notin b /\ c \notin crossed
             /\ (c \in bits' <=> c \in bits) /\ (c \in wanted' <=> c \in wanted)
    BY DEF Set, Clear, SetBits, ClearBits, Crossing
  <2>3. \A c \in Bits, i \in 1..Len(queue) : LastOn(c, i)' => LastOn(c, i) /\ Pending(c)
    BY <1>1 DEF LastOn, Pending
  <2> QED
    BY <1>1, <2>1, <2>2, <2>3 DEF BitInv, Settles
<1>4. BitsNeedLive' /\ OnlyReuseFaults'
  BY <1>1 DEF BitInv, BitsNeedLive, OnlyReuseFaults
<1> QED
  BY <1>2, <1>3, <1>4 DEF BitInv

\* A command joins the end of the queue.
LEMMA DeferSettles ==
  ASSUME BitInv, handle = "live", NEW op \in {"set", "clear"}, NEW b \in SUBSET Bits,
         Defer(op, b), UNCHANGED <<handle, bits, stuck, fault>>,
         wanted' = IF op = "set" THEN wanted \cup b ELSE wanted \ b
  PROVE  BitInv'
<1> DEFINE command == [op |-> op, bits |-> b]
<1>1. /\ Len(queue') = Len(queue) + 1
      /\ \A i \in 1..Len(queue) : queue'[i] = queue[i]
      /\ queue'[Len(queue) + 1] = command
      /\ Len(queue) \in Nat /\ Len(queue) < QueueLength
  BY DEF Defer, Full, BitInv, BitTypes
<1>2. BitTypes'
  <2>1. command \in Commands
    BY DEF Commands
  <2>2. queue' \in Seq(Commands \cup {Freed, Other})
    BY <2>1 DEF Defer, BitInv, BitTypes
  <2> QED
    BY <1>1, <2>2 DEF Defer, BitInv, BitTypes
<1>3. ASSUME NEW c \in Bits \ crossed'
      PROVE  /\ \A i \in 1..Len(queue') : LastOn(c, i)' => (queue'[i].op = "set" <=> c \in wanted')
             /\ ~Pending(c)' => (c \in bits' <=> c \in wanted')
  <2>1. CASE c \in b
    BY <1>1, <2>1 DEF LastOn, Pending
  <2>2. CASE c \notin b
    <3>1. c \notin crossed /\ (c \in wanted' <=> c \in wanted)
      BY <2>2 DEF Defer
    <3>2. \A i \in 1..Len(queue') : LastOn(c, i)' => i \in 1..Len(queue) /\ LastOn(c, i)
      BY <1>1, <2>2 DEF LastOn
    <3>3. ~Pending(c)' => ~Pending(c)
      BY <1>1 DEF Pending
    <3> QED
      BY <1>1, <3>1, <3>2, <3>3 DEF BitInv, Settles
  <2> QED
    BY <2>1, <2>2
<1>4. Settles' /\ BitsNeedLive' /\ OnlyReuseFaults'
  BY <1>3 DEF Settles, BitsNeedLive, OnlyReuseFaults, BitInv
<1> QED
  BY <1>2, <1>4 DEF BitInv

LEMMA OtherSettles == BitInv /\ OtherCommand => BitInv'
<1> SUFFICES ASSUME BitInv, OtherCommand PROVE BitInv'
  OBVIOUS
<1>1. /\ Len(queue') = Len(queue) + 1
      /\ \A i \in 1..Len(queue) : queue'[i] = queue[i]
      /\ queue'[Len(queue) + 1] = Other
      /\ Len(queue) \in Nat /\ Len(queue) < QueueLength
      /\ queue' \in Seq(Commands \cup {Freed, Other})
  BY DEF OtherCommand, Full, BitInv, BitTypes
<1>2. UNCHANGED <<handle, bits, stuck, wanted, crossed, fault>>
  BY DEF OtherCommand, history
<1>3. \A c \in Bits : Pending(c)' <=> Pending(c)
  BY <1>1 DEF Pending, Other
<1>4. \A c \in Bits, i \in 1..Len(queue') : LastOn(c, i)' => i \in 1..Len(queue) /\ LastOn(c, i)
  BY <1>1 DEF LastOn, Other
<1>5. BitTypes'
  BY <1>1, <1>2 DEF BitInv, BitTypes
<1>6. Settles' /\ BitsNeedLive' /\ OnlyReuseFaults'
  BY <1>1, <1>2, <1>3, <1>4 DEF BitInv, Settles, BitsNeedLive, OnlyReuseFaults
<1> QED
  BY <1>5, <1>6 DEF BitInv

\* The oldest command leaves the queue and takes effect: on a bit that was its
\* own last, the bits are now as wanted.
LEMMA ProcessSettles == BitInv /\ Process => BitInv'
<1> SUFFICES ASSUME BitInv, Process PROVE BitInv'
  OBVIOUS
<1> DEFINE command == queue[1]
<1>1. /\ Len(queue) \in Nat /\ Len(queue) > 0
      /\ Len(queue') = Len(queue) - 1
      /\ \A i \in 1..Len(queue') : queue'[i] = queue[i + 1]
      /\ queue' \in Seq(Commands \cup {Freed, Other})
      /\ command \in Commands \cup {Freed, Other}
      /\ Head(queue) = command
  BY DEF Process, BitInv, BitTypes
<1>2. UNCHANGED <<handle, stuck, wanted, crossed>>
  BY DEF Process, history
<1>3. \/ command.op = "set" /\ bits' = bits \cup command.bits /\ UNCHANGED fault
      \/ command.op = "clear" /\ bits' = bits \ command.bits /\ UNCHANGED fault
      \/ command.bits = {} /\ bits' = bits /\ fault' \in {fault, "freed"}
  BY <1>1 DEF Process, SetBits, ClearBits, Freed, Other
<1>4. command.bits \subseteq Bits /\ (command.bits # {} => command.op \in {"set", "clear"})
  BY <1>1 DEF Commands, Freed, Other
<1>5. BitTypes'
  BY <1>1, <1>2, <1>3, <1>4 DEF BitInv, BitTypes
<1> HIDE DEF command
<1>6. \A j \in 1..Len(queue) : j = 1 \/ (j - 1 \in 1..Len(queue') /\ queue'[j - 1] = queue[j])
  <2> SUFFICES ASSUME NEW j \in 1..Len(queue), j # 1
               PROVE  j - 1 \in 1..Len(queue') /\ queue'[j - 1] = queue[j]
    OBVIOUS
  <2>1. j - 1 \in 1..Len(queue') /\ (j - 1) + 1 = j
    BY <1>1
  <2> QED
    BY <1>1, <2>1
<1>7. ASSUME NEW c \in Bits, NEW i \in 1..Len(queue'), LastOn(c, i)'
      PROVE  LastOn(c, i + 1)
  <2>1. /\ i \in 1..Len(queue') /\ c \in queue'[i].bits
        /\ \A j \in 1..Len(queue') : j > i => c \notin queue'[j].bits
    BY <1>7 DEF LastOn
  <2>2. i + 1 \in 1..Len(queue) /\ c \in queue[i + 1].bits
    BY <1>1, <2>1
  <2>3. ASSUME NEW j \in 1..Len(queue), j > i + 1 PROVE c \notin queue[j].bits
    <3>1. j - 1 \in 1..Len(queue') /\ j - 1 > i /\ queue'[j - 1] = queue[j]
      BY <1>6, <2>3
    <3> QED
      BY <2>1, <3>1
  <2> QED
    BY <2>2, <2>3 DEF LastOn
<1>8. ASSUME NEW c \in Bits, ~Pending(c)', Pending(c)
      PROVE  c \in command.bits /\ LastOn(c, 1)
  <2>1. \A i \in 1..Len(queue') : c \notin queue'[i].bits
    BY <1>8 DEF Pending
  <2>2. \A j \in 1..Len(queue) : j # 1 => c \notin queue[j].bits
    BY <1>6, <2>1
  <2>3. 1 \in 1..Len(queue) /\ c \in queue[1].bits
    BY <1>1, <1>8, <2>2 DEF Pending
  <2> QED
    BY <2>2, <2>3 DEF LastOn, command
<1>9. ASSUME handle = "live", NEW c \in Bits \ crossed
      PROVE  /\ \A i \in 1..Len(queue') : LastOn(c, i)' => (queue'[i].op = "set" <=> c \in wanted')
             /\ ~Pending(c)' => (c \in bits' <=> c \in wanted')
  <2>1. /\ \A i \in 1..Len(queue) : LastOn(c, i) => (queue[i].op = "set" <=> c \in wanted)
        /\ ~Pending(c) => (c \in bits <=> c \in wanted)
    BY <1>9 DEF BitInv, Settles
  <2>2. \A i \in 1..Len(queue') : LastOn(c, i)' => (queue'[i].op = "set" <=> c \in wanted')
    BY <1>1, <1>2, <1>7, <2>1
  <2>3. CASE ~Pending(c)
    <3>1. c \notin command.bits
      BY <1>1, <2>3 DEF Pending
    <3> QED
      BY <1>2, <1>3, <2>1, <2>2, <2>3, <3>1
  <2>4. CASE c \in command.bits /\ LastOn(c, 1)
    <3>1. command.op = "set" <=> c \in wanted
      BY <1>1, <2>1, <2>4
    <3> QED
      BY <1>2, <1>3, <1>4, <2>2, <2>4, <3>1
  <2> QED
    BY <1>8, <2>2, <2>3, <2>4
<1>10. Settles'
  BY <1>2, <1>9 DEF Settles
<1>11. BitsNeedLive' /\ OnlyReuseFaults'
  <2>1. \A c \in Bits : Pending(c)' => Pending(c)
    BY <1>1 DEF Pending
  <2>2. \A c \in Bits : ~Pending(c) => c \notin command.bits
    BY <1>1 DEF Pending
  <2> QED
    BY <1>2, <1>3, <1>4, <2>1, <2>2 DEF BitInv, BitsNeedLive, OnlyReuseFaults
<1> QED
  BY <1>5, <1>10, <1>11 DEF BitInv

LEMMA LifeCycleSettles ==
  ASSUME BitInv, fault = "no", New \/ Delete \/ Drop \/ UseDeleted PROVE BitInv'
<1>0. stuck' = stuck
  BY DEF New, Delete, Drop, UseDeleted, daemon
<1>1. CASE handle = "live" /\ DeleteGroup /\ handle' \in {"none", "null"}
  <2>1. /\ bits' = {} /\ wanted' = {} /\ crossed' = {} /\ UNCHANGED fault
        /\ queue' = [i \in 1..Len(queue) |-> IF queue[i] = Other THEN Other ELSE Freed]
    BY <1>1 DEF DeleteGroup
  <2>2. Len(queue) \in Nat /\ Len(queue) <= QueueLength
    BY DEF BitInv, BitTypes
  <2>3. queue' \in Seq(Commands \cup {Freed, Other}) /\ Len(queue') = Len(queue)
    BY <2>1, <2>2
  <2>4. \A i \in 1..Len(queue') : queue'[i].bits = {}
    BY <2>1, <2>2, <2>3 DEF Freed, Other
  <2>5. BitTypes'
    BY <1>0, <1>1, <2>1, <2>2, <2>3 DEF BitInv, BitTypes
  <2>6. Settles' /\ BitsNeedLive' /\ OnlyReuseFaults'
    BY <1>1, <2>1, <2>4 DEF BitInv, Settles, BitsNeedLive, Pending, OnlyReuseFaults
  <2> QED
    BY <2>5, <2>6 DEF BitInv
<1>2. CASE /\ handle = "null" /\ fault' = "null" /\ handle' = "null"
           /\ UNCHANGED <<bits, daemon, history>>
  BY <1>2 DEF daemon, history, BitInv, BitTypes, Settles, BitsNeedLive, Pending, OnlyReuseFaults
<1>3. CASE /\ handle # "live" /\ handle' \in {"none", "live"} /\ fault # "null"
           /\ UNCHANGED <<bits, daemon, history, fault>>
  <2>1. BitTypes'
    BY <1>3 DEF daemon, history, BitInv, BitTypes
  <2>2. \A c \in Bits : ~Pending(c)' /\ \A i \in 1..Len(queue') : ~LastOn(c, i)'
    BY <1>3 DEF daemon, BitInv, BitsNeedLive, Pending, LastOn
  <2> QED
    BY <1>3, <2>1, <2>2 DEF history, BitInv, Settles, BitsNeedLive, OnlyReuseFaults
<1> QED
  BY <1>1, <1>2, <1>3 DEF New, Delete, Drop, UseDeleted, DeleteGroup, daemon, BitInv, BitTypes,
     OnlyReuseFaults

\* Steps of the waiting tasks and of the clock, and the daemon's last.
LEMMA NoBitsNoChange ==
  ASSUME BitInv, stuck' \in BOOLEAN, UNCHANGED <<handle, bits, queue, history, fault>>
  PROVE  BitInv'
  BY DEF history, BitInv, BitTypes, Settles, LastOn, BitsNeedLive, Pending, OnlyReuseFaults

-----------------------------------------------------------------------------
(* The inductive invariant.                                                *)

LEMMA BitInvStep == IInv /\ [Next]_vars => BitInv'
<1> SUFFICES ASSUME IInv, [Next]_vars PROVE BitInv'
  OBVIOUS
<1> USE DEF IInv
<1>0. stuck \in BOOLEAN
  BY DEF BitInv, BitTypes
<1>1. CASE New \/ Delete \/ Drop \/ UseDeleted
  <2>1. fault = "no" \/ UNCHANGED vars
    BY DEF Next
  <2> QED
    BY <1>0, <1>1, <2>1, LifeCycleSettles, NoBitsNoChange DEF vars, daemon
<1>2. CASE OtherCommand \/ Process
  BY <1>2, OtherSettles, ProcessSettles
<1>3. ASSUME NEW b \in SUBSET Bits, Set(b) \/ Clear(b) PROVE BitInv'
  BY <1>3, TaskCallSettles
<1>4. ASSUME NEW b \in Masks, SetFromIsr(b) \/ ClearFromIsr(b) PROVE BitInv'
  <2>1. CASE SetFromIsr(b) /\ Defer("set", b)
    BY <2>1, DeferSettles DEF SetFromIsr, Full, Defer
  <2>2. CASE ClearFromIsr(b) /\ Defer("clear", b)
    BY <2>2, DeferSettles DEF ClearFromIsr, Full, Defer
  <2>3. CASE UNCHANGED <<handle, bits, daemon, history, fault>>
    BY <1>0, <2>3, NoBitsNoChange DEF daemon
  <2> QED
    BY <1>4, <2>1, <2>2, <2>3 DEF SetFromIsr, ClearFromIsr, daemon
<1>5. CASE UNCHANGED <<handle, bits, daemon, history, fault>>
  BY <1>0, <1>5, NoBitsNoChange DEF daemon
<1>6. CASE DaemonSticks
  BY <1>6, NoBitsNoChange DEF DaemonSticks
<1>7. CASE Tick \/ \E t \in Tasks : Suspend(t) \/ Resume(t) \/ DeleteTask(t)
  BY <1>5, <1>7 DEF Tick, Suspend, Resume, DeleteTask
<1> QED
  BY <1>1, <1>2, <1>3, <1>4, <1>5, <1>6, <1>7 DEF Next, Step, Wait, Return, vars

LEMMA WaitInvStep == IInv /\ [Next]_vars => WaitInv'
<1> SUFFICES ASSUME IInv, [Next]_vars PROVE WaitInv'
  OBVIOUS
<1> USE DEF IInv
<1>1. CASE New \/ Delete \/ Drop \/ UseDeleted
  <2>1. NobodyInside /\ bits' \subseteq bits /\ UNCHANGED <<waits, missed>>
    BY <1>1 DEF New, Delete, Drop, UseDeleted, DeleteGroup, WaitInv, WaitersNeedLive
  <2> QED
    BY <2>1, FewerBitsKeepWaits
<1>2. CASE Process
  <2>1. Head(queue) \in Commands \cup {Freed, Other}
    BY <1>2 DEF Process, BitInv, BitTypes
  <2>2. Head(queue).bits \in SUBSET Bits
    BY <2>1 DEF Commands, Freed, Other
  <2> QED
    BY <1>2, <2>2, SetBitsKeepsWaits, FewerBitsKeepWaits DEF Process, ClearBits, BitInv
<1>3. ASSUME NEW b \in SUBSET Bits, Set(b) \/ Clear(b) PROVE WaitInv'
  BY <1>3, SetBitsKeepsWaits, FewerBitsKeepWaits DEF Set, Clear, ClearBits, BitInv
<1>4. CASE UNCHANGED <<handle, bits, waits, missed>>
  BY <1>4, FewerBitsKeepWaits
<1>5. CASE Tick
  BY <1>5, TickKeepsWaits
<1>6. ASSUME NEW t \in Tasks, Return(t) PROVE WaitInv'
  BY <1>6, ReturnKeepsWaits
<1>7. ASSUME NEW t \in Tasks, NEW m \in Masks, NEW n \in 0..Endless, Wait(t, m, n)
      PROVE  WaitInv'
  BY <1>7, WaitKeepsWaits
<1>8. ASSUME NEW t \in Tasks, Suspend(t) \/ Resume(t) \/ DeleteTask(t) PROVE WaitInv'
  BY <1>8, MeanwhileKeepsWaits
<1> QED
  BY <1>1, <1>2, <1>3, <1>4, <1>5, <1>6, <1>7, <1>8
     DEF Next, Step, OtherCommand, DaemonSticks, SetFromIsr, ClearFromIsr, vars

LEMMA Invariant == Spec => []IInv
<1>1. IInv /\ [Next]_vars => IInv'
  BY BitInvStep, WaitInvStep DEF IInv
<1> QED
  BY IInvInit, <1>1, PTL DEF Spec

-----------------------------------------------------------------------------
(* Theorems.                                                               *)

\* Every variable keeps its type; the daemon's queue stays within its length
\* (set_from_isr, clear_from_isr).
THEOREM TypeCorrect == Spec => []TypeOK
<1>1. IInv => TypeOK
  BY DEF IInv, BitInv, WaitInv, TypeOK
<1> QED
  BY Invariant, <1>1, PTL

\* No task sleeps in wait() on a bit that set, or the daemon, has set.
THEOREM SetWakesEveryWaiter == Spec => []NoSleeperOnSetBit
<1>1. IInv => NoSleeperOnSetBit
  BY DEF IInv, WaitInv
<1> QED
  BY Invariant, <1>1, PTL

\* A woken wait() returns a bit of its mask, whatever clear does meanwhile.
THEOREM WokenBringsBit == Spec => []NoMissedBit
<1>1. IInv => NoMissedBit
  BY DEF IInv, WaitInv
<1> QED
  BY Invariant, <1>1, PTL

\* The calls that were accepted, those of handlers through the daemon, leave
\* each bit as the last of them wants it, unless a task crosses a command.
THEOREM AcceptedCallsSettle == Spec => []Settles
<1>1. IInv => Settles
  BY DEF IInv, BitInv
<1> QED
  BY Invariant, <1>1, PTL

\* The drop after an explicit delete() does not reach the kernel.
THEOREM DropAfterDeleteIsSafe == Spec => []OnlyReuseFaults
<1>1. IInv => OnlyReuseFaults
  BY DEF IInv, BitInv
<1> QED
  BY Invariant, <1>1, PTL

=============================================================================

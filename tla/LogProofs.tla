----------------------------- MODULE LogProofs -----------------------------
(***************************************************************************)
(* Theorems of Log, for any set of tasks and priorities, any levels, any   *)
(* configuring tasks, and a build that reads BUSY again or does not.       *)
(***************************************************************************)
EXTENDS Log, TLAPS

USE LogAssumption DEF LogAssumption, platform, kernel

\* A task that steps with its own priority has the highest ready priority,
\* and it alone when priorities are distinct.
LEMMA RunnerIsTop ==
  ASSUME StrictPriorities, TypeOK, NEW t \in Tasks, NEW u \in Tasks, t # u,
         Runs(t), Ready(u), inherits[t] = t, inherits[u] = u
  PROVE  Priority[u] < Priority[t]
  BY DEF Runs, StrictPriorities, TypeOK, Effective

LEMMA TypeStep == TypeOK /\ [Next]_vars => TypeOK'
<1> SUFFICES ASSUME TypeOK, [Next]_vars PROVE TypeOK'
  OBVIOUS
<1> USE DEF TypeOK, States, Setters, Flags, Goto
<1>0. disturbed' \in BOOLEAN
  BY DEF Next, Disturb, vars, history
<1>1. ASSUME NEW t \in Tasks, Sleep(t) \/ Wake(t) \/ Suspend(t) \/ Resume(t) \/ Delete(t)
      PROVE  TypeOK'
  BY <1>0, <1>1 DEF Sleep, Wake, Suspend, Resume, Delete
<1>2. ASSUME NEW t \in Tasks, NEW u \in Tasks, Block(t, u) \/ Disinherit(t, u) PROVE TypeOK'
  BY <1>0, <1>2 DEF Block, Disinherit
<1>3. ASSUME NEW t \in Tasks, NEW l \in Levels, Log(t, l) PROVE TypeOK'
  BY <1>0, <1>3 DEF Log
<1>4. ASSUME NEW t \in Tasks, SysLog(t) PROVE TypeOK'
  BY <1>0, <1>4 DEF SysLog, Spin, Claim, Finish
<1>5. ASSUME NEW t \in Tasks, NEW setter \in Setters, Load(t, setter) PROVE TypeOK'
  BY <1>0, <1>5 DEF Load
<1>6. ASSUME NEW t \in Tasks, NEW level \in SUBSET Flags, SetLevelLog(t, level) PROVE TypeOK'
  BY <1>0, <1>6 DEF SetLevelLog, Store
<1>7. ASSUME NEW t \in Tasks, SetEnableLog(t) \/ SetEnableColor(t) PROVE TypeOK'
  BY <1>0, <1>7 DEF SetEnableLog, SetEnableColor, Store
<1>8. CASE UNCHANGED vars
  BY <1>8 DEF vars, history
<1> QED
  BY <1>1, <1>2, <1>3, <1>4, <1>5, <1>6, <1>7, <1>8 DEF Next, Step, Configure

\* Every variable keeps its type, whatever the priorities.
THEOREM TypeCorrect == Spec => []TypeOK
<1>1. Init => TypeOK
  <2> SUFFICES ASSUME Init PROVE TypeOK
    OBVIOUS
  <2>1. Priority \in [Tasks -> Nat]
    BY DEF Init
  <2>2. inherits \in [Tasks -> Tasks] /\ pc \in [Tasks -> States]
    BY DEF Init, States
  <2> QED
    BY <2>1, <2>2 DEF Init, TypeOK, Flags
<1> QED
  BY <1>1, TypeStep, PTL DEF Spec

\* BUSY is set by a task that prints, or that was deleted while printing:
\* with any priorities, and whoever is suspended, nobody else leaves it set.
THEOREM BusyIsOwned == Spec => []BusyHasOwner
<1>1. Init => BusyHasOwner
  BY DEF Init, BusyHasOwner
<1>2. TypeOK /\ BusyHasOwner /\ [Next]_vars => BusyHasOwner'
  <2> SUFFICES ASSUME TypeOK, BusyHasOwner, [Next]_vars PROVE BusyHasOwner'
    OBVIOUS
  <2> USE DEF BusyHasOwner, TypeOK, Goto
  <2>1. ASSUME NEW t \in Tasks, Sleep(t) \/ Wake(t) \/ Suspend(t) \/ Resume(t) \/ Delete(t)
        PROVE  BusyHasOwner'
    BY <2>1 DEF Sleep, Wake, Suspend, Resume, Delete, Gone
  <2>2. ASSUME NEW t \in Tasks, NEW u \in Tasks, Block(t, u) \/ Disinherit(t, u)
        PROVE  BusyHasOwner'
    BY <2>2 DEF Block, Disinherit
  <2>3. ASSUME NEW t \in Tasks, NEW l \in Levels, Log(t, l) PROVE BusyHasOwner'
    BY <2>3 DEF Log
  <2>4. ASSUME NEW t \in Tasks, SysLog(t) PROVE BusyHasOwner'
    BY <2>4 DEF SysLog, Spin, Claim, Finish
  <2>5. ASSUME NEW t \in Tasks, Configure(t) PROVE BusyHasOwner'
    BY <2>5 DEF Configure, Load, SetLevelLog, SetEnableLog, SetEnableColor, Store, Setters
  <2>6. CASE UNCHANGED vars
    BY <2>6 DEF vars
  <2> QED
    BY <2>1, <2>2, <2>3, <2>4, <2>5, <2>6 DEF Next, Step
<1> QED
  BY <1>1, <1>2, TypeCorrect, PTL DEF Spec

-----------------------------------------------------------------------------
(* Tasks of distinct priorities.                                           *)

Inside(t) == pc[t] \in {"claim", "printing"}

\* As long as the section is not disturbed, it was not disturbed before or
\* nobody is in it, and those in it are ready with priorities of their own.
LEMMA Undisturbed ==
  ASSUME Disturb, ~disturbed'
  PROVE  /\ ~disturbed \/ \A t \in Tasks : ~Inside(t)'
         /\ InsideUndisturbed'
  BY DEF Disturb, InsideUndisturbed, Inside

\* A step of t that leaves it outside the section takes no task into it, and
\* out of it only t.
LEMMA OutsideStep ==
  ASSUME TypeOK, TypeOK', PrintingSetsBusy, ClaimantsBelow,
         NEW t \in Tasks, UNCHANGED <<platform, BUSY>>,
         \A u \in Tasks \ {t} : pc'[u] = pc[u],
         pc'[t] \notin {"claim", "printing"} \/ pc'[t] = pc[t]
  PROVE  PrintingSetsBusy' /\ ClaimantsBelow'
  BY DEF TypeOK, PrintingSetsBusy, ClaimantsBelow

\* Nobody changes the priority that a task was created with.
LEMMA PlatformStep == [Next]_vars => UNCHANGED platform
  BY DEF Next, Step, vars, Sleep, Wake, Block, Disinherit, Suspend, Resume, Delete, Log, SysLog,
     Spin, Claim, Finish, Configure, Load, SetLevelLog, SetEnableLog, SetEnableColor, Store

\* What a step of undisturbed tasks of distinct priorities preserves.
LEMMA SectionStep ==
  ASSUME IInv, TypeOK', UNCHANGED platform, StrictPriorities, ~disturbed, NEW t \in Tasks, Step(t)
  PROVE  PrintingSetsBusy' /\ ClaimantsBelow'
<1> USE DEF Goto
<1>0. TypeOK /\ PrintingSetsBusy /\ ClaimantsBelow /\ InsideUndisturbed
  BY DEF IInv, Protocol
<1>1. CASE Sleep(t) \/ Wake(t) \/ Suspend(t) \/ Resume(t)
  BY <1>0, <1>1, OutsideStep DEF Sleep, Wake, Suspend, Resume, TypeOK
<1>2. CASE Delete(t)
  BY <1>0, <1>2, OutsideStep DEF Delete, TypeOK
<1>3. ASSUME NEW u \in Tasks, Block(t, u) \/ Disinherit(t, u)
      PROVE  PrintingSetsBusy' /\ ClaimantsBelow'
  BY <1>0, <1>3, OutsideStep DEF Block, Disinherit, TypeOK
<1>4. ASSUME NEW l \in Levels, Log(t, l) PROVE PrintingSetsBusy' /\ ClaimantsBelow'
  BY <1>0, <1>4, OutsideStep DEF Log, TypeOK
<1>5. CASE Configure(t)
  BY <1>0, <1>5, OutsideStep
     DEF Configure, Load, SetLevelLog, SetEnableLog, SetEnableColor, Store, Setters, TypeOK
<1>6. CASE Spin(t)
  <2>1. CASE BUSY = 0
    <3>1. \A u \in Tasks : pc[u] # "printing"
      BY <1>0, <2>1 DEF PrintingSetsBusy
    <3>2. \A u \in Tasks : pc'[u] # "printing"
      BY <1>0, <1>6, <2>1, <3>1 DEF Spin, TypeOK
    <3> QED
      BY <3>2 DEF PrintingSetsBusy, ClaimantsBelow
  <2>2. CASE BUSY # 0
    BY <1>0, <1>6, <2>2, OutsideStep DEF Spin, TypeOK
  <2> QED
    BY <2>1, <2>2
<1>7. CASE Claim(t)
  <2>1. pc[t] = "claim" /\ BUSY' = 1 /\ pc' = [pc EXCEPT ![t] = "printing"]
    BY <1>7 DEF Claim
  <2>2. \A u \in Tasks : Inside(u) => Ready(u) /\ inherits[u] = u
    BY <1>0 DEF InsideUndisturbed, Ready, Inside, Gone
  <2>3. \A u \in Tasks \ {t} : Inside(u) => Priority[u] < Priority[t]
    BY <1>0, <1>7, <2>1, <2>2, RunnerIsTop DEF Claim, Inside
  <2>4. \A u \in Tasks \ {t} : pc[u] # "printing"
    <3> SUFFICES ASSUME NEW u \in Tasks \ {t}, pc[u] = "printing" PROVE FALSE
      OBVIOUS
    <3>1. Priority[t] < Priority[u]
      BY <1>0, <2>1 DEF ClaimantsBelow
    <3> QED
      BY <1>0, <2>3, <3>1 DEF TypeOK, Inside
  <2> QED
    BY <1>0, <2>1, <2>3, <2>4 DEF TypeOK, PrintingSetsBusy, ClaimantsBelow, Inside
<1>8. CASE Finish(t)
  <2>1. \A u \in Tasks : pc'[u] # "printing"
    BY <1>0, <1>8 DEF Finish, TypeOK, ClaimantsBelow
  <2> QED
    BY <2>1 DEF PrintingSetsBusy, ClaimantsBelow
<1> QED
  BY <1>1, <1>2, <1>3, <1>4, <1>5, <1>6, <1>7, <1>8 DEF Step, SysLog

LEMMA IInvStep == IInv /\ [Next]_vars => IInv'
<1> SUFFICES ASSUME IInv, [Next]_vars PROVE IInv'
  OBVIOUS
<1>0. TypeOK' /\ UNCHANGED platform
  BY TypeStep, PlatformStep DEF IInv
<1>1. CASE UNCHANGED vars
  BY <1>0, <1>1 DEF vars, history, IInv, Protocol, StrictPriorities, PrintingSetsBusy, ClaimantsBelow,
     InsideUndisturbed
<1>2. CASE Next
  <2> SUFFICES ASSUME StrictPriorities, ~disturbed'
               PROVE  PrintingSetsBusy' /\ ClaimantsBelow' /\ InsideUndisturbed'
    BY <1>0 DEF IInv, Protocol, StrictPriorities
  <2>1. InsideUndisturbed' /\ (~disturbed \/ \A t \in Tasks : ~Inside(t)')
    BY <1>2, Undisturbed DEF Next
  <2>2. CASE \A t \in Tasks : ~Inside(t)'
    BY <2>1, <2>2 DEF PrintingSetsBusy, ClaimantsBelow, Inside
  <2>3. CASE ~disturbed
    BY <1>0, <1>2, <2>1, <2>3, SectionStep DEF Next
  <2> QED
    BY <2>1, <2>2, <2>3
<1> QED
  BY <1>1, <1>2

LEMMA LogInvariant == Spec => []IInv
<1>1. Init /\ TypeOK => IInv
  BY DEF Init, IInv, Protocol, PrintingSetsBusy, ClaimantsBelow, InsideUndisturbed
<1> QED
  BY <1>1, IInvStep, TypeCorrect, PTL DEF Spec

\* Tasks of distinct priorities never print at the same time, although the
\* flag is tested and set in two steps, unless one of them was suspended past
\* its test or logged with an inherited priority.
THEOREM StrictExclusion == Spec => []Exclusion
<1>1. IInv => Exclusion
  BY DEF IInv, Protocol, ClaimantsBelow, Exclusion
<1> QED
  BY <1>1, LogInvariant, PTL

\* A task that runs alone at its priority and spins is held up by a task that
\* prints and cannot run, or by one deleted while printing.
THEOREM SpinIsInversion == Spec => []SpinnerInverted
<1>1. TypeOK /\ BusyHasOwner => SpinnerInverted
  <2> SUFFICES ASSUME TypeOK, BusyHasOwner, NEW t \in Tasks, Runs(t), pc[t] = "spin", BUSY = 1,
                      \A u \in Tasks : Effective(u) = Effective(t) => u = t
               PROVE  \E u \in Tasks :
                        \/ pc[u] = "printing" /\ (u \in suspended \/ Effective(u) < Effective(t))
                        \/ pc[u] = "killed"
    BY DEF SpinnerInverted
  <2> PICK u \in Tasks : pc[u] \in {"printing", "killed"}
    BY DEF BusyHasOwner
  <2>1. CASE pc[u] = "printing" /\ u \notin suspended
    <3>1. Ready(u) /\ u # t
      BY <2>1 DEF Ready, Gone
    <3>2. Effective(u) <= Effective(t) /\ Effective(u) # Effective(t)
      BY <3>1 DEF Runs
    <3> QED
      BY <2>1, <3>2 DEF Effective, TypeOK
  <2> QED
    BY <2>1
<1> QED
  BY <1>1, TypeCorrect, BusyIsOwned, PTL

-----------------------------------------------------------------------------
(* Configuration.                                                          *)

LEMMA LoadsStep == TypeOK /\ LoadsAreCurrent /\ [Next]_vars => LoadsAreCurrent'
<1> SUFFICES ASSUME TypeOK, LoadsAreCurrent, [Next]_vars PROVE LoadsAreCurrent'
  OBVIOUS
<1> USE DEF TypeOK, LoadsAreCurrent, Goto
<1>1. ASSUME NEW t \in Tasks, Sleep(t) \/ Wake(t) \/ Suspend(t) \/ Resume(t) \/ Delete(t)
      PROVE  LoadsAreCurrent'
  BY <1>1 DEF Sleep, Wake, Suspend, Resume, Delete, Setters
<1>2. ASSUME NEW t \in Tasks, NEW u \in Tasks, Block(t, u) \/ Disinherit(t, u)
      PROVE  LoadsAreCurrent'
  BY <1>2 DEF Block, Disinherit, Setters
<1>3. ASSUME NEW t \in Tasks, NEW l \in Levels, Log(t, l) PROVE LoadsAreCurrent'
  BY <1>3 DEF Log, Setters
<1>4. ASSUME NEW t \in Tasks, SysLog(t) PROVE LoadsAreCurrent'
  BY <1>4 DEF SysLog, Spin, Claim, Finish, Setters
<1>5. ASSUME NEW t \in Tasks, NEW setter \in Setters, Load(t, setter) PROVE LoadsAreCurrent'
  BY <1>5 DEF Load, Setters, Keeps
<1>6. ASSUME NEW t \in Tasks, NEW setter \in Setters, NEW mask, Store(t, setter, mask)
      PROVE  LoadsAreCurrent'
  <2>1. /\ pc' = [pc EXCEPT ![t] = "client"] /\ MASK' = mask
        /\ overtaken' = (overtaken \ {t}) \cup
             {u \in Tasks \ {t} : pc[u] \in Setters /\ ("STATE" \in mask <=> "STATE" \notin MASK)}
        /\ \A u \in Tasks \ {t} : pc'[u] = pc[u] /\ loaded'[u] = loaded[u]
    BY <1>6 DEF Store
  <2>2. ASSUME NEW u \in Tasks \ overtaken', pc'[u] \in Setters, "STATE" \in Keeps(pc'[u])
        PROVE  "STATE" \in loaded'[u] <=> "STATE" \in MASK'
    <3>1. u # t /\ u \notin overtaken /\ pc[u] \in Setters
      BY <2>1, <2>2 DEF Setters
    <3> QED
      BY <2>1, <2>2, <3>1
  <2>3. ASSUME NEW u \in overtaken' PROVE pc'[u] \in Setters
    BY <2>1, <2>3
  <2> QED
    BY <2>2, <2>3
<1>7. CASE UNCHANGED vars
  BY <1>7 DEF vars, history
<1>8. ASSUME NEW t \in Tasks, Configure(t) PROVE LoadsAreCurrent'
  BY <1>5, <1>6, <1>8 DEF Configure, SetLevelLog, SetEnableLog, SetEnableColor, Setters
<1> QED
  BY <1>1, <1>2, <1>3, <1>4, <1>7, <1>8 DEF Next, Step

\* A setter that keeps STATE and was not overtaken by one that changes it has
\* the right idea of whether it is on, however many tasks configure and however
\* they are preempted, suspended or deleted.
THEOREM LoadsStayCurrent == Spec => []LoadsAreCurrent
<1>1. Init => LoadsAreCurrent
  BY DEF Init, LoadsAreCurrent, Setters
<1> QED
  BY <1>1, LoadsStep, TypeCorrect, PTL DEF Spec

\* A step of t that stores a mask leaves every other task where it is.
LEMMA StoreStep ==
  ASSUME TypeOK, NEW t \in Tasks, NEW u \in Tasks, NEW setter, NEW mask, Store(u, setter, mask),
         pc'[t] # pc[t]
  PROVE  u = t /\ pc[t] = setter /\ MASK' = mask
  BY DEF Store, Goto, TypeOK

\* set_level_log and set_enable_color leave logging on or off, whatever level
\* they are given and however many tasks configure, unless another task turned
\* it on or off since they read MASK.
THEOREM StateIsKept == Spec => StateNeedsEnable
<1> DEFINE Kept ==
      \A t \in Tasks \ overtaken :
        pc[t] \in {"set_level_log", "set_enable_color"} =>
          ("STATE" \in MASK' <=> "STATE" \in MASK) \/ UNCHANGED pc[t]
<1>1. TypeOK /\ LoadsAreCurrent /\ [Next]_vars => [Kept]_vars
  <2> SUFFICES ASSUME TypeOK, LoadsAreCurrent, Next, NEW t \in Tasks \ overtaken,
                      pc[t] \in {"set_level_log", "set_enable_color"}, pc'[t] # pc[t]
               PROVE  "STATE" \in MASK' <=> "STATE" \in MASK
    OBVIOUS
  <2>1. "STATE" \in loaded[t] <=> "STATE" \in MASK
    BY DEF LoadsAreCurrent, Setters, Keeps, Flags
  <2> PICK u \in Tasks : Step(u)
    BY DEF Next
  <2>2. CASE UNCHANGED MASK
    BY <2>2
  <2>3. ASSUME NEW level \in SUBSET Flags, SetLevelLog(u, level)
        PROVE  "STATE" \in MASK' <=> "STATE" \in MASK
    <3>1. MASK' = loaded[u] \cup (level \ {"STATE"}) /\ u = t
      BY <2>3, StoreStep DEF SetLevelLog
    <3> QED
      BY <2>1, <3>1
  <2>4. CASE SetEnableColor(u)
    <3>1. u = t /\ (MASK' = loaded[u] \cup {"COLOR"} \/ MASK' = loaded[u])
      BY <2>4, StoreStep DEF SetEnableColor
    <3> QED
      BY <2>1, <3>1
  <2>5. CASE SetEnableLog(u)
    BY <2>5, StoreStep DEF SetEnableLog
  <2>6. CASE Configure(u)
    BY <2>2, <2>3, <2>4, <2>5, <2>6 DEF Configure, Load
  <2>7. CASE ~Configure(u)
    BY <2>2, <2>7 DEF Step, Sleep, Wake, Block, Disinherit, Suspend, Resume, Delete, Log, SysLog,
       Spin, Claim, Finish
  <2> QED
    BY <2>6, <2>7
<1> QED
  BY <1>1, LoadsStayCurrent, TypeCorrect, PTL DEF Spec, StateNeedsEnable

=============================================================================

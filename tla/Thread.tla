------------------------------- MODULE Thread -------------------------------
(***************************************************************************)
(* osal-rs/src/freertos/thread.rs: Thread values, the tasks they spawn and *)
(* the closures these run.                                                 *)
(*                                                                         *)
(* A Thread value has a raw task handle, null until a task is spawned, and *)
(* a counted reference to a closure.  The handle keeps nothing alive, and  *)
(* nothing tells its owners that the task is gone.  A new task gets a box  *)
(* through a raw pointer: a copy of the Thread for spawn, the reference    *)
(* itself for spawn_simple.  A task that is deleted, by itself or by       *)
(* somebody else, never drops what it owns.                                *)
(*                                                                         *)
(* A spawn call is named by a member of Spawns, which also names the       *)
(* closure it was given and the task it creates.                           *)
(***************************************************************************)
EXTENDS Integers, FiniteSets

CONSTANTS
  Spawns,  \* bound: the calls of spawn and spawn_simple
  Slots,   \* bound: the places of client code that hold Thread values
  None     \* no task, no closure, no value

Values == [task : Spawns \cup {None}, closure : Spawns \cup {None}]

ASSUME ThreadAssumption ==
  /\ None \notin Spawns \cup Values
  /\ IsFiniteSet(Slots)

VARIABLES
  values,    \* client: the Thread value in each place, or None
  simple,    \* the spawn calls that were spawn_simple
  phase,     \* where a spawn call, and then its task, is
  suspended, \* the tasks suspend() has stopped
  strong,    \* the reference count of each closure
  leaked,    \* history: references nobody can drop any more
  done,      \* history: the closures that have run to their end
  joined,    \* history: the tasks a join() has returned for
  ub         \* 1 after a kernel call for a task that is gone

vars == <<values, simple, phase, suspended, strong, leaked, done, joined, ub>>

\* "refused": the name has a NUL byte; "failed": no memory for a task;
\* "created": the task has not begun; "called": the closure runs and owns the
\* box; "bare": it runs and has given the box up; "returned": it has returned.
Phases == {"none", "refused", "failed", "created", "called", "bare", "returned", "ended"}

Alive == {"created", "called", "bare", "returned"}

TypeOK ==
  /\ values \in [Slots -> Values \cup {None}]
  /\ simple \subseteq Spawns
  /\ phase \in [Spawns -> Phases]
  /\ suspended \subseteq {c \in Spawns : phase[c] \in Alive}
  /\ strong \in [Spawns -> 0..(Cardinality(Slots) + 3)]
  /\ leaked \in [Spawns -> 0..3]
  /\ done \subseteq Spawns /\ joined \subseteq Spawns
  /\ ub \in {0, 1}

Init ==
  /\ values = [s \in Slots |-> None]
  /\ simple = {}
  /\ phase = [c \in Spawns |-> "none"]
  /\ suspended = {}
  /\ strong = [c \in Spawns |-> 0]
  /\ leaked = [c \in Spawns |-> 0]
  /\ done = {} /\ joined = {}
  /\ ub = 0

-----------------------------------------------------------------------------
(* Thread values.                                                          *)

Room == \E s \in Slots : values[s] = None
Free == CHOOSE s \in Slots : values[s] = None

\* The reference counts after references to `closure` were made or dropped.
Counted(closure, change) ==
  [c \in Spawns |-> IF c = closure THEN strong[c] + change ELSE strong[c]]

\* new() and new_with_to_priority().
New ==
  /\ Room
  /\ values' = [values EXCEPT ![Free] = [task |-> None, closure |-> None]]
  /\ UNCHANGED <<simple, phase, suspended, strong, leaked, done, joined, ub>>

\* new_with_handle() and new_with_handle_and_to_priority(), with the handle that
\* Deref gives of a value; a null one is Err(NullPtr).
NewWithHandle(s) ==
  /\ Room /\ values[s] # None /\ values[s].task # None
  /\ values' = [values EXCEPT ![Free] = [task |-> values[s].task, closure |-> None]]
  /\ UNCHANGED <<simple, phase, suspended, strong, leaked, done, joined, ub>>

\* #[derive(Clone)].
Clone(s) ==
  /\ Room /\ values[s] # None
  /\ values' = [values EXCEPT ![Free] = values[s]]
  /\ strong' = Counted(values[s].closure, 1)
  /\ UNCHANGED <<simple, phase, suspended, leaked, done, joined, ub>>

\* A Thread has no Drop: its task goes on.
DropValue(s) ==
  /\ values[s] # None
  /\ values' = [values EXCEPT ![s] = None]
  /\ strong' = Counted(values[s].closure, -1)
  /\ UNCHANGED <<simple, phase, suspended, leaked, done, joined, ub>>

-----------------------------------------------------------------------------
(* spawn and spawn_simple.                                                 *)

\* The count of the new closure c is n; a reference to `old` is dropped, or
\* one is made.
Counts(c, n, old, change) ==
  [Counted(old, change) EXCEPT ![c] = n]

\* spawn() puts the closure into the value it is called on, in place of
\* another, before anything can fail.  When xTaskCreate fails, the box has
\* become a raw pointer and is lost.
Spawn(s, c) ==
  /\ values[s] # None /\ phase[c] = "none"
  /\ LET old  == values[s].closure
         self == [values[s] EXCEPT !.closure = c]
     IN  \/ /\ phase' = [phase EXCEPT ![c] = "refused"]
            /\ values' = [values EXCEPT ![s] = self]
            /\ strong' = Counts(c, 1, old, -1)
            /\ UNCHANGED leaked
         \/ /\ phase' = [phase EXCEPT ![c] = "failed"]
            /\ values' = [values EXCEPT ![s] = self]
            /\ strong' = Counts(c, 2, old, -1)
            /\ leaked' = [leaked EXCEPT ![c] = 1]
         \/ /\ Room
            /\ phase' = [phase EXCEPT ![c] = "created"]
            /\ values' = [values EXCEPT ![s] = self, ![Free] = [task |-> c, closure |-> c]]
            /\ strong' = Counts(c, 3, old, -1)
            /\ UNCHANGED leaked
  /\ UNCHANGED <<simple, suspended, done, joined, ub>>

\* spawn_simple() leaves the value it is called on alone, and the one it
\* returns refers to the same closure as that.
SpawnSimple(s, c) ==
  /\ values[s] # None /\ phase[c] = "none"
  /\ simple' = simple \cup {c}
  /\ LET old == values[s].closure
     IN  \/ /\ phase' = [phase EXCEPT ![c] = "refused"]
            /\ UNCHANGED <<values, strong, leaked>>
         \/ /\ phase' = [phase EXCEPT ![c] = "failed"]
            /\ strong' = [strong EXCEPT ![c] = 1]
            /\ leaked' = [leaked EXCEPT ![c] = 1]
            /\ UNCHANGED values
         \/ /\ Room
            /\ phase' = [phase EXCEPT ![c] = "created"]
            /\ values' = [values EXCEPT ![Free] = [task |-> c, closure |-> old]]
            /\ strong' = Counts(c, 1, old, 1)
            /\ UNCHANGED leaked
  /\ UNCHANGED <<suspended, done, joined, ub>>

-----------------------------------------------------------------------------
(* The task.                                                               *)

Runs(c) == c \notin suspended

\* The references a task owns: its box; with spawn also, while the closure is
\* called, `thread` and the copy of the closure that is being called.
Owned(c) ==
  IF phase[c] \notin Alive THEN 0
  ELSE IF c \in simple \/ phase[c] \in {"created", "returned"} THEN 1
  ELSE IF phase[c] = "called" THEN 3 ELSE 2

\* Mutant: the wrapper calls the closure through the box alone.
Enter_NoCopies(c) ==
  /\ phase[c] = "created" /\ Runs(c)
  /\ phase' = [phase EXCEPT ![c] = IF c \in simple THEN "bare" ELSE "called"]
  /\ UNCHANGED <<values, simple, suspended, strong, leaked, done, joined, ub>>

\* callback_c_wrapper and simple_callback_wrapper up to the call.
Enter(c) ==
  /\ phase[c] = "created" /\ Runs(c)
  /\ phase' = [phase EXCEPT ![c] = IF c \in simple THEN "bare" ELSE "called"]
  /\ strong' = IF c \in simple THEN strong ELSE Counted(c, 2)
  /\ UNCHANGED <<values, simple, suspended, leaked, done, joined, ub>>

\* The closure drops its Box<dyn Thread>, or hands it to other client code.
GiveUpBox(c) ==
  /\ phase[c] = "called" /\ Runs(c)
  /\ phase' = [phase EXCEPT ![c] = "bare"]
  /\ \/ /\ strong' = Counted(c, -1)
        /\ UNCHANGED values
     \/ /\ Room
        /\ values' = [values EXCEPT ![Free] = [task |-> c, closure |-> c]]
        /\ UNCHANGED strong
  /\ UNCHANGED <<simple, suspended, leaked, done, joined, ub>>

\* get_current(), called by the closure: a value without a closure.
GetCurrent(c) ==
  /\ phase[c] \in {"called", "bare"} /\ Runs(c)
  /\ Room
  /\ values' = [values EXCEPT ![Free] = [task |-> c, closure |-> None]]
  /\ UNCHANGED <<simple, phase, suspended, strong, leaked, done, joined, ub>>

\* Mutant: the copy of the closure that was called is not dropped.
Return_KeepsCopy(c) ==
  /\ phase[c] \in {"called", "bare"} /\ Runs(c)
  /\ phase' = [phase EXCEPT ![c] = "returned"]
  /\ done' = done \cup {c}
  /\ strong' = IF phase[c] = "called" THEN Counted(c, -1) ELSE strong
  /\ UNCHANGED <<values, simple, suspended, leaked, joined, ub>>

\* The closure returns: what is left of the box, and the copy that was
\* called, are dropped.
Return(c) ==
  /\ phase[c] \in {"called", "bare"} /\ Runs(c)
  /\ phase' = [phase EXCEPT ![c] = "returned"]
  /\ done' = done \cup {c}
  /\ strong' = Counted(c, 1 - Owned(c))
  /\ UNCHANGED <<values, simple, suspended, leaked, joined, ub>>

\* vTaskDelete: what the task owns stays where it is.
DeleteTask(c) ==
  /\ phase' = [phase EXCEPT ![c] = "ended"]
  /\ leaked' = [leaked EXCEPT ![c] = @ + Owned(c)]
  /\ suspended' = suspended \ {c}
  /\ UNCHANGED <<values, simple, strong, done, ub>>

\* The end of both wrappers, or delete() by the closure on its own box.
End(c) ==
  /\ phase[c] \in {"returned", "called"} /\ Runs(c)
  /\ DeleteTask(c)
  /\ UNCHANGED joined

-----------------------------------------------------------------------------
(* Calls on Thread values.  With a null handle they do nothing, or return  *)
(* Err(NullPtr).                                                           *)

HasTask(s) == values[s] # None /\ values[s].task # None

Live(s) == HasTask(s) /\ phase[values[s].task] \in Alive

Delete(s) ==
  /\ Live(s)
  /\ DeleteTask(values[s].task)
  /\ UNCHANGED joined

\* join() deletes the task too, wherever it is, and returns Ok(0).
Join(s) ==
  /\ Live(s)
  /\ DeleteTask(values[s].task)
  /\ joined' = joined \cup {values[s].task}

Suspend(s) ==
  /\ Live(s)
  /\ suspended' = suspended \cup {values[s].task}
  /\ UNCHANGED <<values, simple, phase, strong, leaked, done, joined, ub>>

Resume(s) ==
  /\ Live(s)
  /\ suspended' = suspended \ {values[s].task}
  /\ UNCHANGED <<values, simple, phase, strong, leaked, done, joined, ub>>

\* Any call with the handle of a task that is gone.
UseStale(s) ==
  /\ HasTask(s) /\ ~Live(s)
  /\ ub' = 1
  /\ UNCHANGED <<values, simple, phase, suspended, strong, leaked, done, joined>>

-----------------------------------------------------------------------------

Step ==
  \/ New
  \/ \E s \in Slots :
       \/ NewWithHandle(s)
       \/ Clone(s)
       \/ DropValue(s)
       \/ \E c \in Spawns : Spawn(s, c) \/ SpawnSimple(s, c)
       \/ Delete(s)
       \/ Join(s)
       \/ Suspend(s)
       \/ Resume(s)
       \/ UseStale(s)
  \/ \E c \in Spawns : Enter(c) \/ GetCurrent(c) \/ GiveUpBox(c) \/ Return(c) \/ End(c)

\* Nothing is said of a program after its first undefined behaviour.
Next == ub = 0 /\ Step

Spec == Init /\ [][Next]_vars

-----------------------------------------------------------------------------
(* Properties.                                                             *)

\* The life of a closure, by the task it was given to and the references to it.
Life(c) ==
  IF phase[c] = "none" THEN "new"
  ELSE IF strong[c] = 0 THEN "freed"
  ELSE CASE phase[c] = "refused"           -> "unused"
         [] phase[c] = "created"           -> "waiting"
         [] phase[c] \in {"called", "bare"} -> "running"
         [] OTHER                          -> "kept"

Shared == INSTANCE Closure WITH Closures <- Spawns, life <- [c \in Spawns |-> Life(c)]

\* A closure runs at most once and is freed at most once, and that only if no
\* task was made for it: neither a Thread that is dropped, spawns again or is
\* cloned, nor a task deleted from outside, frees it under the task that runs
\* it, or refers to it again once it is freed.
ImplementsClosure == Shared!Spec

\* A closure is freed only if no task was ever made for it: neither a Thread
\* that is dropped, spawns again or is cloned, nor a task deleted from outside,
\* frees it under the task that runs it.  Not even afterwards: the closure of
\* every thread leaks, and so does that of a spawn that fails.
OnlyUnusedFreed ==
  \A c \in Spawns : phase[c] \in {"failed", "ended"} \cup Alive => strong[c] > 0

\* The places, among those of `places`, whose value refers to closure c.
RefsTo(places, c) == {s \in Slots : places[s] # None /\ places[s].closure = c}

Refs(places, c) == Cardinality(RefsTo(places, c))

\* A thread whose closure has returned leaks one reference to it, no more: the
\* one of `thread` in the wrapper, or the box of spawn_simple.
FinishedLeaksOne ==
  \A c \in done : strong[c] = Refs(values, c) + 1

\* What the documentation of spawn_simple promises, "similar to
\* `std::thread::spawn`": when join() has returned, the closure has run.
JoinWaits == joined \subseteq done

-----------------------------------------------------------------------------
(* The inductive invariant.                                                *)

\* Every reference has an owner, or is leaked.
Accounted == \A c \in Spawns : strong[c] = Refs(values, c) + Owned(c) + leaked[c]

\* Nobody has heard of a closure that has not been given to spawn.
Unheard ==
  \A c \in Spawns :
    phase[c] = "none" =>
      /\ c \notin simple \cup done
      /\ \A s \in Slots : values[s] # None => values[s].closure # c

\* A call leaks only by failing, and a task by its end: then all it owns, and
\* that is one reference if its closure has returned.
LeaksAtEnd ==
  \A c \in Spawns :
    /\ phase[c] \notin {"failed", "ended"} => leaked[c] = 0
    /\ phase[c] = "failed" => leaked[c] = 1
    /\ phase[c] = "ended" => leaked[c] > 0
    /\ c \in done => phase[c] = "returned" \/ (phase[c] = "ended" /\ leaked[c] = 1)

\* Only spawn gives its closure the box.
BoxOfSpawn == \A c \in Spawns : phase[c] = "called" => c \notin simple

IInv ==
  /\ TypeOK
  /\ Accounted
  /\ Unheard
  /\ LeaksAtEnd
  /\ BoxOfSpawn

=============================================================================

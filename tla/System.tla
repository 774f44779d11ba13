-------------------------------- MODULE System --------------------------------
(***************************************************************************)
(* osal-rs/src/freertos/system.rs and thread.rs: how tasks are counted,    *)
(* listed and described, while Thread goes on with the tasks.              *)
(*                                                                         *)
(* get_all_thread asks the kernel three times: for the number of tasks, to *)
(* make room; for their descriptions; and, as each description only points *)
(* at the name in the task's control block, for each name.  Nothing stops  *)
(* the other tasks in between.  get_metadata does the last two for one.    *)
(***************************************************************************)
EXTENDS Thread

CONSTANT Readers  \* the tasks that ask; they are not spawned here and stay

ASSUME SystemAssumption ==
  /\ IsFiniteSet(Spawns) /\ IsFiniteSet(Readers)
  /\ Readers \cap (Spawns \cup {None}) = {}

VARIABLES
  buried,   \* the ended tasks whose control block has been freed
  readers,  \* what each reader has asked for
  gone      \* 1 after a name was read in a control block that had been freed

systemVars == <<vars, buried, readers, gone>>

\* `room` is the length of the array; `born` says that a task was created since
\* it was measured; `tasks` are the spawned tasks described and not yet named.
\* The names of readers need no care.
Reader == [at : {"idle", "counted", "empty", "listed"}, room : Nat, born : BOOLEAN,
           tasks : SUBSET Spawns]

Rest == [at |-> "idle", room |-> 0, born |-> FALSE, tasks |-> {}]

SystemTypeOK ==
  /\ buried \subseteq {c \in Spawns : phase[c] = "ended"}
  /\ readers \in [Readers -> Reader]
  /\ gone \in {0, 1}

SystemInit ==
  /\ Init
  /\ buried = {}
  /\ readers = [r \in Readers |-> Rest]
  /\ gone = 0

-----------------------------------------------------------------------------
(* The kernel's list of tasks.                                             *)

\* A task that has ended stays in the list until it is buried.
ListedSpawns == {c \in Spawns \ buried : phase[c] \in Alive \cup {"ended"}}

Existing == ListedSpawns \cup Readers

\* A step of Thread.  vTaskDelete frees the control block of another task at
\* once; that of the caller is left to the idle task.
ThreadStep ==
  /\ Step
  /\ LET created == {c \in Spawns : phase[c] = "none" /\ phase'[c] = "created"}
         ended   == {c \in Spawns : phase[c] # "ended" /\ phase'[c] = "ended"}
     IN  /\ readers' = [r \in Readers |->
                          [readers[r] EXCEPT !.born = @ \/ (readers[r].at = "counted" /\ created # {})]]
         /\ buried' \in {buried, buried \cup ended}
  /\ UNCHANGED gone

\* The idle task frees the control block of a task that has ended.
Bury(c) ==
  /\ phase[c] = "ended" /\ c \notin buried
  /\ buried' = buried \cup {c}
  /\ UNCHANGED <<vars, readers, gone>>

-----------------------------------------------------------------------------
(* get_all_thread.                                                         *)

\* count_threads(), and an array of that length.
CountThreads(r) ==
  /\ readers[r].at = "idle"
  /\ readers' = [readers EXCEPT ![r] = [Rest EXCEPT !.at = "counted", !.room = Cardinality(Existing)]]
  /\ UNCHANGED <<vars, buried, gone>>

\* There are names to read, or nothing is left to do.
Naming(tasks) ==
  IF tasks = {} THEN Rest ELSE [Rest EXCEPT !.at = "listed", !.tasks = tasks]

\* Mutant: the array is used only if it has the right length.
ListThreads_ExactRoom(r) ==
  /\ readers[r].at = "counted"
  /\ readers' = [readers EXCEPT ![r] =
       IF Cardinality(Existing) = @.room THEN Naming(ListedSpawns) ELSE [@ EXCEPT !.at = "empty"]]
  /\ UNCHANGED <<vars, buried, gone>>

\* uxTaskGetSystemState fills the array if it is long enough for all tasks, and
\* leaves it empty if it is not.
ListThreads(r) ==
  /\ readers[r].at = "counted"
  /\ readers' = [readers EXCEPT ![r] =
       IF Cardinality(Existing) <= @.room THEN Naming(ListedSpawns) ELSE [@ EXCEPT !.at = "empty"]]
  /\ UNCHANGED <<vars, buried, gone>>

\* The caller gets an empty SystemState.
ReturnEmpty(r) ==
  /\ readers[r].at = "empty"
  /\ readers' = [readers EXCEPT ![r] = Rest]
  /\ UNCHANGED <<vars, buried, gone>>

\* get_metadata(): vTaskGetInfo with the handle of a value.  A null handle is
\* the caller's, so that the metadata is the reader's.
GetMetadata(r, s) ==
  /\ readers[r].at = "idle" /\ HasTask(s) /\ values[s].task \notin buried
  /\ readers' = [readers EXCEPT ![r] = Naming({values[s].task})]
  /\ UNCHANGED <<vars, buried, gone>>

\* ThreadMetadata::from: the name is copied out of the control block.
ReadName(r, c) ==
  /\ readers[r].at = "listed" /\ c \in readers[r].tasks
  /\ readers' = [readers EXCEPT ![r] = Naming(@.tasks \ {c})]
  /\ gone' = IF c \in buried THEN 1 ELSE gone
  /\ UNCHANGED <<vars, buried>>

-----------------------------------------------------------------------------

SystemNext ==
  /\ ub = 0 /\ gone = 0
  /\ \/ ThreadStep
     \/ \E c \in Spawns : Bury(c)
     \/ \E r \in Readers :
          \/ CountThreads(r)
          \/ ListThreads(r)
          \/ ReturnEmpty(r)
          \/ \E s \in Slots : GetMetadata(r, s)
          \/ \E c \in Spawns : ReadName(r, c)

SystemSpec == SystemInit /\ [][SystemNext]_systemVars

-----------------------------------------------------------------------------
(* Properties.                                                             *)

\* get_all_thread returns all tasks or none, and none only if a task was
\* created after they were counted: tasks that end meanwhile do no harm.
EmptyNeedsBirth ==
  \A r \in Readers : readers[r].at = "empty" => readers[r].born

-----------------------------------------------------------------------------
(* The inductive invariant.                                                *)

\* The array is long enough until a task is created.
RoomEnough ==
  \A r \in Readers :
    readers[r].at = "counted" /\ ~readers[r].born => Cardinality(Existing) <= readers[r].room

SystemIInv ==
  /\ SystemTypeOK
  /\ RoomEnough
  /\ EmptyNeedsBirth

=============================================================================

------------------------------ MODULE Closure ------------------------------
(***************************************************************************)
(* What becomes of the closures given to spawn and spawn_simple, with      *)
(* nothing of who counts references to them: each is run at most once, by  *)
(* the task made for it, and freed only if no task was.                    *)
(***************************************************************************)
CONSTANT Closures

VARIABLE life
  \* What has become of each closure: "new"; "unused": no task was made, and
  \* Thread values refer to it; "waiting": its task has not begun; "running";
  \* "kept": its task has ended, or was lost in the making; "freed".

Init == life = [c \in Closures |-> "new"]

Becomes(c, from, to) == life[c] \in from /\ life' = [life EXCEPT ![c] = to]

\* The call takes the closure and succeeds, fails, or refuses it.
Fates == {"unused", "waiting", "kept", "freed"}

Give(c) == \E fate \in Fates : Becomes(c, {"new"}, fate)

\* Nobody refers to it any more.
Free(c) == Becomes(c, {"unused"}, "freed")

\* A Thread that spawns again gives up its last closure for a new one.
Replace(old, c) ==
  /\ life[old] = "unused" /\ life[c] = "new"
  /\ \E fate \in Fates : life' = [life EXCEPT ![c] = fate, ![old] = "freed"]

Begin(c) == Becomes(c, {"waiting"}, "running")

\* It returns, or its task is deleted.
Finish(c) == Becomes(c, {"waiting", "running"}, "kept")

Next ==
  \E c \in Closures :
    \/ Give(c)
    \/ \E old \in Closures : Replace(old, c)
    \/ Free(c)
    \/ Begin(c)
    \/ Finish(c)

Spec == Init /\ [][Next]_life

=============================================================================

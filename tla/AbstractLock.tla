---------------------------- MODULE AbstractLock ----------------------------
(***************************************************************************)
(* What `osal_rs::os::Mutex` promises its callers, with nothing of how it  *)
(* keeps the promise: a context (a thread, or an interrupt handler) may    *)
(* hold several guards at once if it is a thread, at most one if it is an  *)
(* interrupt handler, and a guard is handed out only while no other        *)
(* context holds any.                                                      *)
(***************************************************************************)
EXTENDS Naturals

CONSTANTS
  Threads,  \* contexts that lock with Mutex::lock, which is recursive
  Isrs      \* contexts that lock with Mutex::lock_from_isr, which is not

VARIABLE holds  \* holds[c]: the guards context c owns

Contexts == Threads \cup Isrs

Init == holds = [c \in Contexts |-> 0]

Acquire(c) ==
  /\ \A d \in Contexts \ {c} : holds[d] = 0
  /\ c \in Isrs => holds[c] = 0
  /\ holds' = [holds EXCEPT ![c] = @ + 1]

Release(c) ==
  /\ holds[c] > 0
  /\ holds' = [holds EXCEPT ![c] = @ - 1]

Next == \E c \in Contexts : Acquire(c) \/ Release(c)

Spec == Init /\ [][Next]_holds

=============================================================================

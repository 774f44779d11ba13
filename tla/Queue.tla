------------------------------- MODULE Queue -------------------------------
(***************************************************************************)
(* osal-rs/src/freertos/queue.rs: Queue and QueueStreamed<T>, shared by    *)
(* tasks and interrupt handlers.                                           *)
(*                                                                         *)
(* new(size, message_size) asks the kernel for a counting semaphore, whose *)
(* limit is `size` and whose permits at creation are `message_size`.  Such *)
(* a queue has items without content: sending copies nothing in, receiving *)
(* copies nothing out, and message_size items are there from the start.    *)
(***************************************************************************)
EXTENDS Integers, Sequences

CONSTANTS
  Tasks,      \* callers of fetch and post
  Messages,   \* what callers post
  Zeros,      \* the content of a buffer nobody has written
  MaxSize,    \* bound: the largest size or message_size asked for
  MaxWait,    \* bound: the longest finite time-out in ticks
  MaxPosts    \* bound: successful posts per queue

ASSUME QueueAssumption ==
  /\ Zeros \notin Messages
  /\ MaxSize \in Nat \ {0}
  /\ MaxWait \in Nat
  /\ MaxPosts \in Nat

\* portMAX_DELAY, which the kernel takes for no time-out: fetch and post take
\* any TickType, although no Duration converts to this one.
Endless == MaxWait + 1

VARIABLES
  handle,      \* "none" (no Queue value), "live", or "null" after delete()
  size, count, \* kernel: the limit and the items waiting, 0 without an object
  pc,          \* is a task in client code, blocked in fetch() or post(), or
               \* deleted there ("gone"), with what it has borrowed?
  suspended,   \* the tasks that Thread::suspend has stopped
  item,        \* the message a blocked post() brings
  remaining,   \* ticks a blocked call has left
  initial,     \* history: message_size, as new() got it
  sent,        \* history: messages whose post returned Ok, in order
  received,    \* history: buffers of the fetches that returned Ok, in order
  spoiled,     \* history: items taken by a fetch that returned an error
  faults       \* history: kernel calls on a handle with no object

kernel  == <<size, count>>
callers == <<pc, suspended, item, remaining>>
history == <<initial, sent, received, spoiled>>
vars    == <<handle, kernel, callers, history, faults>>

ItemTypes ==
  /\ handle \in {"none", "live", "null"}
  /\ size \in 0..MaxSize
  /\ count \in 0..MaxSize
  /\ initial \in 0..MaxSize
  /\ sent \in Seq(Messages)
  /\ received \in Seq(Messages \cup {Zeros})
  /\ spoiled \in Nat
  /\ faults \in {0, 1}

CallerTypes ==
  /\ pc \in [Tasks -> {"ready", "fetching", "posting", "gone"}]
  /\ suspended \subseteq Tasks
  /\ item \in [Tasks -> Messages \cup {Zeros}]
  /\ remaining \in [Tasks -> 0..Endless]

TypeOK == ItemTypes /\ CallerTypes

-----------------------------------------------------------------------------
(* Life cycle.  new borrows nothing; delete and drop own the value, so no  *)
(* call is under way.                                                      *)

Init ==
  /\ handle = "none"
  /\ size = 0 /\ count = 0
  /\ pc = [t \in Tasks |-> "ready"]
  /\ suspended = {}
  /\ item = [t \in Tasks |-> Zeros]
  /\ remaining = [t \in Tasks |-> 0]
  /\ initial = 0 /\ sent = <<>> /\ received = <<>> /\ spoiled = 0
  /\ faults = 0

\* Queue::new and QueueStreamed::new.  The kernel refuses size = 0 and
\* message_size > size: Err(OutOfMemory), and no value.
New(n, messageSize) ==
  /\ handle = "none" /\ n > 0 /\ messageSize <= n
  /\ handle' = "live"
  /\ size' = n /\ count' = messageSize
  /\ initial' = messageSize
  /\ sent' = <<>> /\ received' = <<>> /\ spoiled' = 0
  /\ UNCHANGED <<callers, faults>>

\* A kernel call on a null handle, or on an object already deleted: the
\* kernel's assertion stops the system.
Fault ==
  /\ faults' = 1
  /\ UNCHANGED <<kernel, callers, history>>

DeleteObject ==
  \/ /\ size > 0 /\ handle # "null"
     /\ size' = 0 /\ count' = 0
     /\ UNCHANGED <<callers, history, faults>>
  \/ /\ size = 0 \/ handle = "null"
     /\ Fault

NobodyInside == \A t \in Tasks : pc[t] = "ready"

\* delete(): legal on a value already deleted.
Delete ==
  /\ handle # "none" /\ NobodyInside
  /\ DeleteObject
  /\ handle' = "null"

\* Drop: delete, unless that was done before.
Drop ==
  /\ handle # "none" /\ NobodyInside
  /\ handle' = "none"
  /\ \/ handle = "null" /\ UNCHANGED <<kernel, callers, history, faults>>
     \/ handle = "live" /\ DeleteObject

\* fetch or post, of a task or a handler, on a value already deleted.
UseDeleted ==
  /\ handle = "null"
  /\ Fault
  /\ UNCHANGED handle

-----------------------------------------------------------------------------
(* fetch.                                                                  *)

\* xQueueReceive or xQueueReceiveFromISR takes an item and leaves the buffer
\* as it was: the caller's for a Queue, the `vec![0u8; buffer.len()]` that
\* T::from_bytes is then given for a QueueStreamed.  When from_bytes, which
\* is the client's, fails on that, the item is gone all the same.
ReceiveItem ==
  /\ count > 0
  /\ count' = count - 1
  /\ \/ received' = Append(received, Zeros) /\ UNCHANGED spoiled
     \/ spoiled' = spoiled + 1 /\ UNCHANGED received
  /\ UNCHANGED <<handle, size, initial, sent, faults>>

Refused == UNCHANGED <<handle, kernel, history, faults>>

Fetch(t, n) ==
  /\ handle = "live" /\ pc[t] = "ready" /\ t \notin suspended
  /\ \/ ReceiveItem /\ UNCHANGED callers
     \/ count = 0 /\ n = 0 /\ Refused /\ UNCHANGED callers
     \/ /\ count = 0 /\ n > 0
        /\ pc' = [pc EXCEPT ![t] = "fetching"]
        /\ remaining' = [remaining EXCEPT ![t] = n]
        /\ Refused /\ UNCHANGED <<suspended, item>>

FetchOk(t) ==
  /\ pc[t] = "fetching" /\ t \notin suspended
  /\ ReceiveItem
  /\ pc' = [pc EXCEPT ![t] = "ready"]
  /\ UNCHANGED <<suspended, item, remaining>>

\* Mutant: a call that is over is reported as Ok.
FetchTimeout_ReportsOk(t) ==
  /\ pc[t] = "fetching" /\ remaining[t] = 0 /\ count = 0
  /\ pc' = [pc EXCEPT ![t] = "ready"]
  /\ received' = Append(received, Zeros)
  /\ UNCHANGED <<handle, kernel, initial, sent, spoiled, faults, suspended, item, remaining>>

\* Mutant: a fetch whose time is over tries again.
FetchTimeout_Retries(t) ==
  /\ pc[t] = "fetching" /\ t \notin suspended /\ remaining[t] = 0 /\ count = 0
  /\ remaining' = [remaining EXCEPT ![t] = MaxWait]
  /\ Refused /\ UNCHANGED <<pc, suspended, item>>

\* ret == 0: Err(Timeout).
FetchTimeout(t) ==
  /\ pc[t] = "fetching" /\ t \notin suspended /\ remaining[t] = 0 /\ count = 0
  /\ pc' = [pc EXCEPT ![t] = "ready"]
  /\ Refused /\ UNCHANGED <<suspended, item, remaining>>

FetchFromIsr ==
  /\ handle = "live"
  /\ ReceiveItem \/ (count = 0 /\ Refused)
  /\ UNCHANGED callers

-----------------------------------------------------------------------------
(* post.                                                                   *)

\* Mutant: a message that the kernel has taken is sent again.
SendItem_Twice(m) ==
  /\ count < size /\ Len(sent) < MaxPosts
  /\ count' = IF count + 1 < size THEN count + 2 ELSE count + 1
  /\ sent' = Append(sent, m)
  /\ UNCHANGED <<handle, size, initial, received, spoiled, faults>>

\* xQueueSendToBack!: one item more; of the message, nothing is kept.
SendItem(m) ==
  /\ count < size /\ Len(sent) < MaxPosts
  /\ count' = count + 1
  /\ sent' = Append(sent, m)
  /\ UNCHANGED <<handle, size, initial, received, spoiled, faults>>

Post(t, m, n) ==
  /\ handle = "live" /\ pc[t] = "ready" /\ t \notin suspended
  /\ \/ SendItem(m) /\ UNCHANGED callers
     \/ count = size /\ n = 0 /\ Refused /\ UNCHANGED callers
     \/ /\ count = size /\ n > 0
        /\ pc' = [pc EXCEPT ![t] = "posting"]
        /\ item' = [item EXCEPT ![t] = m]
        /\ remaining' = [remaining EXCEPT ![t] = n]
        /\ Refused /\ UNCHANGED suspended

PostOk(t) ==
  /\ pc[t] = "posting" /\ t \notin suspended
  /\ SendItem(item[t])
  /\ pc' = [pc EXCEPT ![t] = "ready"]
  /\ item' = [item EXCEPT ![t] = Zeros]
  /\ UNCHANGED <<suspended, remaining>>

\* ret == 0: Err(Timeout).  (At the bound MaxPosts a poster finds the queue
\* as good as full.)
PostTimeout(t) ==
  /\ pc[t] = "posting" /\ t \notin suspended /\ remaining[t] = 0
  /\ count = size \/ Len(sent) = MaxPosts
  /\ pc' = [pc EXCEPT ![t] = "ready"]
  /\ item' = [item EXCEPT ![t] = Zeros]
  /\ Refused /\ UNCHANGED <<suspended, remaining>>

PostFromIsr(m) ==
  /\ handle = "live"
  /\ SendItem(m) \/ (count = size /\ Refused)
  /\ UNCHANGED callers

-----------------------------------------------------------------------------
(* What happens to a caller meanwhile.                                     *)

Blocked(t) == pc[t] \in {"fetching", "posting"}

Ages(t) == Blocked(t) /\ remaining[t] \in 1..MaxWait

\* The tick interrupt ages every blocked call with a finite time-out, that of
\* a suspended caller too.
Tick ==
  /\ \E t \in Tasks : Ages(t)
  /\ remaining' = [t \in Tasks |-> IF Ages(t) THEN remaining[t] - 1 ELSE remaining[t]]
  /\ UNCHANGED <<handle, kernel, pc, suspended, item, history, faults>>

\* Thread::suspend and Thread::resume of a caller.  The kernel's call looks at
\* the queue and the time again when it is resumed.
Suspend(t) ==
  /\ pc[t] # "gone" /\ t \notin suspended
  /\ suspended' = suspended \cup {t}
  /\ UNCHANGED <<handle, kernel, pc, item, remaining, history, faults>>

Resume(t) ==
  /\ t \in suspended
  /\ suspended' = suspended \ {t}
  /\ UNCHANGED <<handle, kernel, pc, item, remaining, history, faults>>

\* Thread::delete of a task inside a call: it keeps what it has borrowed.
DeleteCaller(t) ==
  /\ Blocked(t)
  /\ pc' = [pc EXCEPT ![t] = "gone"]
  /\ suspended' = suspended \ {t}
  /\ item' = [item EXCEPT ![t] = Zeros]
  /\ remaining' = [remaining EXCEPT ![t] = 0]
  /\ UNCHANGED <<handle, kernel, history, faults>>

-----------------------------------------------------------------------------

Step ==
  \/ \E n, messageSize \in 0..MaxSize : New(n, messageSize)
  \/ Delete
  \/ Drop
  \/ UseDeleted
  \/ Tick
  \/ FetchFromIsr
  \/ \E m \in Messages : PostFromIsr(m)
  \/ \E t \in Tasks :
       \/ \E n \in 0..Endless : Fetch(t, n)
       \/ FetchOk(t)
       \/ FetchTimeout(t)
       \/ \E m \in Messages, n \in 0..Endless : Post(t, m, n)
       \/ PostOk(t)
       \/ PostTimeout(t)
       \/ Suspend(t)
       \/ Resume(t)
       \/ DeleteCaller(t)

\* Nothing runs after a failed kernel assertion.
Next == faults = 0 /\ Step

Spec == Init /\ [][Next]_vars

Returns(t) == FetchOk(t) \/ FetchTimeout(t) \/ PostOk(t) \/ PostTimeout(t)

\* The tick interrupt keeps coming and the kernel runs a caller that can go
\* on.  Nothing makes clients post, fetch or resume anybody.
FairSpec ==
  /\ Spec
  /\ WF_vars(faults = 0 /\ Tick)
  /\ \A t \in Tasks : WF_vars(faults = 0 /\ Returns(t))

-----------------------------------------------------------------------------
(* Properties.                                                             *)

\* The results callers see account for every item: posts that returned Ok,
\* and the message_size items of the start, are fetched, spoiled by a failed
\* from_bytes, or still there.  So a fetch on a fresh queue succeeds, although
\* queue_tests.rs:71 says that it fails (see FetchBringsPosted), and producers
\* are held back after size - message_size posts, although :84 says that `size`
\* of them succeed.
ItemsAccounted ==
  handle = "live" => initial + Len(sent) = Len(received) + spoiled + count

\* The kernel's assertion fails only when a client uses a value it has
\* itself deleted, never in the drop that follows an explicit delete.
OnlyReuseFaults == faults = 1 => handle = "null"

\* Every blocked fetch or post with a finite time-out returns, unless its task
\* is suspended or deleted in it.
CallsReturn ==
  \A t \in Tasks :
    Blocked(t) /\ remaining[t] # Endless ~> ~Blocked(t) \/ t \in suspended

\* What post and fetch return are the results of signal and wait of a
\* counting semaphore with message_size permits to begin with, no matter who
\* is suspended or deleted in a call.  A queue of messages, as queue_tests.rs
\* has it at :59, :71 and :84, it is not: see FetchBringsPosted.
Counting == INSTANCE CountingSemaphore WITH permits <- count, limit <- size, MaxCount <- MaxSize
ImplementsCounting == Counting!Spec

\* What the queue tests say of fetch, as long as from_bytes rejects nothing:
\* the i-th one that succeeds brings the i-th message posted (queue_tests.rs:59,
\* `assert_eq!(received_data, data)`), and none does on a queue to which nothing
\* was posted (:71, `assert!(result.is_err())`).
FetchBringsPosted ==
  spoiled = 0 => \A i \in 1..Len(received) : i <= Len(sent) /\ received[i] = sent[i]

-----------------------------------------------------------------------------
(* The inductive invariant.                                                *)

\* There is a kernel object exactly while the handle is live.
ObjectIffLive == handle = "live" <=> size > 0

\* No more items than the queue has room for.
Bounded == count <= size

\* Only a live queue has callers blocked on it or deleted in a call, and a
\* blocked post holds the message it brings.
CallersNeedLive ==
  /\ handle # "live" => NobodyInside
  /\ \A t \in Tasks : pc[t] = "posting" => item[t] \in Messages

ItemInv ==
  /\ ItemTypes
  /\ ObjectIffLive
  /\ Bounded
  /\ ItemsAccounted
  /\ OnlyReuseFaults

CallerInv == CallerTypes /\ CallersNeedLive

IInv == ItemInv /\ CallerInv

=============================================================================

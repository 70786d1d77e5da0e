------------------------------- MODULE Executor -------------------------------
(* BoundedLspExecutor: one worker thread takes work items from a bounded queue *)
(* that callers fill and that closing threads drain.  The admission counters   *)
(* are guarded by _state_lock, the queue by a lock of its own, so an item that *)
(* has left the queue is still counted until its taker gets _state_lock.       *)
EXTENDS Naturals, Sequences, FiniteSets

CONSTANTS
    Item,           \* the calls that may be submitted, each with its future
    Cleanup,        \* the items submitted through submit_cleanup
    Closer,         \* the threads that call close
    Capacity,       \* queue_capacity
    CleanupReserve, \* _CLEANUP_RESERVE
    CancelQueued,   \* the values of close's cancel_queued
    Stop            \* _STOP

ASSUME CapacityAssumption == Capacity \in Nat \ {0} /\ CleanupReserve \in Nat
ASSUME ItemAssumption == Cleanup \subseteq Item /\ Stop \notin Item
ASSUME CancelQueuedAssumption == CancelQueued \subseteq BOOLEAN

VARIABLES
    queue,      \* _queue
    future,     \* the state of every item's future
    admission,  \* _ordinary_queued, _cleanup_queued and _stopping
    worker,     \* where _run is, and the item it holds
    closer      \* where each call of close is, and the item it holds

vars == <<queue, future, admission, worker, closer>>

\* A mutant: the queue is bounded by the ordinary capacity alone.
MaxSize_NoReserve == Capacity

MaxSize == Capacity + CleanupReserve

Thread(pcs) == [pc : pcs, item : Item \cup {Stop}]

At(pc, i) == [pc |-> pc, item |-> i]

Counter(i) == IF i \in Cleanup THEN "cleanup" ELSE "ordinary"

Limit(i) == IF i \in Cleanup THEN CleanupReserve ELSE Capacity

Counted(i) == [admission EXCEPT ![Counter(i)] = @ + 1]

Uncounted(i) == [admission EXCEPT ![Counter(i)] = @ - 1]

Init ==
    /\ queue = <<>>
    /\ future = [i \in Item |-> "none"]
    /\ admission = [ordinary |-> 0, cleanup |-> 0, stopping |-> FALSE]
    /\ worker = At("idle", Stop)
    /\ closer = [c \in Closer |-> At("out", Stop)]

-------------------------------------------------------------------------------
(* Callers *)

\* A mutant: admission is not sealed by close.
Admissible_WhileStopping(i) == admission[Counter(i)] < Limit(i)

\* What submit and submit_cleanup check before they touch the queue.
Admissible(i) == ~admission.stopping /\ admission[Counter(i)] < Limit(i)

\* submit, submit_cleanup: check, put_nowait and count under _state_lock.
Submit(i) ==
    /\ future[i] = "none"
    /\ Admissible(i)
    /\ Len(queue) < MaxSize
    /\ queue' = Append(queue, i)
    /\ future' = [future EXCEPT ![i] = "pending"]
    /\ admission' = Counted(i)
    /\ UNCHANGED <<worker, closer>>

\* A future that has not started can be cancelled; later a cancel has no effect.
AfterCancel(i) == [future EXCEPT ![i] = IF @ = "pending" THEN "cancelled" ELSE @]

\* A caller that has waited too long cancels the future it holds.
Cancel(i) ==
    /\ future[i] = "pending"
    /\ future' = AfterCancel(i)
    /\ UNCHANGED <<queue, admission, worker, closer>>

-------------------------------------------------------------------------------
(* The worker thread *)

Take ==
    /\ worker.pc = "idle"
    /\ queue # <<>>
    /\ worker' = IF Head(queue) = Stop THEN At("exited", Stop) ELSE At("taken", Head(queue))
    /\ queue' = Tail(queue)
    /\ UNCHANGED <<future, admission, closer>>

Uncount ==
    /\ worker.pc = "taken"
    /\ admission' = Uncounted(worker.item)
    /\ worker' = [worker EXCEPT !.pc = "counted"]
    /\ UNCHANGED <<queue, future, closer>>

\* A mutant: the worker runs what it has taken, cancelled or not.
Start_IgnoresCancel ==
    /\ worker.pc = "counted"
    /\ future' = [future EXCEPT ![worker.item] = "running"]
    /\ worker' = [worker EXCEPT !.pc = "running"]
    /\ UNCHANGED <<queue, admission, closer>>

\* set_running_or_notify_cancel: an item cancelled meanwhile is skipped.
Start ==
    /\ worker.pc = "counted"
    /\ IF future[worker.item] = "pending"
       THEN /\ future' = [future EXCEPT ![worker.item] = "running"]
            /\ worker' = [worker EXCEPT !.pc = "running"]
       ELSE /\ worker' = At("idle", Stop)
            /\ UNCHANGED future
    /\ UNCHANGED <<queue, admission, closer>>

\* The call returned or raised: either way its future is settled.
Finish ==
    /\ worker.pc = "running"
    /\ future' = [future EXCEPT ![worker.item] = "done"]
    /\ worker' = At("idle", Stop)
    /\ UNCHANGED <<queue, admission, closer>>

-------------------------------------------------------------------------------
(* close *)

Move(c, pc, i) == closer' = [closer EXCEPT ![c] = At(pc, i)]

\* close may be called again after it raised or returned.
Outside(c) == closer[c].pc \in {"out", "full", "late", "closed"}

\* Only the call that sets _stopping drains the queue and sends _STOP.
Close(c, cancelQueued) ==
    /\ Outside(c)
    /\ admission' = [admission EXCEPT !.stopping = TRUE]
    /\ Move(c, IF admission.stopping THEN "join" ELSE IF cancelQueued THEN "drain" ELSE "stop", Stop)
    /\ UNCHANGED <<queue, future, worker>>

\* A mutant: drained items are dropped without cancelling their futures.
Drain_Forgets(c) ==
    /\ closer[c].pc = "drain"
    /\ queue' = <<>>
    /\ Move(c, "stop", Stop)
    /\ UNCHANGED <<future, admission, worker>>

\* One get_nowait of _cancel_queued.
Drain(c) ==
    /\ closer[c].pc = "drain"
    /\ IF queue = <<>>
       THEN /\ Move(c, "stop", Stop)
            /\ UNCHANGED queue
       ELSE /\ queue' = Tail(queue)
            /\ Move(c, IF Head(queue) = Stop THEN "drain" ELSE "drained", Head(queue))
    /\ UNCHANGED <<future, admission, worker>>

DrainUncount(c) ==
    /\ closer[c].pc = "drained"
    /\ admission' = Uncounted(closer[c].item)
    /\ Move(c, "cancel", closer[c].item)
    /\ UNCHANGED <<queue, future, worker>>

DrainCancel(c) ==
    /\ closer[c].pc = "cancel"
    /\ future' = AfterCancel(closer[c].item)
    /\ Move(c, "drain", Stop)
    /\ UNCHANGED <<queue, admission, worker>>

PutStop(c) ==
    /\ closer[c].pc = "stop"
    /\ Len(queue) < MaxSize
    /\ queue' = Append(queue, Stop)
    /\ Move(c, "join", Stop)
    /\ UNCHANGED <<future, admission, worker>>

\* put gives up on a queue that stays full.
PutTimesOut(c) ==
    /\ closer[c].pc = "stop"
    /\ Len(queue) >= MaxSize
    /\ Move(c, "full", Stop)
    /\ UNCHANGED <<queue, future, admission, worker>>

Join(c) ==
    /\ closer[c].pc = "join"
    /\ worker.pc = "exited"
    /\ Move(c, "closed", Stop)
    /\ UNCHANGED <<queue, future, admission, worker>>

JoinTimesOut(c) ==
    /\ closer[c].pc = "join"
    /\ worker.pc # "exited"
    /\ Move(c, "late", Stop)
    /\ UNCHANGED <<queue, future, admission, worker>>

-------------------------------------------------------------------------------
CallerStep == \E i \in Item : Submit(i) \/ Cancel(i)

WorkerStep == Take \/ Uncount \/ Start \/ Finish

\* The steps of a call of close that do not depend on a timeout.
CloserStep(c) == Drain(c) \/ DrainUncount(c) \/ DrainCancel(c) \/ PutStop(c) \/ Join(c)

CloserTimeout(c) == PutTimesOut(c) \/ JoinTimesOut(c)

Next ==
    \/ CallerStep
    \/ WorkerStep
    \/ \E c \in Closer :
          \/ \E b \in CancelQueued : Close(c, b)
          \/ CloserStep(c)
          \/ CloserTimeout(c)

Spec == Init /\ [][Next]_vars

\* The worker and the closing threads are scheduled, and every call they run
\* returns.  Nothing obliges a caller, a new close or a timeout.
FairSpec == Spec /\ WF_vars(WorkerStep) /\ \A c \in Closer : WF_vars(CloserStep(c))

-------------------------------------------------------------------------------
(* Properties *)

\* The queue never exceeds its bound, the counters never exceed their limits or
\* go below zero, and every thread is at a point of its code.
TypeOK ==
    /\ queue \in Seq(Item \cup {Stop}) /\ Len(queue) <= MaxSize
    /\ future \in [Item -> {"none", "pending", "running", "done", "cancelled"}]
    /\ admission \in [ordinary : 0 .. Capacity, cleanup : 0 .. CleanupReserve, stopping : BOOLEAN]
    /\ worker \in Thread({"idle", "taken", "counted", "running", "exited"})
    /\ closer \in [Closer -> Thread({"out", "drain", "drained", "cancel", "stop", "join",
                                     "full", "late", "closed"})]

\* An item that passes the admission checks always finds room: put_nowait never
\* raises Full.  So ordinary load can never refuse a cleanup, although both
\* share one queue and an item leaves the queue before it leaves the counters.
AdmittedFindsRoom == \A i \in Item : Admissible(i) => Len(queue) < MaxSize

\* When the worker thread has ended, no caller is left waiting: every future it
\* was given has a result, an exception or is cancelled.
SettledAtExit == worker.pc = "exited" => \A i \in Item : future[i] \notin {"pending", "running"}

\* An item waits from its admission until it starts or is cancelled; a drained
\* item is as good as cancelled.
Doomed(i) == \E c \in Closer : closer[c].pc \in {"drained", "cancel"} /\ closer[c].item = i

Waits(i) == future[i] = "pending" /\ ~Doomed(i)

\* Item j is with the worker, or nearer to the head of the queue than i.
Precedes(j, i) ==
    \/ worker.pc \in {"taken", "counted"} /\ worker.item = j /\ i # j
    \/ \E m, n \in 1 .. Len(queue) : m < n /\ queue[m] = j /\ queue[n] = i

Ahead(i) == IF Waits(i) THEN {j \in Item : Waits(j) /\ Precedes(j, i)} ELSE {}

Serial == INSTANCE SerialExecutor WITH
    older <- [i \in Item |-> Ahead(i)],
    status <- [i \in Item |-> IF future[i] = "pending" /\ Doomed(i) THEN "cancelled" ELSE future[i]],
    open <- ~admission.stopping

\* The executor implements the serial promise: one item at a time, in the order
\* of admission, cancelled before its start or run to its end, and nothing is
\* admitted once close has begun.
ImplementsSerial == Serial!Spec

\* Every admitted item is settled in the end, with or without a close (an item
\* is submitted once, so there is a moment when all are).
EveryItemSettles ==
    []<>(\A i \in Item : future[i] \notin {"pending", "running"})
===============================================================================

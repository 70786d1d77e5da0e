---------------------------- MODULE WorkerProofs ----------------------------
(* Proofs about the two executors of a workspace.  First the bounded executor, *)
(* for any set of items, any number of closing threads and any capacity: its   *)
(* type invariant, that an admitted item finds room in the queue, that no      *)
(* future is left open when the worker thread has ended, and that it keeps the *)
(* promise of SerialExecutor.  Then replace_symbol_body, which uses two such   *)
(* executors by that promise, for any number of edits of one file and any      *)
(* other programs: its answers are truthful, no edit overwrites another one    *)
(* that its caller had not seen, and stop closes an executor without edits.    *)
EXTENDS MCWorker, FiniteSetTheorems, TLAPS

USE Zenon  \* the default; SMT is named where it is needed

-------------------------------------------------------------------------------
(* The inductive invariant *)

InQueue(x) == \E n \in 1 .. Len(queue) : queue[n] = x

\* A call of close that has sealed admission and not yet sent _STOP.
Active(c) == closer[c].pc \in {"drain", "drained", "cancel", "stop"}

WorkerHas(i, pcs) == worker.pc \in pcs /\ worker.item = i

CloserHas(c, i, pcs) == closer[c].pc \in pcs /\ closer[c].item = i

\* The items counted by an admission counter: queued, or taken from the queue by
\* a thread that has not had _state_lock since.
Held(k) == {i \in Item : /\ Counter(i) = k
                         /\ \/ InQueue(i)
                            \/ WorkerHas(i, {"taken"})
                            \/ \E c \in Closer : CloserHas(c, i, {"drained"})}

\* One call of close at a time is active, none before admission is sealed, and
\* _STOP is the last thing in the queue, after which nothing is drained.
Sealing ==
    /\ ~admission.stopping => /\ \A c \in Closer : closer[c].pc = "out"
                              /\ ~InQueue(Stop)
                              /\ worker.pc # "exited"
    /\ \A c, d \in Closer : Active(c) /\ Active(d) => c = d
    /\ \A c \in Closer : Active(c) => ~InQueue(Stop) /\ worker.pc # "exited"
    /\ \A n \in 1 .. Len(queue) : queue[n] = Stop => n = Len(queue)
    /\ worker.pc = "exited" => queue = <<>>

\* An item is in one place: at one position of the queue, with the worker, or
\* with one closing thread; an item that was never submitted is nowhere.
Placed ==
    /\ \A m, n \in 1 .. Len(queue) : queue[m] = queue[n] => m = n
    /\ worker.pc \in {"taken", "counted", "running"} => worker.item \in Item /\ ~InQueue(worker.item)
    /\ \A c \in Closer : closer[c].pc \in {"drained", "cancel"} =>
          /\ closer[c].item \in Item /\ ~InQueue(closer[c].item)
          /\ ~WorkerHas(closer[c].item, {"taken", "counted", "running"})
    /\ \A i \in Item : future[i] = "none" =>
          /\ ~InQueue(i)
          /\ ~WorkerHas(i, {"taken", "counted", "running"})
          /\ \A c \in Closer : ~CloserHas(c, i, {"drained", "cancel"})

\* The counters count exactly what they are said to count.
CountsExact ==
    /\ IsFiniteSet(Held("ordinary")) /\ admission.ordinary = Cardinality(Held("ordinary"))
    /\ IsFiniteSet(Held("cleanup")) /\ admission.cleanup = Cardinality(Held("cleanup"))

\* Before admission is sealed the counters are the length of the queue, plus one
\* for an item the worker has just taken.
RoomExact ==
    ~admission.stopping =>
        admission.ordinary + admission.cleanup = Len(queue) + (IF worker.pc = "taken" THEN 1 ELSE 0)

\* A future that is still open belongs to an item that some thread will reach.
OpenReached ==
    /\ \A i \in Item : future[i] = "pending" =>
          \/ InQueue(i)
          \/ WorkerHas(i, {"taken", "counted"})
          \/ \E c \in Closer : CloserHas(c, i, {"drained", "cancel"})
    /\ \A i \in Item : future[i] = "running" <=> WorkerHas(i, {"running"})

Inv == TypeOK /\ Sealing /\ Placed /\ CountsExact /\ RoomExact /\ OpenReached

-------------------------------------------------------------------------------
(* The queue: what Append and Tail leave where *)

\* put_nowait adds one element behind the others.
LEMMA AppendElements ==
    ASSUME NEW S, NEW s \in Seq(S), NEW e \in S
    PROVE  /\ Append(s, e) \in Seq(S)
           /\ Len(Append(s, e)) = Len(s) + 1
           /\ \A n \in 1 .. Len(s) : Append(s, e)[n] = s[n]
           /\ Append(s, e)[Len(s) + 1] = e
  BY SMT

\* get takes the first element and moves the others up by one.
LEMMA TailElements ==
    ASSUME NEW S, NEW s \in Seq(S), s # <<>>
    PROVE  /\ Head(s) = s[1] /\ Head(s) \in S
           /\ Tail(s) \in Seq(S)
           /\ Len(s) \in Nat \ {0}
           /\ Len(Tail(s)) = Len(s) - 1
           /\ \A n \in 1 .. Len(s) - 1 : Tail(s)[n] = s[n + 1]
  BY SMT

\* What put_nowait makes of the set of queued elements.
LEMMA QueuedAfterPut ==
    ASSUME TypeOK, NEW e \in Item \cup {Stop}, queue' = Append(queue, e)
    PROVE  \A x : InQueue(x)' <=> InQueue(x) \/ x = e
  <1>1. Len(queue) \in Nat
    BY SMT DEF TypeOK
  <1>2. /\ Len(queue') = Len(queue) + 1
        /\ \A n \in 1 .. Len(queue) : queue'[n] = queue[n]
        /\ queue'[Len(queue) + 1] = e
    BY SMT, AppendElements DEF TypeOK
  <1> QED
    BY SMT, <1>1, <1>2 DEF InQueue

\* What get makes of it, when no element is queued twice.
LEMMA QueuedAfterGet ==
    ASSUME TypeOK, Placed, queue # <<>>, queue' = Tail(queue)
    PROVE  /\ \A x : InQueue(x)' <=> InQueue(x) /\ x # Head(queue)
           /\ InQueue(Head(queue))
  <1>1. /\ Len(queue) \in Nat \ {0}
        /\ Len(queue') = Len(queue) - 1
        /\ \A n \in 1 .. Len(queue) - 1 : queue'[n] = queue[n + 1]
        /\ Head(queue) = queue[1]
    BY TailElements DEF TypeOK
  <1>2. ASSUME NEW x, InQueue(x)'
        PROVE  InQueue(x) /\ x # Head(queue)
    <2>1. PICK n \in 1 .. Len(queue) - 1 : queue[n + 1] = x
      BY <1>1, <1>2 DEF InQueue
    <2>2. n + 1 \in 1 .. Len(queue) /\ 1 \in 1 .. Len(queue) /\ n + 1 # 1
      BY SMT, <1>1
    <2> QED
      BY <1>1, <2>1, <2>2 DEF InQueue, Placed
  <1>3. ASSUME NEW x, InQueue(x), x # Head(queue)
        PROVE  InQueue(x)'
    <2>1. PICK n \in 1 .. Len(queue) : queue[n] = x
      BY <1>3 DEF InQueue
    <2>2. n # 1
      BY <1>1, <1>3, <2>1
    <2>3. n - 1 \in 1 .. Len(queue) - 1 /\ queue'[n - 1] = x
      BY SMT, <1>1, <2>1, <2>2
    <2> QED
      BY <1>1, <2>3 DEF InQueue
  <1> QED
    BY SMT, <1>1, <1>2, <1>3 DEF InQueue

-------------------------------------------------------------------------------
(* The counters *)

\* Counting does not touch the seal.
LEMMA CountKeepsSeal ==
    ASSUME TypeOK, NEW i, admission' = Counted(i) \/ admission' = Uncounted(i)
    PROVE  admission'.stopping = admission.stopping
  <1>1. CASE i \in Cleanup
    <2>1. \/ admission' = [admission EXCEPT !.cleanup = @ + 1]
          \/ admission' = [admission EXCEPT !.cleanup = @ - 1]
      BY <1>1 DEF Counter, Counted, Uncounted
    <2> QED
      BY <2>1 DEF TypeOK
  <1>2. CASE i \notin Cleanup
    <2>1. \/ admission' = [admission EXCEPT !.ordinary = @ + 1]
          \/ admission' = [admission EXCEPT !.ordinary = @ - 1]
      BY <1>2 DEF Counter, Counted, Uncounted
    <2> QED
      BY <2>1 DEF TypeOK
  <1> QED
    BY <1>1, <1>2

\* Counting an item that was not counted keeps the counters exact.
LEMMA CountAdded ==
    ASSUME TypeOK, CountsExact, NEW i \in Item, i \notin Held(Counter(i)),
           Held(Counter(i))' = Held(Counter(i)) \cup {i},
           \A k \in {"ordinary", "cleanup"} \ {Counter(i)} : Held(k)' = Held(k),
           admission' = Counted(i)
    PROVE  CountsExact' /\ admission'.stopping = admission.stopping
  <1>1. CASE i \in Cleanup
    <2>1. /\ Counter(i) = "cleanup"
          /\ admission' = [admission EXCEPT !.cleanup = @ + 1]
      BY <1>1 DEF Counter, Counted
    <2>2. /\ admission'.cleanup = admission.cleanup + 1
          /\ admission'.ordinary = admission.ordinary
          /\ admission'.stopping = admission.stopping
      BY <2>1 DEF TypeOK
    <2> QED
      BY SMT, <2>1, <2>2, FS_AddElement DEF CountsExact
  <1>2. CASE i \notin Cleanup
    <2>1. /\ Counter(i) = "ordinary"
          /\ admission' = [admission EXCEPT !.ordinary = @ + 1]
      BY <1>2 DEF Counter, Counted
    <2>2. /\ admission'.ordinary = admission.ordinary + 1
          /\ admission'.cleanup = admission.cleanup
          /\ admission'.stopping = admission.stopping
      BY <2>1 DEF TypeOK
    <2> QED
      BY SMT, <2>1, <2>2, FS_AddElement DEF CountsExact
  <1> QED
    BY <1>1, <1>2

\* Uncounting a counted item keeps them exact, and within their bounds.
LEMMA CountRemoved ==
    ASSUME TypeOK, CountsExact, NEW i \in Item, i \in Held(Counter(i)),
           Held(Counter(i))' = Held(Counter(i)) \ {i},
           \A k \in {"ordinary", "cleanup"} \ {Counter(i)} : Held(k)' = Held(k),
           admission' = Uncounted(i)
    PROVE  /\ CountsExact'
           /\ admission' \in [ordinary : 0 .. Capacity, cleanup : 0 .. CleanupReserve, stopping : BOOLEAN]
           /\ admission'.stopping = admission.stopping
           /\ admission'.ordinary + admission'.cleanup = admission.ordinary + admission.cleanup - 1
  <1> USE CapacityAssumption
  <1>1. Cardinality(Held("ordinary")') \in Nat /\ Cardinality(Held("cleanup")') \in Nat
    BY FS_RemoveElement, FS_CardinalityType DEF CountsExact, Counter
  <1>2. CASE i \in Cleanup
    <2>1. /\ Counter(i) = "cleanup"
          /\ admission' = [admission EXCEPT !.cleanup = @ - 1]
      BY <1>2 DEF Counter, Uncounted
    <2>2. /\ admission'.cleanup = admission.cleanup - 1
          /\ admission'.ordinary = admission.ordinary
          /\ admission'.stopping = admission.stopping
      BY <2>1 DEF TypeOK
    <2>3. CountsExact'
      BY SMT, <2>1, <2>2, FS_RemoveElement DEF CountsExact
    <2> QED
      BY SMT, <1>1, <2>1, <2>2, <2>3 DEF CountsExact, TypeOK
  <1>3. CASE i \notin Cleanup
    <2>1. /\ Counter(i) = "ordinary"
          /\ admission' = [admission EXCEPT !.ordinary = @ - 1]
      BY <1>3 DEF Counter, Uncounted
    <2>2. /\ admission'.ordinary = admission.ordinary - 1
          /\ admission'.cleanup = admission.cleanup
          /\ admission'.stopping = admission.stopping
      BY <2>1 DEF TypeOK
    <2>3. CountsExact'
      BY SMT, <2>1, <2>2, FS_RemoveElement DEF CountsExact
    <2> QED
      BY SMT, <1>1, <2>1, <2>2, <2>3 DEF CountsExact, TypeOK
  <1> QED
    BY <1>2, <1>3

-------------------------------------------------------------------------------
(* The steps *)

\* The empty executor satisfies the invariant.
LEMMA InitInv == Init => Inv
  <1> SUFFICES ASSUME Init PROVE Inv
    OBVIOUS
  <1> USE CapacityAssumption, ItemAssumption DEF Init, At
  <1>1. TypeOK
    BY SMT DEF TypeOK, Thread, MaxSize
  <1>2. \A x : ~InQueue(x)
    BY SMT DEF InQueue
  <1>3. Sealing /\ Placed /\ OpenReached
    BY SMT, <1>2 DEF Sealing, Placed, OpenReached, Active, WorkerHas, CloserHas
  <1>4. Held("ordinary") = {} /\ Held("cleanup") = {}
    BY <1>2 DEF Held, WorkerHas, CloserHas
  <1>5. CountsExact /\ RoomExact
    BY <1>4, FS_EmptySet DEF CountsExact, RoomExact
  <1> QED
    BY <1>1, <1>3, <1>5 DEF Inv

\* submit and submit_cleanup: the new item is queued, counted and pending.
LEMMA SubmitInv ==
    ASSUME Inv, NEW i \in Item, Submit(i)
    PROVE  Inv'
  <1> USE CapacityAssumption, ItemAssumption
  <1>1. TypeOK /\ Sealing /\ Placed /\ CountsExact /\ RoomExact /\ OpenReached
    BY DEF Inv
  <1>2. /\ Len(queue) \in Nat
        /\ queue' \in Seq(Item \cup {Stop})
        /\ Len(queue') = Len(queue) + 1
        /\ \A n \in 1 .. Len(queue) : queue'[n] = queue[n]
        /\ queue'[Len(queue) + 1] = i
    BY SMT, <1>1, AppendElements DEF Submit, TypeOK
  <1>3. \A x : InQueue(x)' <=> InQueue(x) \/ x = i
    BY <1>1, QueuedAfterPut DEF Submit
  <1>4. ~InQueue(i) /\ ~WorkerHas(i, {"taken", "counted", "running"})
        /\ \A c \in Closer : ~CloserHas(c, i, {"drained", "cancel"})
    BY <1>1 DEF Placed, Submit
  <1>5. /\ i \notin Held(Counter(i))
        /\ Held(Counter(i))' = Held(Counter(i)) \cup {i}
        /\ \A k \in {"ordinary", "cleanup"} \ {Counter(i)} : Held(k)' = Held(k)
    BY <1>3, <1>4 DEF Held, WorkerHas, CloserHas, Submit
  <1>6. CountsExact' /\ ~admission.stopping /\ ~admission'.stopping
    BY <1>1, <1>5, CountAdded DEF Submit, Admissible
  <1>7. /\ admission' \in [ordinary : 0 .. Capacity, cleanup : 0 .. CleanupReserve, stopping : BOOLEAN]
        /\ admission'.ordinary + admission'.cleanup = admission.ordinary + admission.cleanup + 1
    <2>1. CASE i \in Cleanup
      <3>1. admission' = [admission EXCEPT !.cleanup = @ + 1]
        BY <2>1 DEF Submit, Counted, Counter
      <3>2. /\ admission.cleanup < CleanupReserve
            /\ admission.ordinary \in 0 .. Capacity /\ admission.cleanup \in 0 .. CleanupReserve
            /\ admission.stopping \in BOOLEAN
        BY <1>1, <2>1 DEF TypeOK, Submit, Admissible, Counter, Limit
      <3>3. admission' = [ordinary |-> admission.ordinary,
                          cleanup |-> admission.cleanup + 1,
                          stopping |-> admission.stopping]
        BY <1>1, <3>1 DEF TypeOK
      <3> QED
        BY SMT, <3>2, <3>3
    <2>2. CASE i \notin Cleanup
      <3>1. admission' = [admission EXCEPT !.ordinary = @ + 1]
        BY <2>2 DEF Submit, Counted, Counter
      <3>2. /\ admission.ordinary < Capacity
            /\ admission.ordinary \in 0 .. Capacity /\ admission.cleanup \in 0 .. CleanupReserve
            /\ admission.stopping \in BOOLEAN
        BY <1>1, <2>2 DEF TypeOK, Submit, Admissible, Counter, Limit
      <3>3. admission' = [ordinary |-> admission.ordinary + 1,
                          cleanup |-> admission.cleanup,
                          stopping |-> admission.stopping]
        BY <1>1, <3>1 DEF TypeOK
      <3> QED
        BY SMT, <3>2, <3>3
    <2> QED
      BY <2>1, <2>2
  <1>8. TypeOK'
    <2>1. future' \in [Item -> {"none", "pending", "running", "done", "cancelled"}]
      BY <1>1 DEF TypeOK, Submit
    <2>2. Len(queue') <= MaxSize
      BY SMT, <1>2 DEF Submit, MaxSize
    <2> QED
      BY <1>1, <1>2, <1>7, <2>1, <2>2 DEF TypeOK, Submit
  <1>9. Sealing'
    <2>1. ~InQueue(Stop)'
      BY <1>1, <1>3, <1>6 DEF Sealing
    <2>2. \A n \in 1 .. Len(queue') : queue'[n] # Stop
      BY <2>1 DEF InQueue
    <2> QED
      BY <1>1, <1>6, <2>1, <2>2 DEF Sealing, Submit, Active
  <1>10. Placed'
    <2>1. \A m, n \in 1 .. Len(queue') : queue'[m] = queue'[n] => m = n
      BY SMT, <1>1, <1>2, <1>4 DEF Placed, InQueue
    <2> QED
      BY <1>1, <1>3, <1>4, <2>1 DEF Placed, Submit, WorkerHas, CloserHas, TypeOK
  <1>11. RoomExact'
    BY SMT, <1>1, <1>2, <1>6, <1>7 DEF RoomExact, Submit
  <1>12. OpenReached'
    BY SMT, <1>1, <1>3 DEF OpenReached, Submit, WorkerHas, CloserHas, TypeOK
  <1> QED
    BY <1>6, <1>8, <1>9, <1>10, <1>11, <1>12 DEF Inv

\* A caller's cancel only closes a future.
LEMMA CancelInv ==
    ASSUME Inv, NEW i \in Item, Cancel(i)
    PROVE  Inv'
  <1>1. TypeOK /\ Sealing /\ Placed /\ CountsExact /\ RoomExact /\ OpenReached
    BY DEF Inv
  <1>2. /\ future' \in [Item -> {"none", "pending", "running", "done", "cancelled"}]
        /\ \A j \in Item : future'[j] = IF j = i THEN "cancelled" ELSE future[j]
    BY <1>1 DEF Cancel, AfterCancel, TypeOK
  <1>3. \A x : InQueue(x)' = InQueue(x)
    BY DEF InQueue, Cancel
  <1>4. \A k : Held(k)' = Held(k)
    BY <1>3 DEF Held, WorkerHas, CloserHas, Cancel
  <1> QED
    BY SMT, <1>1, <1>2, <1>3, <1>4
    DEF Inv, TypeOK, Sealing, Placed, CountsExact, RoomExact, OpenReached, Active, WorkerHas,
        CloserHas, Cancel

\* The worker's get: the head of the queue is now with the worker, still counted,
\* or it was _STOP, which was the last element.
LEMMA TakeInv ==
    ASSUME Inv, Take
    PROVE  Inv'
  <1> USE ItemAssumption
  <1>1. TypeOK /\ Sealing /\ Placed /\ CountsExact /\ RoomExact /\ OpenReached
    BY DEF Inv
  <1>2. /\ Len(queue) \in Nat \ {0}
        /\ queue' \in Seq(Item \cup {Stop})
        /\ Len(queue') = Len(queue) - 1
        /\ \A n \in 1 .. Len(queue) - 1 : queue'[n] = queue[n + 1]
        /\ Head(queue) = queue[1] /\ Head(queue) \in Item \cup {Stop}
    BY <1>1, TailElements DEF Take, TypeOK
  <1>3. /\ \A x : InQueue(x)' <=> InQueue(x) /\ x # Head(queue)
        /\ InQueue(Head(queue))
    BY <1>1, QueuedAfterGet DEF Take
  <1>4. TypeOK'
    <2>1. worker' \in Thread({"idle", "taken", "counted", "running", "exited"})
      BY <1>2 DEF Take, Thread, At
    <2>2. Len(queue') <= MaxSize
      BY SMT, <1>1, <1>2, CapacityAssumption DEF TypeOK, MaxSize
    <2> QED
      BY <1>1, <1>2, <2>1, <2>2 DEF TypeOK, Take
  <1>5. /\ \A m, n \in 1 .. Len(queue') : queue'[m] = queue'[n] => m = n
        /\ \A n \in 1 .. Len(queue') : queue'[n] = Stop => n = Len(queue')
    <2>1. \A n \in 1 .. Len(queue') : n + 1 \in 1 .. Len(queue) /\ queue'[n] = queue[n + 1]
      BY SMT, <1>2
    <2>2. ASSUME NEW m \in 1 .. Len(queue'), NEW n \in 1 .. Len(queue'), queue'[m] = queue'[n]
          PROVE  m = n
      <3>1. m + 1 = n + 1
        BY <1>1, <2>1, <2>2 DEF Placed
      <3> QED
        BY SMT, <1>2, <3>1
    <2>3. ASSUME NEW n \in 1 .. Len(queue'), queue'[n] = Stop
          PROVE  n = Len(queue')
      <3>1. n + 1 = Len(queue)
        BY <1>1, <2>1, <2>3 DEF Sealing
      <3> QED
        BY SMT, <1>2, <3>1
    <2> QED
      BY <2>2, <2>3
  <1>6. CASE Head(queue) = Stop
    <2>1. worker' = At("exited", Stop) /\ worker'.pc = "exited"
      BY <1>6 DEF Take, At
    <2>2. queue' = <<>> /\ Len(queue) = 1
      <3>1. Len(queue) = 1
        BY SMT, <1>1, <1>2, <1>6 DEF Sealing
      <3> QED
        BY SMT, <1>2, <3>1
    <2>3. /\ admission.stopping
          /\ \A c \in Closer : ~Active(c)
      BY <1>1, <1>3, <1>6 DEF Sealing
    <2>4. \A i \in Item : ~InQueue(i)
      <3>1. \A n \in 1 .. Len(queue) : queue[n] = Stop
        BY SMT, <1>2, <1>6, <2>2
      <3> QED
        BY <3>1 DEF InQueue
    <2>5. Sealing'
      BY <1>1, <1>3, <1>5, <2>1, <2>2, <2>3 DEF Sealing, Take, Active
    <2>6. Placed'
      BY <1>1, <1>3, <1>5, <2>1 DEF Placed, Take, WorkerHas, CloserHas
    <2>7. \A k : Held(k)' = Held(k)
      BY <1>3, <1>6, <2>1 DEF Held, Take, WorkerHas, CloserHas
    <2>8. CountsExact' /\ RoomExact'
      BY <1>1, <2>3, <2>7 DEF CountsExact, RoomExact, Take
    <2>9. OpenReached'
      BY <1>1, <1>3, <1>6, <2>1 DEF OpenReached, Take, WorkerHas, CloserHas
    <2> QED
      BY <1>4, <2>5, <2>6, <2>8, <2>9 DEF Inv
  <1>7. CASE Head(queue) # Stop
    <2>1. /\ worker' = At("taken", Head(queue)) /\ worker'.pc = "taken"
          /\ worker'.item = Head(queue) /\ Head(queue) \in Item
      BY <1>2, <1>7 DEF Take, At
    <2>2. Sealing'
      BY <1>1, <1>3, <1>5, <2>1 DEF Sealing, Take, Active
    <2>3. Placed'
      BY <1>1, <1>3, <1>5, <2>1 DEF Placed, Take, WorkerHas, CloserHas
    <2>4. \A k : Held(k)' = Held(k)
      BY <1>3, <2>1 DEF Held, Take, WorkerHas, CloserHas
    <2>5. CountsExact'
      BY <1>1, <2>4 DEF CountsExact, Take
    <2>6. RoomExact'
      BY SMT, <1>1, <1>2, <2>1 DEF RoomExact, Take
    <2>7. OpenReached'
      BY <1>1, <1>3, <2>1 DEF OpenReached, Take, WorkerHas, CloserHas
    <2> QED
      BY <1>4, <2>2, <2>3, <2>5, <2>6, <2>7 DEF Inv
  <1> QED
    BY <1>6, <1>7

\* The worker gets _state_lock and uncounts what it has taken.
LEMMA UncountInv ==
    ASSUME Inv, Uncount
    PROVE  Inv'
  <1>1. TypeOK /\ Sealing /\ Placed /\ CountsExact /\ RoomExact /\ OpenReached
    BY DEF Inv
  <1>item. PICK i \in Item : i = worker.item
    BY <1>1 DEF Uncount, Placed
  <1>2. ~InQueue(i)
    BY <1>item, <1>1 DEF Placed, Uncount
  <1>3. worker'.pc = "counted" /\ worker'.item = i /\ worker' \in Thread({"idle", "taken", "counted", "running", "exited"})
    BY <1>item, <1>1 DEF Uncount, TypeOK, Thread
  <1>4. \A x : InQueue(x)' = InQueue(x)
    BY DEF InQueue, Uncount
  <1>5. /\ i \in Held(Counter(i))
        /\ Held(Counter(i))' = Held(Counter(i)) \ {i}
        /\ \A k \in {"ordinary", "cleanup"} \ {Counter(i)} : Held(k)' = Held(k)
    BY <1>item, <1>1, <1>2, <1>3, <1>4 DEF Held, Uncount, WorkerHas, CloserHas, Placed
  <1>6. /\ CountsExact'
        /\ admission' \in [ordinary : 0 .. Capacity, cleanup : 0 .. CleanupReserve, stopping : BOOLEAN]
        /\ admission'.stopping = admission.stopping
        /\ admission'.ordinary + admission'.cleanup = admission.ordinary + admission.cleanup - 1
    BY <1>item, <1>1, <1>2, <1>5, CountRemoved DEF Uncount
  <1>7. TypeOK'
    BY <1>1, <1>3, <1>6 DEF TypeOK, Uncount
  <1>8. Sealing' /\ Placed'
    BY SMT, <1>item, <1>1, <1>2, <1>3, <1>4, <1>6
    DEF Sealing, Placed, Uncount, Active, WorkerHas, CloserHas
  <1>9. RoomExact'
    <2>1. Len(queue) \in Nat /\ worker.pc = "taken"
      BY SMT, <1>1 DEF TypeOK, Uncount
    <2>2. ~admission.stopping => admission.ordinary + admission.cleanup = Len(queue) + 1
      BY <1>1, <2>1 DEF RoomExact
    <2>3. ~admission'.stopping => admission'.ordinary + admission'.cleanup = Len(queue)
      BY SMT, <1>1, <1>6, <2>1, <2>2, CapacityAssumption DEF TypeOK
    <2> QED
      BY SMT, <1>3, <2>1, <2>3 DEF RoomExact, Uncount
  <1>10. OpenReached'
    BY <1>item, <1>1, <1>3, <1>4 DEF OpenReached, Uncount, WorkerHas, CloserHas
  <1> QED
    BY <1>6, <1>7, <1>8, <1>9, <1>10 DEF Inv

\* The worker starts the item it holds, or skips a cancelled one.
LEMMA StartInv ==
    ASSUME Inv, Start
    PROVE  Inv'
  <1> DEFINE i == worker.item
  <1>1. TypeOK /\ Sealing /\ Placed /\ CountsExact /\ RoomExact /\ OpenReached
    BY DEF Inv
  <1>2. i \in Item /\ worker.pc = "counted"
    BY <1>1 DEF Placed, Start
  <1>3. \A x : InQueue(x)' = InQueue(x)
    BY DEF InQueue, Start
  <1>4. \/ /\ worker'.pc = "running" /\ worker'.item = i
           /\ future[i] = "pending"
           /\ \A j \in Item : future'[j] = IF j = i THEN "running" ELSE future[j]
        \/ /\ worker'.pc = "idle"
           /\ future[i] # "pending"
           /\ future' = future
    BY SMT, <1>1, <1>2 DEF Start, At, TypeOK, Thread
  <1>5. TypeOK'
    <2>1. worker' \in Thread({"idle", "taken", "counted", "running", "exited"})
      BY SMT, <1>1 DEF TypeOK, Start, Thread, At
    <2>2. future' \in [Item -> {"none", "pending", "running", "done", "cancelled"}]
      BY <1>1 DEF TypeOK, Start
    <2> QED
      BY <1>1, <2>1, <2>2 DEF TypeOK, Start
  <1>6. \A k : Held(k)' = Held(k)
    BY <1>2, <1>3, <1>4 DEF Held, Start, WorkerHas, CloserHas
  <1>7. CountsExact' /\ RoomExact'
    BY <1>1, <1>2, <1>4, <1>6 DEF CountsExact, RoomExact, Start
  <1>8. Sealing' /\ Placed'
    BY <1>1, <1>2, <1>3, <1>4 DEF Sealing, Placed, Start, Active, WorkerHas, CloserHas
  <1>9. OpenReached'
    BY SMT, <1>1, <1>2, <1>3, <1>4 DEF OpenReached, Start, WorkerHas, CloserHas
  <1> QED
    BY <1>5, <1>7, <1>8, <1>9 DEF Inv

\* The call returns or raises and its future is settled.
LEMMA FinishInv ==
    ASSUME Inv, Finish
    PROVE  Inv'
  <1> DEFINE i == worker.item
  <1>1. TypeOK /\ Sealing /\ Placed /\ CountsExact /\ RoomExact /\ OpenReached
    BY DEF Inv
  <1>2. i \in Item /\ worker.pc = "running" /\ worker'.pc = "idle"
    BY <1>1 DEF Placed, Finish, At
  <1>3. \A x : InQueue(x)' = InQueue(x)
    BY DEF InQueue, Finish
  <1>4. \A j \in Item : future'[j] = IF j = i THEN "done" ELSE future[j]
    BY <1>1 DEF Finish, TypeOK
  <1>5. TypeOK'
    <2>1. worker' \in Thread({"idle", "taken", "counted", "running", "exited"})
      BY DEF Finish, Thread, At
    <2>2. future' \in [Item -> {"none", "pending", "running", "done", "cancelled"}]
      BY <1>1 DEF TypeOK, Finish
    <2> QED
      BY <1>1, <2>1, <2>2 DEF TypeOK, Finish
  <1>6. \A k : Held(k)' = Held(k)
    BY <1>2, <1>3 DEF Held, Finish, WorkerHas, CloserHas
  <1>7. CountsExact' /\ RoomExact'
    BY <1>1, <1>2, <1>6 DEF CountsExact, RoomExact, Finish
  <1>8. Sealing' /\ Placed'
    BY SMT, <1>1, <1>2, <1>3, <1>4 DEF Sealing, Placed, Finish, Active, WorkerHas, CloserHas
  <1>9. OpenReached'
    BY SMT, <1>1, <1>2, <1>3, <1>4 DEF OpenReached, Finish, WorkerHas, CloserHas
  <1> QED
    BY <1>5, <1>7, <1>8, <1>9 DEF Inv

\* What Move does to the closing threads.
LEMMA MoveEffect ==
    ASSUME TypeOK, NEW c \in Closer, NEW x \in Item \cup {Stop},
           NEW pc \in {"out", "drain", "drained", "cancel", "stop", "join", "full", "late", "closed"},
           Move(c, pc, x)
    PROVE  /\ closer' \in [Closer -> Thread({"out", "drain", "drained", "cancel", "stop", "join",
                                             "full", "late", "closed"})]
           /\ closer'[c].pc = pc /\ closer'[c].item = x
           /\ \A d \in Closer \ {c} : closer'[d] = closer[d]
  BY DEF TypeOK, Move, At, Thread

\* close seals admission; the call that seals it becomes the active one.
LEMMA CloseInv ==
    ASSUME Inv, NEW c \in Closer, NEW b \in CancelQueued, Close(c, b)
    PROVE  Inv'
  <1> DEFINE to == IF admission.stopping THEN "join" ELSE IF b THEN "drain" ELSE "stop"
  <1>1. TypeOK /\ Sealing /\ Placed /\ CountsExact /\ RoomExact /\ OpenReached
    BY DEF Inv
  <1>2. /\ closer' \in [Closer -> Thread({"out", "drain", "drained", "cancel", "stop", "join",
                                           "full", "late", "closed"})]
        /\ closer'[c].pc = to
        /\ \A d \in Closer \ {c} : closer'[d] = closer[d]
    <2>1. Move(c, to, Stop)
      BY DEF Close
    <2>2. to \in {"out", "drain", "drained", "cancel", "stop", "join", "full", "late", "closed"}
      OBVIOUS
    <2> HIDE DEF to
    <2> QED
      BY SMT, <1>1, <2>1, <2>2, MoveEffect
  <1>3. closer[c].pc \notin {"drain", "drained", "cancel", "stop"}
    BY DEF Close, Outside
  <1>4. /\ admission'.ordinary = admission.ordinary /\ admission'.cleanup = admission.cleanup
        /\ admission'.stopping = TRUE
        /\ admission' \in [ordinary : 0 .. Capacity, cleanup : 0 .. CleanupReserve, stopping : BOOLEAN]
    BY <1>1 DEF Close, TypeOK
  <1>5. \A x : InQueue(x)' = InQueue(x)
    BY DEF InQueue, Close
  <1>6. TypeOK'
    BY <1>1, <1>2, <1>4 DEF TypeOK, Close
  <1>7. \A k : Held(k)' = Held(k)
    BY <1>2, <1>3, <1>5 DEF Held, Close, WorkerHas, CloserHas
  <1>8. CountsExact' /\ RoomExact'
    BY <1>1, <1>4, <1>7 DEF CountsExact, RoomExact
  <1>9. Sealing'
    BY SMT, <1>1, <1>2, <1>3, <1>4, <1>5 DEF Sealing, Close, Active
  <1>10. Placed' /\ OpenReached'
    BY SMT, <1>1, <1>2, <1>3, <1>5 DEF Placed, OpenReached, Close, WorkerHas, CloserHas
  <1> QED
    BY <1>6, <1>8, <1>9, <1>10 DEF Inv

\* One get of _cancel_queued: the head of the queue is with the closing thread.
LEMMA DrainInv ==
    ASSUME Inv, NEW c \in Closer, Drain(c)
    PROVE  Inv'
  <1> USE ItemAssumption
  <1>1. TypeOK /\ Sealing /\ Placed /\ CountsExact /\ RoomExact /\ OpenReached
    BY DEF Inv
  <1>2. /\ closer[c].pc = "drain" /\ Active(c) /\ admission.stopping
        /\ \A d \in Closer \ {c} : ~Active(d)
        /\ ~InQueue(Stop) /\ worker.pc # "exited"
    BY <1>1 DEF Drain, Sealing, Active
  <1>3. CASE queue = <<>>
    <2>1. /\ closer' \in [Closer -> Thread({"out", "drain", "drained", "cancel", "stop", "join",
                                             "full", "late", "closed"})]
          /\ closer'[c].pc = "stop"
          /\ \A d \in Closer \ {c} : closer'[d] = closer[d]
      BY <1>1, <1>3, MoveEffect DEF Drain
    <2>2. \A x : InQueue(x)' = InQueue(x)
      BY <1>3 DEF InQueue, Drain
    <2>3. TypeOK'
      BY <1>1, <1>3, <2>1 DEF TypeOK, Drain
    <2>4. \A k : Held(k)' = Held(k)
      BY <1>2, <2>1, <2>2 DEF Held, Drain, WorkerHas, CloserHas
    <2>5. CountsExact' /\ RoomExact'
      BY <1>1, <1>2, <2>4 DEF CountsExact, RoomExact, Drain
    <2>6. Sealing'
      BY <1>1, <1>2, <1>3, <2>1, <2>2 DEF Sealing, Drain, Active
    <2>7. Placed' /\ OpenReached'
      BY SMT, <1>1, <1>2, <1>3, <2>1, <2>2 DEF Placed, OpenReached, Drain, WorkerHas, CloserHas
    <2> QED
      BY <2>3, <2>5, <2>6, <2>7 DEF Inv
  <1>4. CASE queue # <<>>
    <2> DEFINE i == Head(queue)
    <2>0. queue' = Tail(queue)
      BY <1>4 DEF Drain
    <2>1. /\ Len(queue) \in Nat \ {0}
          /\ queue' \in Seq(Item \cup {Stop})
          /\ Len(queue') = Len(queue) - 1
          /\ \A n \in 1 .. Len(queue) - 1 : queue'[n] = queue[n + 1]
          /\ i = queue[1] /\ i \in Item \cup {Stop}
      BY <1>1, <1>4, <2>0, TailElements DEF TypeOK
    <2>2. /\ \A x : InQueue(x)' <=> InQueue(x) /\ x # i
          /\ InQueue(i)
      BY <1>1, <1>4, <2>0, QueuedAfterGet
    <2>3. i \in Item
      BY <1>2, <2>1, <2>2
    <2>4. /\ closer' \in [Closer -> Thread({"out", "drain", "drained", "cancel", "stop", "join",
                                             "full", "late", "closed"})]
          /\ closer'[c].pc = "drained" /\ closer'[c].item = i
          /\ \A d \in Closer \ {c} : closer'[d] = closer[d]
      <3>1. Move(c, "drained", i)
        BY <1>4, <2>3 DEF Drain
      <3> HIDE DEF i
      <3> QED
        BY <1>1, <2>3, <3>1, MoveEffect
    <2> HIDE DEF i
    <2>5. TypeOK'
      <3>1. Len(queue') <= MaxSize
        BY SMT, <1>1, <2>1, CapacityAssumption DEF TypeOK, MaxSize
      <3> QED
        BY <1>1, <2>1, <2>4, <3>1 DEF TypeOK, Drain
    <2>6. \A m, n \in 1 .. Len(queue') : queue'[m] = queue'[n] => m = n
      <3> SUFFICES ASSUME NEW m \in 1 .. Len(queue'), NEW n \in 1 .. Len(queue'), queue'[m] = queue'[n]
                   PROVE  m = n
        OBVIOUS
      <3>1. /\ m + 1 \in 1 .. Len(queue) /\ n + 1 \in 1 .. Len(queue)
            /\ queue[m + 1] = queue[n + 1]
        BY SMT, <2>1
      <3>2. m + 1 = n + 1
        BY <1>1, <3>1 DEF Placed
      <3> QED
        BY SMT, <2>1, <3>2
    <2>7. \A n \in 1 .. Len(queue') : queue'[n] # Stop
      BY <1>2, <2>2 DEF InQueue
    <2>8. Sealing'
      BY <1>1, <1>2, <2>2, <2>4, <2>7 DEF Sealing, Drain, Active
    <2>9. Placed'
      BY SMT, <1>1, <1>2, <2>2, <2>3, <2>4, <2>6 DEF Placed, Drain, WorkerHas, CloserHas
    <2>10. \A k : Held(k)' = Held(k)
      BY <1>2, <2>2, <2>4 DEF Held, Drain, WorkerHas, CloserHas
    <2>11. CountsExact' /\ RoomExact'
      BY <1>1, <1>2, <2>10 DEF CountsExact, RoomExact, Drain
    <2>12. OpenReached'
      BY SMT, <1>1, <1>2, <2>2, <2>4 DEF OpenReached, Drain, WorkerHas, CloserHas
    <2> QED
      BY <2>5, <2>8, <2>9, <2>11, <2>12 DEF Inv
  <1> QED
    BY <1>3, <1>4

\* The closing thread gets _state_lock and uncounts what it has drained.
LEMMA DrainUncountInv ==
    ASSUME Inv, NEW c \in Closer, DrainUncount(c)
    PROVE  Inv'
  <1>1. TypeOK /\ Sealing /\ Placed /\ CountsExact /\ RoomExact /\ OpenReached
    BY DEF Inv
  <1>item. PICK i \in Item : i = closer[c].item
    BY <1>1 DEF DrainUncount, Placed
  <1>2. /\ closer[c].pc = "drained" /\ Active(c) /\ admission.stopping
        /\ \A d \in Closer \ {c} : ~Active(d)
        /\ ~InQueue(i)
    BY <1>item, <1>1 DEF DrainUncount, Sealing, Placed, Active
  <1>3. /\ closer' \in [Closer -> Thread({"out", "drain", "drained", "cancel", "stop", "join",
                                           "full", "late", "closed"})]
        /\ closer'[c].pc = "cancel" /\ closer'[c].item = i
        /\ \A d \in Closer \ {c} : closer'[d] = closer[d]
    BY <1>item, <1>1, <1>2, MoveEffect DEF DrainUncount
  <1>4. \A x : InQueue(x)' = InQueue(x)
    BY DEF InQueue, DrainUncount
  <1>5. /\ i \in Held(Counter(i))
        /\ Held(Counter(i))' = Held(Counter(i)) \ {i}
        /\ \A k \in {"ordinary", "cleanup"} \ {Counter(i)} : Held(k)' = Held(k)
    BY SMT, <1>item, <1>1, <1>2, <1>3, <1>4
    DEF Held, DrainUncount, WorkerHas, CloserHas, Placed, Active
  <1>6. /\ CountsExact'
        /\ admission' \in [ordinary : 0 .. Capacity, cleanup : 0 .. CleanupReserve, stopping : BOOLEAN]
        /\ admission'.stopping = admission.stopping
    BY <1>item, <1>1, <1>2, <1>5, CountRemoved DEF DrainUncount
  <1>7. TypeOK'
    BY <1>1, <1>3, <1>6 DEF TypeOK, DrainUncount
  <1>8. Sealing' /\ RoomExact'
    BY <1>1, <1>2, <1>3, <1>4, <1>6 DEF Sealing, RoomExact, DrainUncount, Active
  <1>9. Placed' /\ OpenReached'
    BY SMT, <1>item, <1>1, <1>2, <1>3, <1>4
    DEF Placed, OpenReached, DrainUncount, WorkerHas, CloserHas
  <1> QED
    BY <1>6, <1>7, <1>8, <1>9 DEF Inv

\* The closing thread cancels the future of the item it holds.
LEMMA DrainCancelInv ==
    ASSUME Inv, NEW c \in Closer, DrainCancel(c)
    PROVE  Inv'
  <1> USE ItemAssumption
  <1>1. TypeOK /\ Sealing /\ Placed /\ CountsExact /\ RoomExact /\ OpenReached
    BY DEF Inv
  <1>2. PICK i \in Item : i = closer[c].item
    BY <1>1 DEF DrainCancel, Placed
  <1>3. /\ closer[c].pc = "cancel" /\ Active(c) /\ admission.stopping
        /\ \A d \in Closer \ {c} : ~Active(d)
    BY <1>1 DEF DrainCancel, Sealing, Active
  <1>4. /\ closer' \in [Closer -> Thread({"out", "drain", "drained", "cancel", "stop", "join",
                                           "full", "late", "closed"})]
        /\ closer'[c].pc = "drain"
        /\ \A d \in Closer \ {c} : closer'[d] = closer[d]
    BY <1>1, MoveEffect DEF DrainCancel
  <1>5. /\ future' \in [Item -> {"none", "pending", "running", "done", "cancelled"}]
        /\ future'[i] = IF future[i] = "pending" THEN "cancelled" ELSE future[i]
        /\ \A j \in Item \ {i} : future'[j] = future[j]
    BY <1>1, <1>2 DEF DrainCancel, AfterCancel, TypeOK
  <1>6. \A x : InQueue(x)' = InQueue(x)
    BY DEF InQueue, DrainCancel
  <1>7. TypeOK'
    BY <1>1, <1>4, <1>5 DEF TypeOK, DrainCancel
  <1>8. \A k : Held(k)' = Held(k)
    BY <1>3, <1>4, <1>6 DEF Held, DrainCancel, WorkerHas, CloserHas
  <1>9. CountsExact' /\ RoomExact'
    BY <1>1, <1>3, <1>8 DEF CountsExact, RoomExact, DrainCancel
  <1>10. Sealing'
    BY <1>1, <1>3, <1>4, <1>6 DEF Sealing, DrainCancel, Active
  <1>11. Placed' /\ OpenReached'
    BY SMT, <1>1, <1>2, <1>3, <1>4, <1>5, <1>6
    DEF Placed, OpenReached, DrainCancel, WorkerHas, CloserHas
  <1> QED
    BY <1>7, <1>9, <1>10, <1>11 DEF Inv

\* The active call of close sends _STOP and is no longer active.
LEMMA PutStopInv ==
    ASSUME Inv, NEW c \in Closer, PutStop(c)
    PROVE  Inv'
  <1> USE ItemAssumption
  <1>1. TypeOK /\ Sealing /\ Placed /\ CountsExact /\ RoomExact /\ OpenReached
    BY DEF Inv
  <1>2. /\ Len(queue) \in Nat
        /\ queue' \in Seq(Item \cup {Stop})
        /\ Len(queue') = Len(queue) + 1
        /\ \A n \in 1 .. Len(queue) : queue'[n] = queue[n]
        /\ queue'[Len(queue) + 1] = Stop
    BY SMT, <1>1, AppendElements DEF PutStop, TypeOK
  <1>3. \A x : InQueue(x)' <=> InQueue(x) \/ x = Stop
    BY <1>1, QueuedAfterPut DEF PutStop
  <1>4. /\ closer[c].pc = "stop" /\ Active(c) /\ admission.stopping
        /\ \A d \in Closer \ {c} : ~Active(d)
        /\ ~InQueue(Stop) /\ worker.pc # "exited"
    BY <1>1 DEF PutStop, Sealing, Active
  <1>5. /\ closer' \in [Closer -> Thread({"out", "drain", "drained", "cancel", "stop", "join",
                                           "full", "late", "closed"})]
        /\ closer'[c].pc = "join"
        /\ \A d \in Closer \ {c} : closer'[d] = closer[d]
    BY <1>1, MoveEffect DEF PutStop
  <1>6. TypeOK'
    <2>1. Len(queue') <= MaxSize
      BY SMT, <1>2, CapacityAssumption DEF PutStop, MaxSize
    <2> QED
      BY <1>1, <1>2, <1>5, <2>1 DEF TypeOK, PutStop
  <1>7. \A n \in 1 .. Len(queue) : queue[n] # Stop
    BY <1>4 DEF InQueue
  <1>8. /\ \A m, n \in 1 .. Len(queue') : queue'[m] = queue'[n] => m = n
        /\ \A n \in 1 .. Len(queue') : queue'[n] = Stop => n = Len(queue')
    BY SMT, <1>1, <1>2, <1>7 DEF Placed
  <1>9. \A k : Held(k)' = Held(k)
    BY <1>3, <1>4, <1>5 DEF Held, PutStop, WorkerHas, CloserHas
  <1>10. CountsExact' /\ RoomExact'
    BY <1>1, <1>4, <1>9 DEF CountsExact, RoomExact, PutStop
  <1>11. Sealing'
    BY <1>1, <1>3, <1>4, <1>5, <1>8 DEF Sealing, PutStop, Active
  <1>12. Placed' /\ OpenReached'
    BY SMT, <1>1, <1>3, <1>4, <1>5, <1>8 DEF Placed, OpenReached, PutStop, WorkerHas, CloserHas
  <1> QED
    BY <1>6, <1>10, <1>11, <1>12 DEF Inv

\* The other steps of close only move their thread, out of "stop" or "join".
LEMMA LeaveInv ==
    ASSUME Inv, NEW c \in Closer, PutTimesOut(c) \/ Join(c) \/ JoinTimesOut(c)
    PROVE  Inv'
  <1> USE ItemAssumption
  <1>1. TypeOK /\ Sealing /\ Placed /\ CountsExact /\ RoomExact /\ OpenReached
    BY DEF Inv
  <1>2. /\ UNCHANGED <<queue, future, admission, worker>>
        /\ closer[c].pc \in {"stop", "join"}
    BY DEF PutTimesOut, Join, JoinTimesOut
  <1>3. /\ closer' \in [Closer -> Thread({"out", "drain", "drained", "cancel", "stop", "join",
                                           "full", "late", "closed"})]
        /\ closer'[c].pc \in {"full", "late", "closed"}
        /\ \A d \in Closer \ {c} : closer'[d] = closer[d]
    BY <1>1, MoveEffect DEF PutTimesOut, Join, JoinTimesOut
  <1>4. \A x : InQueue(x)' = InQueue(x)
    BY <1>2 DEF InQueue
  <1>5. TypeOK'
    BY <1>1, <1>2, <1>3 DEF TypeOK
  <1>6. \A k : Held(k)' = Held(k)
    BY <1>2, <1>3, <1>4 DEF Held, WorkerHas, CloserHas
  <1>7. CountsExact' /\ RoomExact'
    BY <1>1, <1>2, <1>6 DEF CountsExact, RoomExact
  <1>8. Sealing'
    BY <1>1, <1>2, <1>3, <1>4 DEF Sealing, Active
  <1>9. Placed' /\ OpenReached'
    BY SMT, <1>1, <1>2, <1>3, <1>4 DEF Placed, OpenReached, WorkerHas, CloserHas
  <1> QED
    BY <1>5, <1>7, <1>8, <1>9 DEF Inv

\* The invariant is inductive.
LEMMA NextInv == Inv /\ [Next]_vars => Inv'
  <1> SUFFICES ASSUME Inv, [Next]_vars PROVE Inv'
    OBVIOUS
  <1>1. CASE CallerStep
    BY <1>1, SubmitInv, CancelInv DEF CallerStep
  <1>2. CASE WorkerStep
    BY <1>2, TakeInv, UncountInv, StartInv, FinishInv DEF WorkerStep
  <1>3. ASSUME NEW c \in Closer, NEW b \in CancelQueued, Close(c, b) PROVE Inv'
    BY <1>3, CloseInv
  <1>4. ASSUME NEW c \in Closer, CloserStep(c) \/ CloserTimeout(c) PROVE Inv'
    BY <1>4, DrainInv, DrainUncountInv, DrainCancelInv, PutStopInv, LeaveInv
    DEF CloserStep, CloserTimeout
  <1>5. CASE UNCHANGED vars
    <2>1. /\ \A x : InQueue(x)' = InQueue(x)
          /\ \A c : Active(c)' = Active(c)
          /\ \A k : Held(k)' = Held(k)
      BY <1>5 DEF vars, InQueue, Active, Held, WorkerHas, CloserHas
    <2> QED
      BY SMT, <1>5, <2>1
      DEF vars, Inv, TypeOK, Sealing, Placed, CountsExact, RoomExact, OpenReached, WorkerHas,
          CloserHas
  <1> QED
    BY <1>1, <1>2, <1>3, <1>4, <1>5 DEF Next

\* The executor always satisfies the invariant.
LEMMA Invariance == Spec => []Inv
  BY InitInv, NextInv, PTL DEF Spec

-------------------------------------------------------------------------------
(* What the executor guarantees *)

\* The queue and the counters stay within their bounds, for every capacity,
\* every load and every interleaving of callers, worker and closing threads.
THEOREM TypeCorrect == Spec => []TypeOK
  BY Invariance, PTL DEF Inv

\* put_nowait never raises Full for an item that passed the admission checks.
THEOREM AdmittedFindsRoomAlways == Spec => []AdmittedFindsRoom
  <1>1. Inv => AdmittedFindsRoom
    <2> SUFFICES ASSUME Inv, NEW i \in Item, Admissible(i)
                 PROVE  Len(queue) < MaxSize
      BY DEF AdmittedFindsRoom
    <2>1. /\ ~admission.stopping
          /\ admission.ordinary \in 0 .. Capacity /\ admission.cleanup \in 0 .. CleanupReserve
          /\ admission.ordinary < Capacity \/ admission.cleanup < CleanupReserve
          /\ Len(queue) \in Nat
      BY SMT DEF Admissible, Counter, Limit, Inv, TypeOK
    <2>2. Len(queue) <= admission.ordinary + admission.cleanup
      BY SMT, <2>1 DEF Inv, RoomExact
    <2> QED
      BY SMT, <2>1, <2>2, CapacityAssumption DEF MaxSize
  <1> QED
    BY <1>1, Invariance, PTL

\* Once the worker thread has ended, no future it was given is still open.
THEOREM SettledAtExitAlways == Spec => []SettledAtExit
  <1>1. Inv => SettledAtExit
    <2> SUFFICES ASSUME Inv, worker.pc = "exited", NEW i \in Item
                 PROVE  future[i] \notin {"pending", "running"}
      BY DEF SettledAtExit
    <2>1. queue = <<>> /\ \A c \in Closer : ~Active(c)
      BY DEF Inv, Sealing
    <2>2. ~InQueue(i)
      BY SMT, <2>1 DEF InQueue
    <2> QED
      BY <2>1, <2>2 DEF Inv, OpenReached, WorkerHas, CloserHas, Active
  <1> QED
    BY <1>1, Invariance, PTL

-------------------------------------------------------------------------------
(* The executor implements the serial promise *)

\* What the promise shows of an item's future.
Shown(i) == IF future[i] = "pending" /\ Doomed(i) THEN "cancelled" ELSE future[i]

\* A step that changes nothing the promise shows is a stuttering step of it.
LEMMA Stutters ==
    ASSUME \A i \in Item : Shown(i)' = Shown(i) /\ Ahead(i)' = Ahead(i),
           admission'.stopping = admission.stopping
    PROVE  UNCHANGED Serial!vars
  BY DEF Serial!vars, Shown

\* An item that waits is with the worker or in the queue.
LEMMA WaitingPlace ==
    ASSUME Inv, NEW i \in Item, Waits(i)
    PROVE  InQueue(i) \/ WorkerHas(i, {"taken", "counted"})
  BY DEF Inv, OpenReached, Waits, Doomed, CloserHas

\* An item in the queue or with the worker is not doomed.
LEMMA HeldNotDoomed ==
    ASSUME Inv, NEW i \in Item, InQueue(i) \/ WorkerHas(i, {"taken", "counted", "running"})
    PROVE  ~Doomed(i)
  BY DEF Inv, Placed, Doomed, WorkerHas

\* Submit is Admit: everything that waits is ahead of the new item.
LEMMA SubmitAdmits ==
    ASSUME Inv, Inv', NEW i \in Item, Submit(i)
    PROVE  Serial!Admit(i)
  <1>1. /\ Len(queue) \in Nat
        /\ Len(queue') = Len(queue) + 1
        /\ \A n \in 1 .. Len(queue) : queue'[n] = queue[n]
        /\ queue'[Len(queue) + 1] = i
    BY SMT, AppendElements DEF Submit, Inv, TypeOK
  <1>2. /\ ~InQueue(i) /\ ~Doomed(i) /\ ~Waits(i) /\ ~WorkerHas(i, {"taken", "counted"})
        /\ \A j \in Item : Doomed(j)' = Doomed(j)
    BY DEF Inv, Placed, Doomed, Waits, CloserHas, WorkerHas, Submit
  <1>3. /\ Waits(i)'
        /\ \A j \in Item \ {i} : Waits(j)' = Waits(j) /\ Shown(j)' = Shown(j)
        /\ Shown(i) = "none" /\ Shown(i)' = "pending"
        /\ \A j \in Item : Shown(j) = "pending" <=> Waits(j)
    BY <1>2 DEF Inv, TypeOK, Waits, Shown, Submit
  <1>4. \A j, k \in Item \ {i} : Precedes(j, k)' = Precedes(j, k)
    BY SMT, <1>1 DEF Precedes, Submit
  <1>5. \A j \in Item : ~Precedes(i, j)'
    BY SMT, <1>1, <1>2 DEF Precedes, Submit, InQueue, WorkerHas
  <1>6. \A j \in Item \ {i} : Waits(j) => Precedes(j, i)'
    <2> SUFFICES ASSUME NEW j \in Item \ {i}, Waits(j) PROVE Precedes(j, i)'
      OBVIOUS
    <2>1. CASE InQueue(j)
      <3>1. PICK n \in 1 .. Len(queue) : queue[n] = j
        BY <2>1 DEF InQueue
      <3>2. /\ n \in 1 .. Len(queue') /\ Len(queue) + 1 \in 1 .. Len(queue') /\ n < Len(queue) + 1
            /\ queue'[n] = j /\ queue'[Len(queue) + 1] = i
        BY SMT, <1>1, <3>1
      <3> QED
        BY <3>2 DEF Precedes
    <2>2. CASE WorkerHas(j, {"taken", "counted"})
      BY <2>2 DEF Precedes, WorkerHas, Submit
    <2> QED
      BY <2>1, <2>2, WaitingPlace
  <1>7. Ahead(i)' = {j \in Item : Shown(j) = "pending"}
    BY <1>2, <1>3, <1>5, <1>6 DEF Ahead
  <1>8. \A j \in Item \ {i} : Ahead(j)' = Ahead(j)
    BY <1>2, <1>3, <1>4, <1>5 DEF Ahead
  <1>9. ~admission.stopping /\ ~admission'.stopping
    BY CountKeepsSeal DEF Submit, Admissible, Inv
  <1> QED
    BY <1>3, <1>7, <1>8, <1>9 DEF Serial!Admit, Shown

\* Cancel is Drop, or nothing when the item was already drained.
LEMMA CancelDrops ==
    ASSUME Inv, NEW i \in Item, Cancel(i)
    PROVE  Serial!Drop(i) \/ UNCHANGED Serial!vars
  <1>1. /\ \A j \in Item : Doomed(j)' = Doomed(j)
        /\ \A j, k \in Item : Precedes(j, k)' = Precedes(j, k)
        /\ future'[i] = "cancelled"
        /\ \A j \in Item \ {i} : future'[j] = future[j]
    BY DEF Doomed, Precedes, Cancel, AfterCancel, Inv, TypeOK
  <1>2. /\ ~Waits(i)'
        /\ \A j \in Item \ {i} : Waits(j)' = Waits(j) /\ Shown(j)' = Shown(j)
        /\ Shown(i)' = "cancelled"
    BY <1>1 DEF Waits, Shown
  <1>3. \A j \in Item : Ahead(j)' = IF j = i THEN {} ELSE Ahead(j) \ {i}
    BY <1>1, <1>2 DEF Ahead
  <1>4. CASE Doomed(i)
    <2>1. Shown(i) = "cancelled" /\ ~Waits(i)
      BY <1>4 DEF Shown, Waits, Cancel
    <2>2. \A j \in Item : Ahead(j)' = Ahead(j)
      BY <1>3, <2>1 DEF Ahead
    <2> QED
      BY <1>2, <2>1, <2>2, Stutters DEF Cancel
  <1>5. CASE ~Doomed(i)
    <2>1. Shown(i) = "pending"
      BY <1>5 DEF Shown, Cancel
    <2> QED
      BY <1>2, <1>3, <2>1 DEF Serial!Drop, Serial!Leave, Shown, Cancel
  <1> QED
    BY <1>4, <1>5

\* Take is invisible: what was at the head of the queue is now with the worker.
LEMMA TakeStutters ==
    ASSUME Inv, Inv', Take
    PROVE  UNCHANGED Serial!vars
  <1>1. /\ Len(queue) \in Nat \ {0}
        /\ Len(queue') = Len(queue) - 1
        /\ \A n \in 1 .. Len(queue) - 1 : queue'[n] = queue[n + 1]
        /\ Head(queue) = queue[1]
    BY TailElements DEF Take, Inv, TypeOK
  <1>2. /\ \A j \in Item : Doomed(j)' = Doomed(j) /\ Waits(j)' = Waits(j) /\ Shown(j)' = Shown(j)
        /\ worker.pc = "idle"
        /\ admission'.stopping = admission.stopping
    BY DEF Doomed, Waits, Shown, Take
  <1>3. ASSUME NEW j \in Item, NEW k \in Item, Waits(j), Waits(k)
        PROVE  Precedes(j, k)' <=> Precedes(j, k)
    <2>1. InQueue(j) /\ InQueue(k)
      BY <1>2, <1>3, WaitingPlace DEF WorkerHas
    <2>2. PICK a, b \in 1 .. Len(queue) : queue[a] = j /\ queue[b] = k
      BY <2>1 DEF InQueue
    <2>3. Precedes(j, k) <=> a < b
      <3>1. \A m \in 1 .. Len(queue) : (queue[m] = j => m = a) /\ (queue[m] = k => m = b)
        BY <2>2 DEF Inv, Placed
      <3> QED
        BY <1>2, <2>2, <3>1 DEF Precedes
    <2>4. CASE a = 1
      <3>1. /\ worker'.pc = "taken" /\ worker'.item = j
        BY <1>1, <2>2, <2>4, ItemAssumption DEF Take, At
      <3>2. /\ ~InQueue(j)'
        BY <3>1 DEF Inv, Placed
      <3>3. Precedes(j, k)' <=> j # k
        BY <3>1, <3>2 DEF Precedes, InQueue
      <3>4. a < b <=> j # k
        BY SMT, <1>1, <2>2, <2>4 DEF Inv, Placed
      <3> QED
        BY <2>3, <3>3, <3>4
    <2>5. CASE a # 1
      <3>1. worker'.pc \in {"taken", "counted"} => worker'.item # j
        BY SMT, <1>1, <2>2, <2>5 DEF Take, At, Inv, Placed
      <3>2. a - 1 \in 1 .. Len(queue') /\ queue'[a - 1] = j
        BY SMT, <1>1, <2>2, <2>5
      <3>3. CASE b = 1
        <4>1. worker'.pc = "taken" /\ worker'.item = k
          BY <1>1, <2>2, <3>3, ItemAssumption DEF Take, At
        <4>2. ~InQueue(k)'
          BY <4>1 DEF Inv, Placed
        <4>3. ~Precedes(j, k)'
          BY <3>1, <4>2 DEF Precedes, InQueue
        <4> QED
          BY SMT, <1>1, <2>2, <2>3, <2>5, <3>3, <4>3
      <3>4. CASE b # 1
        <4>1. b - 1 \in 1 .. Len(queue') /\ queue'[b - 1] = k
          BY SMT, <1>1, <2>2, <3>4
        <4>2. \A m \in 1 .. Len(queue') : (queue'[m] = j => m = a - 1) /\ (queue'[m] = k => m = b - 1)
          BY <3>2, <4>1 DEF Inv, Placed
        <4>3. Precedes(j, k)' <=> a - 1 < b - 1
          BY <3>1, <3>2, <4>1, <4>2 DEF Precedes
        <4> QED
          BY SMT, <1>1, <2>3, <4>3
      <3> QED
        BY <3>3, <3>4
    <2> QED
      BY <2>4, <2>5
  <1>4. \A j \in Item : Ahead(j)' = Ahead(j)
    BY <1>2, <1>3 DEF Ahead
  <1> QED
    BY <1>2, <1>4, Stutters

\* Start is Start, or nothing when the item was cancelled meanwhile.
LEMMA StartStarts ==
    ASSUME Inv, Start
    PROVE  (\E i \in Item : Serial!Start(i)) \/ UNCHANGED Serial!vars
  <1>1. PICK i \in Item : i = worker.item
    BY DEF Inv, Placed, Start
  <1>2. /\ worker.pc = "counted" /\ ~InQueue(i) /\ ~Doomed(i)
        /\ \A j \in Item : Doomed(j)' = Doomed(j)
        /\ \A j \in Item : future[j] # "running"
        /\ admission'.stopping = admission.stopping
    BY <1>1, HeldNotDoomed DEF Inv, Placed, OpenReached, WorkerHas, Start, Doomed
  <1>3. /\ \A j \in Item : ~Precedes(j, i)
        /\ \A j, k \in Item : j # i => Precedes(j, k)' = Precedes(j, k)
    <2>1. worker'.pc \notin {"taken", "counted"} /\ queue' = queue
      BY SMT DEF Start, At, Inv, TypeOK, Thread
    <2> QED
      BY <1>1, <1>2, <2>1 DEF Precedes, InQueue
  <1>4. CASE future[i] = "pending"
    <2>1. /\ future'[i] = "running"
          /\ \A j \in Item \ {i} : future'[j] = future[j]
      BY <1>1, <1>4 DEF Start, Inv, TypeOK
    <2>2. /\ Shown(i) = "pending" /\ Shown(i)' = "running" /\ ~Waits(i)'
          /\ \A j \in Item : Shown(j) # "running"
          /\ \A j \in Item \ {i} : Shown(j)' = Shown(j) /\ Waits(j)' = Waits(j)
      BY <1>2, <1>4, <2>1 DEF Shown, Waits
    <2>3. Ahead(i) = {} /\ \A j \in Item : Ahead(j)' = IF j = i THEN {} ELSE Ahead(j) \ {i}
      BY <1>3, <2>2 DEF Ahead
    <2>4. Serial!Start(i)
      BY <1>2, <2>2, <2>3 DEF Serial!Start, Serial!Leave, Shown
    <2> QED
      BY <2>4
  <1>5. CASE future[i] # "pending"
    <2>1. future' = future /\ ~Waits(i)
      BY <1>1, <1>5 DEF Start, Waits
    <2>2. \A j \in Item : Shown(j)' = Shown(j) /\ Waits(j)' = Waits(j)
      BY <1>2, <2>1 DEF Shown, Waits
    <2>3. \A j \in Item : Ahead(j)' = Ahead(j)
      BY <1>3, <2>1, <2>2 DEF Ahead
    <2> QED
      BY <1>2, <2>2, <2>3, Stutters
  <1> QED
    BY <1>4, <1>5

\* Finish is End.
LEMMA FinishEnds ==
    ASSUME Inv, Finish
    PROVE  \E i \in Item : Serial!End(i)
  <1>1. PICK i \in Item : i = worker.item
    BY DEF Inv, Placed, Finish
  <1>2. /\ future[i] = "running" /\ future'[i] = "done"
        /\ \A j \in Item \ {i} : future'[j] = future[j]
        /\ \A j \in Item : Doomed(j)' = Doomed(j)
    BY <1>1 DEF Inv, TypeOK, OpenReached, WorkerHas, Finish, Doomed
  <1>3. /\ Shown(i) = "running" /\ Shown(i)' = "done"
        /\ \A j \in Item \ {i} : Shown(j)' = Shown(j)
        /\ \A j \in Item : Waits(j)' = Waits(j)
    BY <1>2 DEF Shown, Waits
  <1>4. \A j, k \in Item : Precedes(j, k)' = Precedes(j, k)
    BY DEF Precedes, Finish, At
  <1>5. \A j \in Item : Ahead(j)' = Ahead(j)
    BY <1>3, <1>4 DEF Ahead
  <1>6. Serial!End(i)
    BY <1>3, <1>5 DEF Serial!End, Shown, Finish
  <1> QED
    BY <1>6

\* Draining an item is Drop, unless it was cancelled already.
LEMMA DrainDrops ==
    ASSUME Inv, Inv', NEW c \in Closer, Drain(c)
    PROVE  (\E i \in Item : Serial!Drop(i)) \/ UNCHANGED Serial!vars
  <1>1. /\ closer[c].pc = "drain" /\ ~InQueue(Stop) /\ UNCHANGED <<future, admission, worker>>
    BY DEF Inv, Sealing, Active, Drain
  <1>2. CASE queue = <<>>
    <2>1. /\ closer'[c].pc = "stop" /\ queue' = queue
          /\ \A d \in Closer \ {c} : closer'[d] = closer[d]
      BY <1>2, MoveEffect DEF Drain, Inv
    <2>2. \A j \in Item : Doomed(j)' = Doomed(j) /\ Waits(j)' = Waits(j) /\ Shown(j)' = Shown(j)
      BY <1>1, <2>1 DEF Doomed, Waits, Shown
    <2>3. \A j, k \in Item : Precedes(j, k)' = Precedes(j, k)
      BY <1>1, <2>1 DEF Precedes
    <2> QED
      BY <1>1, <2>2, <2>3, Stutters DEF Ahead
  <1>3. CASE queue # <<>>
    <2>1. queue' = Tail(queue)
      BY <1>3 DEF Drain
    <2>2. /\ Len(queue) \in Nat \ {0}
          /\ Len(queue') = Len(queue) - 1
          /\ \A n \in 1 .. Len(queue) - 1 : queue'[n] = queue[n + 1]
          /\ Head(queue) = queue[1] /\ Head(queue) \in Item \cup {Stop}
      BY SMT, <1>3, <2>1, TailElements DEF Inv, TypeOK
    <2>3. PICK i \in Item : i = Head(queue)
      BY SMT, <1>1, <2>2 DEF InQueue
    <2>4. /\ InQueue(i)
          /\ ~InQueue(i)'
      BY <1>3, <2>1, <2>3, QueuedAfterGet DEF Inv
    <2>5. Move(c, "drained", i)
      BY <1>3, <2>3, ItemAssumption DEF Drain
    <2>6. /\ closer'[c].pc = "drained" /\ closer'[c].item = i
          /\ \A d \in Closer \ {c} : closer'[d] = closer[d]
      BY <2>5, MoveEffect DEF Inv
    <2>7. /\ Doomed(i)' /\ ~Doomed(i)
          /\ \A j \in Item \ {i} : Doomed(j)' = Doomed(j)
      BY <1>1, <2>4, <2>6, HeldNotDoomed DEF Doomed
    <2>8. /\ ~Waits(i)'
          /\ Shown(i)' = IF future[i] = "pending" THEN "cancelled" ELSE Shown(i)
          /\ Shown(i) = future[i]
          /\ \A j \in Item \ {i} : Waits(j)' = Waits(j) /\ Shown(j)' = Shown(j)
      BY <1>1, <2>7 DEF Waits, Shown
    <2>9. \A j, k \in Item \ {i} : Precedes(j, k)' = Precedes(j, k)
      <3> SUFFICES ASSUME NEW j \in Item \ {i}, NEW k \in Item \ {i}
                   PROVE  (\E m, n \in 1 .. Len(queue') : m < n /\ queue'[m] = j /\ queue'[n] = k)
                          <=> (\E m, n \in 1 .. Len(queue) : m < n /\ queue[m] = j /\ queue[n] = k)
        BY <1>1 DEF Precedes
      <3>1. ASSUME NEW m \in 1 .. Len(queue'), NEW n \in 1 .. Len(queue'),
                   m < n, queue'[m] = j, queue'[n] = k
            PROVE  \E mm, nn \in 1 .. Len(queue) : mm < nn /\ queue[mm] = j /\ queue[nn] = k
        <4>1. /\ m + 1 \in 1 .. Len(queue) /\ n + 1 \in 1 .. Len(queue) /\ m + 1 < n + 1
              /\ queue[m + 1] = j /\ queue[n + 1] = k
          BY SMT, <2>2, <3>1
        <4> QED
          BY <4>1
      <3>2. ASSUME NEW m \in 1 .. Len(queue), NEW n \in 1 .. Len(queue),
                   m < n, queue[m] = j, queue[n] = k
            PROVE  \E mm, nn \in 1 .. Len(queue') : mm < nn /\ queue'[mm] = j /\ queue'[nn] = k
        <4>1. m # 1
          BY <2>2, <2>3, <3>2
        <4>2. /\ m - 1 \in 1 .. Len(queue') /\ n - 1 \in 1 .. Len(queue') /\ m - 1 < n - 1
              /\ queue'[m - 1] = j /\ queue'[n - 1] = k
          BY SMT, <2>2, <3>2, <4>1
        <4> QED
          BY <4>2
      <3> QED
        BY <3>1, <3>2
    <2>10. \A j \in Item : Ahead(j)' = IF j = i THEN {} ELSE Ahead(j) \ {i}
      BY <2>8, <2>9 DEF Ahead
    <2>11. CASE future[i] = "pending"
      BY <1>1, <2>8, <2>10, <2>11 DEF Serial!Drop, Serial!Leave, Shown
    <2>12. CASE future[i] # "pending"
      <3>1. ~Waits(i) /\ Shown(i)' = Shown(i)
        BY <2>8, <2>12 DEF Waits
      <3>2. \A j \in Item : Ahead(j)' = Ahead(j)
        BY <2>10, <3>1 DEF Ahead
      <3> QED
        BY <1>1, <2>8, <3>1, <3>2, Stutters
    <2> QED
      BY <2>11, <2>12
  <1> QED
    BY <1>2, <1>3

\* Every step of the executor is a step of the promise or a stuttering step.
LEMMA StepImplements ==
    ASSUME Inv, Inv', [Next]_vars
    PROVE  [Serial!Next]_Serial!vars
  <1>1. CASE CallerStep
    BY <1>1, SubmitAdmits, CancelDrops DEF CallerStep, Serial!Next
  <1>2. CASE Take
    BY <1>2, TakeStutters
  <1>3. CASE Uncount
    <2>1. /\ worker'.pc = "counted" /\ worker'.item = worker.item /\ worker.pc = "taken"
          /\ UNCHANGED <<queue, future, closer>>
          /\ admission'.stopping = admission.stopping
      BY <1>3, CountKeepsSeal DEF Uncount, Inv, TypeOK, Thread
    <2>2. \A j, k \in Item : Precedes(j, k)' = Precedes(j, k)
      BY <2>1 DEF Precedes
    <2>3. \A j \in Item : Waits(j)' = Waits(j) /\ Shown(j)' = Shown(j)
      BY <2>1 DEF Waits, Shown, Doomed
    <2> QED
      BY <2>1, <2>2, <2>3, Stutters DEF Ahead
  <1>4. CASE Start
    BY <1>4, StartStarts DEF Serial!Next
  <1>5. CASE Finish
    BY <1>5, FinishEnds DEF Serial!Next
  <1>6. ASSUME NEW c \in Closer, NEW b \in CancelQueued, Close(c, b)
        PROVE  [Serial!Next]_Serial!vars
    <2> DEFINE to == IF admission.stopping THEN "join" ELSE IF b THEN "drain" ELSE "stop"
    <2>1. UNCHANGED <<queue, future, worker>> /\ admission'.stopping = TRUE /\ admission.stopping \in BOOLEAN
      BY <1>6 DEF Close, Inv, TypeOK
    <2>2. /\ closer[c].pc \notin {"drained", "cancel"} /\ closer'[c].pc \notin {"drained", "cancel"}
          /\ \A d \in Closer \ {c} : closer'[d] = closer[d]
      <3>1. Move(c, to, Stop) /\ to \in {"join", "drain", "stop"}
        BY <1>6 DEF Close
      <3> HIDE DEF to
      <3> QED
        BY <1>6, <3>1, MoveEffect DEF Inv, Close, Outside
    <2>3. \A j \in Item : Doomed(j)' = Doomed(j)
      BY <2>2 DEF Doomed
    <2>4. \A j \in Item : Waits(j)' = Waits(j) /\ Shown(j)' = Shown(j)
      BY <2>1, <2>3 DEF Waits, Shown
    <2>5. \A j \in Item : Ahead(j)' = Ahead(j)
      BY <2>1, <2>4 DEF Ahead, Precedes
    <2>6. CASE admission.stopping
      BY <2>1, <2>4, <2>5, <2>6, Stutters
    <2>7. CASE ~admission.stopping
      BY <2>1, <2>4, <2>5, <2>7 DEF Serial!Next, Serial!Shut, Shown
    <2> QED
      BY <2>1, <2>6, <2>7
  <1>7. ASSUME NEW c \in Closer, Drain(c)
        PROVE  [Serial!Next]_Serial!vars
    BY <1>7, DrainDrops DEF Serial!Next
  <1>8. ASSUME NEW c \in Closer, DrainUncount(c)
        PROVE  UNCHANGED Serial!vars
    <2>1. UNCHANGED <<queue, future, worker>> /\ admission'.stopping = admission.stopping
      BY <1>8, CountKeepsSeal DEF DrainUncount, Inv
    <2>2. /\ closer[c].pc = "drained" /\ closer'[c].pc = "cancel" /\ closer'[c].item = closer[c].item
          /\ \A d \in Closer \ {c} : closer'[d] = closer[d]
      BY <1>8 DEF DrainUncount, Move, At, Inv, TypeOK
    <2>3. \A j \in Item : Doomed(j)' = Doomed(j)
      BY <2>2 DEF Doomed
    <2>4. \A j \in Item : Waits(j)' = Waits(j) /\ Shown(j)' = Shown(j)
      BY <2>1, <2>3 DEF Waits, Shown
    <2> QED
      BY <2>1, <2>4, Stutters DEF Ahead, Precedes
  <1>9. ASSUME NEW c \in Closer, DrainCancel(c)
        PROVE  UNCHANGED Serial!vars
    <2>1. PICK i \in Item : i = closer[c].item
      BY <1>9 DEF DrainCancel, Inv, Placed
    <2>2. /\ UNCHANGED <<queue, admission, worker>> /\ closer[c].pc = "cancel"
          /\ future'[i] = IF future[i] = "pending" THEN "cancelled" ELSE future[i]
          /\ \A j \in Item \ {i} : future'[j] = future[j]
          /\ closer'[c].pc = "drain"
          /\ \A d \in Closer \ {c} : closer'[d] = closer[d]
      BY <1>9, <2>1 DEF DrainCancel, AfterCancel, Move, At, Inv, TypeOK
    <2>3. Doomed(i) /\ \A j \in Item \ {i} : Doomed(j)' = Doomed(j)
      BY SMT, <2>1, <2>2 DEF Doomed
    <2>4. \A j \in Item : Waits(j)' = Waits(j) /\ Shown(j)' = Shown(j)
      BY <2>2, <2>3 DEF Waits, Shown
    <2> QED
      BY <2>2, <2>4, Stutters DEF Ahead, Precedes
  <1>10. ASSUME NEW c \in Closer, PutStop(c) \/ Join(c) \/ CloserTimeout(c)
         PROVE  UNCHANGED Serial!vars
    <2>1. /\ UNCHANGED <<future, admission, worker>>
          /\ queue' = queue \/ queue' = Append(queue, Stop)
          /\ closer[c].pc \notin {"drained", "cancel"} /\ closer'[c].pc \notin {"drained", "cancel"}
          /\ \A d \in Closer \ {c} : closer'[d] = closer[d]
      BY SMT, <1>10 DEF PutStop, Join, CloserTimeout, PutTimesOut, JoinTimesOut, Move, At,
                        Inv, TypeOK
    <2>2. \A j \in Item : Doomed(j)' = Doomed(j)
      BY <2>1 DEF Doomed
    <2>3. \A j \in Item : Waits(j)' = Waits(j) /\ Shown(j)' = Shown(j)
      BY <2>1, <2>2 DEF Waits, Shown
    <2>4. \A j, k \in Item : Precedes(j, k)' = Precedes(j, k)
      <3>1. CASE queue' = Append(queue, Stop)
        <4>1. /\ Len(queue) \in Nat /\ Len(queue') = Len(queue) + 1
              /\ \A n \in 1 .. Len(queue) : queue'[n] = queue[n]
              /\ queue'[Len(queue) + 1] = Stop
          BY SMT, <3>1, AppendElements DEF Inv, TypeOK
        <4> QED
          BY SMT, <2>1, <4>1, ItemAssumption DEF Precedes
      <3>2. CASE queue' = queue
        BY <2>1, <3>2 DEF Precedes
      <3> QED
        BY <2>1, <3>1, <3>2
    <2> QED
      BY <2>1, <2>3, <2>4, Stutters DEF Ahead
  <1>11. CASE UNCHANGED vars
    <2>1. \A j \in Item : Waits(j)' = Waits(j) /\ Shown(j)' = Shown(j)
      BY <1>11 DEF vars, Waits, Shown, Doomed
    <2> QED
      BY <1>11, <2>1, Stutters DEF Ahead, Precedes, vars
  <1> QED
    BY <1>1, <1>2, <1>3, <1>4, <1>5, <1>6, <1>7, <1>8, <1>9, <1>10, <1>11
    DEF Next, WorkerStep, CloserStep, CloserTimeout

\* The executor implements the serial promise: whatever its threads do, items
\* start in the order of admission, one at a time, each is run to its end or
\* cancelled before it starts, and none is admitted once close has begun.
THEOREM SerialRefinement == Spec => ImplementsSerial
  <1>1. Init => Serial!Init
    BY SMT DEF Init, At, Serial!Init, Doomed, Waits, Ahead
  <1> QED
    BY <1>1, Invariance, StepImplements, PTL DEF Spec, ImplementsSerial, Serial!Spec

-------------------------------------------------------------------------------
(* Edits: the inductive invariant *)

\* How far the guarded edit is, what it has marked and what the file may hold.
GuardedEdit(e) ==
    /\ inner[e] = "none" <=> aStatus[e] \in {"none", "pending", "cancelled"}
    /\ inner[e] \notin {"timedOut", "stopped"}
    /\ aStatus[e] = "done" => inner[e] \in Edits!Result \cup {"raised"}
    /\ inner[e] \in {"none", "mark"} => commit[e] = "queued"
    /\ inner[e] \in {"read", "resolve", "confirm", "write", "compare", "replace", "install"} =>
          commit[e] = "running"
    /\ inner[e] \in {"settle", "notify", "uncertain", "success"} => Edits!Installed(e)
    /\ Edits!Installed(e) => inner[e] \in {"settle", "notify", "uncertain", "success", "raised"}
    /\ content = e => inner[e] = "install" \/ Edits!Installed(e)
    /\ inner[e] \in {"resolve", "confirm", "write", "compare", "replace"} => seen[e] = expected[e]
    /\ inner[e] = "replace" => content \in {expected[e], Original} \cup Foreign

\* What the transaction knows of the guarded edit it waits for.
Transaction(e) ==
    /\ outer[e] = "none" <=> tStatus[e] \in {"none", "pending", "cancelled"}
    /\ tStatus[e] = "done" => outer[e] \in Edits!Result
    /\ outer[e] \in {"none", "begun", "preflight"} => aStatus[e] = "none"
    /\ aStatus[e] = "pending" => tStatus[e] = "running" /\ outer[e] = "wait"
    /\ outer[e] = "timedOut" => aStatus[e] = "cancelled"
    /\ outer[e] = "failed" => \/ aStatus[e] = "none"
                              \/ aStatus[e] = "done" /\ inner[e] \in {"failed", "raised"} /\ ~Edits!Installed(e)
    /\ outer[e] \in {"stale", "success"} => aStatus[e] = "done" /\ inner[e] = outer[e]
    /\ outer[e] # "stopped"

\* What the caller was told of its transaction.
Told(e) ==
    /\ answer[e] = "stopped" => tStatus[e] \in {"none", "cancelled"}
    /\ answer[e] = "timedOut" => tStatus[e] = "cancelled" \/ (tStatus[e] = "done" /\ outer[e] = "timedOut")
    /\ answer[e] = "failed" => tStatus[e] = "none" \/ (tStatus[e] = "done" /\ outer[e] = "failed")
    /\ answer[e] \in {"stale", "success"} => tStatus[e] = "done" /\ outer[e] = answer[e]

\* The adapter executor runs one guarded edit at a time.
OneRuns == \A e, f \in Edit : aStatus[e] = "running" /\ aStatus[f] = "running" => e = f

EditsInv ==
    /\ Edits!TypeOK
    /\ \A e \in Edit : GuardedEdit(e) /\ Transaction(e) /\ Told(e)
    /\ OneRuns
    /\ Edits!ClosedWithoutEdits

-------------------------------------------------------------------------------
(* Edits: the steps *)

\* Nothing has happened yet.
LEMMA EditsInitInv == Edits!Init => EditsInv
  <1> SUFFICES ASSUME Edits!Init PROVE EditsInv
    OBVIOUS
  <1> USE ContentAssumption DEF Edits!Init, Edits!T!Init, Edits!A!Init
  <1>1. Edits!TypeOK
    BY DEF Edits!TypeOK, Edits!Content, Edits!Status
  <1>2. \A e \in Edit : GuardedEdit(e) /\ Transaction(e) /\ Told(e)
    BY DEF GuardedEdit, Transaction, Told, Edits!Installed, Edits!Result
  <1>3. OneRuns /\ Edits!ClosedWithoutEdits
    BY DEF OneRuns, Edits!ClosedWithoutEdits
  <1> QED
    BY <1>1, <1>2, <1>3 DEF EditsInv

\* A step that leaves edit f alone, and the file if f is about to replace it.
Same(f) ==
    /\ tStatus'[f] = tStatus[f] /\ aStatus'[f] = aStatus[f]
    /\ commit'[f] = commit[f] /\ outer'[f] = outer[f] /\ inner'[f] = inner[f]
    /\ answer'[f] = answer[f] /\ expected'[f] = expected[f] /\ seen'[f] = seen[f]
    /\ \/ content' = content
       \/ content' # f /\ (inner[f] = "replace" => content' \in {Original} \cup Foreign)

OneEditInv(e) == GuardedEdit(e) /\ Transaction(e) /\ Told(e)

\* Such a step keeps what the invariant says of f.
LEMMA SameInv ==
    ASSUME NEW f \in Edit, OneEditInv(f), Same(f)
    PROVE  OneEditInv(f)'
  BY SMT DEF OneEditInv, Same, GuardedEdit, Transaction, Told, Edits!Installed

\* An edit whose transaction has not begun has changed nothing.
LEMMA NotBegun ==
    ASSUME NEW e \in Edit, OneEditInv(e), tStatus[e] \in {"none", "pending", "cancelled"}
    PROVE  outer[e] = "none" /\ aStatus[e] = "none" /\ inner[e] = "none" /\ commit[e] = "queued"
  BY DEF OneEditInv, GuardedEdit, Transaction

\* Call: the edit is admitted, or answered without ever being submitted.
LEMMA CallInv ==
    ASSUME EditsInv, NEW e \in Edit, Edits!Call(e)
    PROVE  EditsInv'
  <1>1. Edits!TypeOK'
    <2>1. UNCHANGED <<aOlder, aStatus, aOpen, started, commit, outer, inner, seen, content>>
      BY DEF Edits!Call, Edits!adVars
    <2>2. expected' \in [Edit -> Edits!Content] /\ answer' \in [Edit -> {"none"} \cup Edits!Result]
      BY DEF EditsInv, Edits!TypeOK, Edits!Call, Edits!Result
    <2>3. tOlder' \in [Edit -> SUBSET Edit] /\ tStatus' \in [Edit -> Edits!Status] /\ tOpen' \in BOOLEAN
      BY SMT DEF EditsInv, Edits!TypeOK, Edits!Call, Edits!T!Admit, Edits!txVars, Edits!Status
    <2> QED
      BY <2>1, <2>2, <2>3 DEF EditsInv, Edits!TypeOK
  <1>2. \A f \in Edit \ {e} : Same(f)
    BY DEF EditsInv, Edits!TypeOK, Edits!Call, Edits!T!Admit, Edits!txVars, Edits!adVars, Same
  <1>3. OneEditInv(e)'
    <2>1. /\ outer[e] = "none" /\ aStatus[e] = "none" /\ inner[e] = "none" /\ commit[e] = "queued"
          /\ OneEditInv(e)
      BY NotBegun DEF EditsInv, OneEditInv, Edits!Call
    <2>2. /\ UNCHANGED <<aStatus, commit, outer, inner, seen, content>>
          /\ \/ tStatus'[e] = "pending" /\ answer'[e] = "none"
             \/ tStatus'[e] = "none" /\ answer'[e] \in {"stopped", "failed"}
      BY DEF EditsInv, Edits!TypeOK, Edits!Call, Edits!T!Admit, Edits!txVars, Edits!adVars
    <2>3. GuardedEdit(e)'
      BY <2>1, <2>2 DEF OneEditInv, GuardedEdit, Edits!Installed
    <2>4. Transaction(e)'
      BY <2>1, <2>2 DEF OneEditInv, Transaction, Edits!Installed
    <2>5. Told(e)'
      BY <2>1, <2>2 DEF Told
    <2> QED
      BY <2>3, <2>4, <2>5 DEF OneEditInv
  <1>4. OneRuns' /\ Edits!ClosedWithoutEdits'
    BY DEF EditsInv, OneRuns, Edits!ClosedWithoutEdits, Edits!Call, Edits!adVars
  <1> QED
    BY <1>1, <1>2, <1>3, <1>4, SameInv DEF EditsInv, OneEditInv

\* Answered: the caller is told the result of its transaction.
LEMMA AnsweredInv ==
    ASSUME EditsInv, NEW e \in Edit, Edits!Answered(e)
    PROVE  EditsInv'
  <1>1. /\ UNCHANGED <<Edits!txVars, Edits!adVars, started, commit, outer, inner, expected, seen, content>>
        /\ OneEditInv(e)
    BY DEF Edits!Answered, EditsInv, OneEditInv
  <1>2. answer' \in [Edit -> {"none"} \cup Edits!Result]
    BY SMT DEF EditsInv, Edits!TypeOK, Edits!Answered, OneEditInv, Transaction, Edits!Result
  <1>3. Edits!TypeOK'
    BY <1>1, <1>2 DEF EditsInv, Edits!TypeOK, Edits!txVars, Edits!adVars
  <1>4. \A f \in Edit \ {e} : Same(f)
    BY <1>1 DEF EditsInv, Edits!TypeOK, Edits!Answered, Same, Edits!txVars, Edits!adVars
  <1>5. OneEditInv(e)'
    <2>1. \/ tStatus[e] = "done" /\ answer'[e] = outer[e]
          \/ tStatus[e] = "cancelled" /\ answer'[e] = "stopped"
      BY DEF EditsInv, Edits!TypeOK, Edits!Answered
    <2> QED
      BY <1>1, <2>1 DEF OneEditInv, GuardedEdit, Transaction, Told, Edits!Installed,
                        Edits!txVars, Edits!adVars
  <1>6. OneRuns' /\ Edits!ClosedWithoutEdits'
    BY <1>1 DEF EditsInv, OneRuns, Edits!ClosedWithoutEdits, Edits!adVars
  <1> QED
    BY <1>3, <1>4, <1>5, <1>6, SameInv DEF EditsInv, OneEditInv

\* CallTimesOut: TIMED_OUT is answered only with the transaction cancelled.
LEMMA CallTimesOutInv ==
    ASSUME EditsInv, NEW e \in Edit, Edits!CallTimesOut(e)
    PROVE  EditsInv'
  <1>1. /\ UNCHANGED <<Edits!adVars, started, commit, outer, inner, expected, seen, content>>
        /\ OneEditInv(e)
    BY DEF Edits!CallTimesOut, EditsInv, OneEditInv
  <1>2. /\ answer' \in [Edit -> {"none"} \cup Edits!Result]
        /\ tOlder' \in [Edit -> SUBSET Edit] /\ tStatus' \in [Edit -> Edits!Status] /\ tOpen' \in BOOLEAN
    BY SMT DEF EditsInv, Edits!TypeOK, Edits!CallTimesOut, Edits!T!Drop, Edits!T!Leave,
               Edits!txVars, Edits!Result, Edits!Status
  <1>3. Edits!TypeOK'
    BY <1>1, <1>2 DEF EditsInv, Edits!TypeOK, Edits!adVars
  <1>4. \A f \in Edit \ {e} : Same(f)
    BY <1>1 DEF EditsInv, Edits!TypeOK, Edits!CallTimesOut, Edits!T!Drop, Same, Edits!txVars,
                Edits!adVars
  <1>5. OneEditInv(e)'
    <2>1. /\ tStatus'[e] = IF tStatus[e] = "pending" THEN "cancelled" ELSE tStatus[e]
          /\ \/ answer'[e] = "timedOut" /\ tStatus[e] \in {"pending", "cancelled"}
             \/ answer'[e] = "uncertain"
      BY DEF EditsInv, Edits!TypeOK, Edits!CallTimesOut, Edits!Cancellable, Edits!T!Drop,
             Edits!txVars
    <2>2. tStatus[e] = "pending" => aStatus[e] = "none" /\ outer[e] = "none"
      BY <1>1, NotBegun
    <2>3. GuardedEdit(e)'
      BY <1>1 DEF OneEditInv, GuardedEdit, Edits!Installed, Edits!adVars
    <2>4. Transaction(e)'
      BY <1>1, <2>1, <2>2 DEF OneEditInv, Transaction, Edits!Installed, Edits!adVars
    <2>5. Told(e)'
      BY <1>1, <2>1, <2>2 DEF OneEditInv, Told
    <2> QED
      BY <2>3, <2>4, <2>5 DEF OneEditInv
  <1>6. OneRuns' /\ Edits!ClosedWithoutEdits'
    BY <1>1 DEF EditsInv, OneRuns, Edits!ClosedWithoutEdits, Edits!adVars
  <1> QED
    BY <1>3, <1>4, <1>5, <1>6, SameInv DEF EditsInv, OneEditInv

\* The steps of the transaction that do not submit, cancel or start anything only
\* move it, so the edit's own part of the invariant is all there is to show.
LEMMA TxMoves ==
    ASSUME EditsInv, NEW e \in Edit,
           UNCHANGED <<Edits!adVars, commit, inner, answer, expected, seen, content>>,
           tOlder' \in [Edit -> SUBSET Edit], tStatus' \in [Edit -> Edits!Status], tOpen' \in BOOLEAN,
           started' \in [Edit -> BOOLEAN],
           outer' \in [Edit -> {"none", "begun", "preflight", "wait"} \cup Edits!Result],
           \A f \in Edit \ {e} : tStatus'[f] = tStatus[f] /\ outer'[f] = outer[f],
           OneEditInv(e)'
    PROVE  EditsInv'
  <1>1. Edits!TypeOK'
    BY DEF EditsInv, Edits!TypeOK, Edits!adVars
  <1>2. \A f \in Edit \ {e} : Same(f)
    BY DEF Same, Edits!adVars
  <1>3. OneRuns' /\ Edits!ClosedWithoutEdits'
    BY DEF EditsInv, OneRuns, Edits!ClosedWithoutEdits, Edits!adVars
  <1> QED
    BY <1>1, <1>2, <1>3, SameInv DEF EditsInv, OneEditInv

\* TxStart: the transaction's worker takes it.
LEMMA TxStartInv ==
    ASSUME EditsInv, NEW e \in Edit, Edits!TxStart(e)
    PROVE  EditsInv'
  <1>1. /\ UNCHANGED <<Edits!adVars, started, commit, inner, answer, expected, seen, content>>
        /\ tStatus[e] = "pending" /\ tStatus'[e] = "running" /\ outer'[e] = "begun"
        /\ \A f \in Edit \ {e} : tStatus'[f] = tStatus[f] /\ outer'[f] = outer[f]
        /\ OneEditInv(e)
    BY DEF Edits!TxStart, Edits!T!Start, EditsInv, OneEditInv, Edits!TypeOK
  <1>2. /\ tOlder' \in [Edit -> SUBSET Edit] /\ tStatus' \in [Edit -> Edits!Status] /\ tOpen' \in BOOLEAN
        /\ outer' \in [Edit -> {"none", "begun", "preflight", "wait"} \cup Edits!Result]
    BY DEF Edits!TxStart, Edits!T!Start, Edits!T!Leave, EditsInv, Edits!TypeOK, Edits!Status
  <1>3. outer[e] = "none" /\ aStatus[e] = "none"
    BY <1>1, NotBegun
  <1>4. OneEditInv(e)'
    <2>1. GuardedEdit(e)'
      BY <1>1 DEF OneEditInv, GuardedEdit, Edits!Installed, Edits!adVars
    <2>2. Transaction(e)' /\ Told(e)'
      BY <1>1, <1>3 DEF OneEditInv, Transaction, Told, Edits!adVars
    <2> QED
      BY <2>1, <2>2 DEF OneEditInv
  <1> QED
    BY <1>1, <1>2, <1>4, TxMoves DEF EditsInv, Edits!TypeOK

\* TxMark: the outer commit is marked running.
LEMMA TxMarkInv ==
    ASSUME EditsInv, NEW e \in Edit, Edits!TxMark(e)
    PROVE  EditsInv'
  <1>1. /\ UNCHANGED <<Edits!txVars, Edits!adVars, commit, inner, answer, expected, seen, content>>
        /\ tStatus[e] = "running" /\ outer[e] = "begun" /\ outer'[e] = "preflight"
        /\ \A f \in Edit \ {e} : outer'[f] = outer[f]
        /\ OneEditInv(e)
    BY DEF Edits!TxMark, Edits!TxGoes, EditsInv, OneEditInv, Edits!TypeOK
  <1>2. /\ outer' \in [Edit -> {"none", "begun", "preflight", "wait"} \cup Edits!Result]
        /\ started' \in [Edit -> BOOLEAN]
    BY DEF Edits!TxMark, Edits!TxGoes, EditsInv, Edits!TypeOK
  <1>3. OneEditInv(e)'
    <2>1. GuardedEdit(e)'
      BY <1>1 DEF OneEditInv, GuardedEdit, Edits!Installed, Edits!adVars
    <2>2. Transaction(e)' /\ Told(e)'
      BY <1>1 DEF OneEditInv, Transaction, Told, Edits!adVars, Edits!txVars
    <2> QED
      BY <2>1, <2>2 DEF OneEditInv
  <1> QED
    BY <1>1, <1>2, <1>3, TxMoves DEF EditsInv, Edits!TypeOK, Edits!txVars

\* TxSubmit: the guarded edit is submitted while the adapter executor is open, or
\* the transaction fails before it.
LEMMA TxSubmitInv ==
    ASSUME EditsInv, NEW e \in Edit, Edits!TxSubmit(e)
    PROVE  EditsInv'
  <1>1. /\ UNCHANGED <<Edits!txVars, started, commit, inner, answer, expected, seen, content>>
        /\ tStatus[e] = "running" /\ outer[e] = "preflight"
        /\ \A f \in Edit \ {e} : outer'[f] = outer[f] /\ aStatus'[f] = aStatus[f]
        /\ OneEditInv(e)
        /\ aStatus[e] = "none" /\ inner[e] = "none" /\ commit[e] = "queued"
    BY SMT DEF Edits!TxSubmit, Edits!TxGoes, Edits!A!Admit, Edits!adVars, EditsInv,
               OneEditInv, GuardedEdit, Transaction, Edits!TypeOK
  <1>2. \/ outer'[e] = "wait" /\ aStatus'[e] = "pending" /\ aOpen /\ aOpen'
        \/ outer'[e] = "failed" /\ UNCHANGED Edits!adVars
    BY DEF Edits!TxSubmit, Edits!TxGoes, Edits!A!Admit, EditsInv, Edits!TypeOK
  <1>3. Edits!TypeOK'
    <2>1. outer' \in [Edit -> {"none", "begun", "preflight", "wait"} \cup Edits!Result]
      BY SMT DEF Edits!TxSubmit, Edits!TxGoes, EditsInv, Edits!TypeOK, Edits!Result
    <2>2. aOlder' \in [Edit -> SUBSET Edit] /\ aStatus' \in [Edit -> Edits!Status] /\ aOpen' \in BOOLEAN
      BY SMT DEF Edits!TxSubmit, Edits!A!Admit, EditsInv, Edits!TypeOK, Edits!adVars,
                 Edits!Status
    <2> QED
      BY <1>1, <2>1, <2>2 DEF EditsInv, Edits!TypeOK, Edits!txVars
  <1>4. \A f \in Edit \ {e} : Same(f)
    BY <1>1 DEF Same, Edits!txVars
  <1>5. OneEditInv(e)'
    <2>1. GuardedEdit(e)'
      BY <1>1, <1>2 DEF OneEditInv, GuardedEdit, Edits!Installed, Edits!adVars
    <2>2. Transaction(e)'
      BY <1>1, <1>2 DEF OneEditInv, Transaction, Edits!Installed, Edits!adVars, Edits!txVars,
                        Edits!Result
    <2>3. Told(e)'
      BY <1>1 DEF OneEditInv, Told, Edits!txVars
    <2> QED
      BY <2>1, <2>2, <2>3 DEF OneEditInv
  <1>6. OneRuns' /\ Edits!ClosedWithoutEdits'
    BY <1>1, <1>2 DEF EditsInv, OneRuns, Edits!ClosedWithoutEdits, Edits!adVars
  <1> QED
    BY <1>3, <1>4, <1>5, <1>6, SameInv DEF EditsInv, OneEditInv

\* TxReceive: the transaction takes over the result of the guarded edit.
LEMMA TxReceiveInv ==
    ASSUME EditsInv, NEW e \in Edit, Edits!TxReceive(e)
    PROVE  EditsInv'
  <1>1. /\ UNCHANGED <<Edits!txVars, Edits!adVars, started, commit, inner, answer, expected, seen, content>>
        /\ tStatus[e] = "running" /\ outer[e] = "wait" /\ aStatus[e] = "done"
        /\ \A f \in Edit \ {e} : outer'[f] = outer[f]
        /\ OneEditInv(e)
    BY DEF Edits!TxReceive, Edits!TxGoes, EditsInv, OneEditInv, Edits!TypeOK
  <1>2. /\ inner[e] \in Edits!Result \cup {"raised"} /\ inner[e] \notin {"timedOut", "stopped"}
        /\ \/ inner[e] # "raised" /\ outer'[e] = inner[e]
           \/ inner[e] = "raised" /\ outer'[e] = IF Edits!Installed(e) THEN "uncertain" ELSE "failed"
    BY <1>1 DEF Edits!TxReceive, Edits!TxGoes, EditsInv, OneEditInv, Edits!TypeOK, GuardedEdit
  <1>3. outer' \in [Edit -> {"none", "begun", "preflight", "wait"} \cup Edits!Result]
    BY SMT, <1>2 DEF Edits!TxReceive, Edits!TxGoes, EditsInv, Edits!TypeOK, Edits!Result
  <1>4. OneEditInv(e)'
    <2>1. GuardedEdit(e)'
      BY <1>1 DEF OneEditInv, GuardedEdit, Edits!Installed, Edits!adVars
    <2>2. Transaction(e)'
      <3>1. outer'[e] = "failed" => ~Edits!Installed(e)
        BY <1>1, <1>2 DEF OneEditInv, GuardedEdit
      <3> QED
        BY <1>1, <1>2, <3>1 DEF OneEditInv, Transaction, Edits!Installed, Edits!adVars,
                                Edits!txVars, Edits!Result
    <2>3. Told(e)'
      BY <1>1 DEF OneEditInv, Told, Edits!txVars
    <2> QED
      BY <2>1, <2>2, <2>3 DEF OneEditInv
  <1> QED
    BY <1>1, <1>3, <1>4, TxMoves DEF EditsInv, Edits!TypeOK, Edits!txVars

\* TxTimesOut: TIMED_OUT is reported only with the guarded edit cancelled.
LEMMA TxTimesOutInv ==
    ASSUME EditsInv, NEW e \in Edit, Edits!TxTimesOut(e)
    PROVE  EditsInv'
  <1>1. /\ UNCHANGED <<Edits!txVars, started, commit, inner, answer, expected, seen, content>>
        /\ tStatus[e] = "running" /\ outer[e] = "wait"
        /\ \A f \in Edit \ {e} : outer'[f] = outer[f] /\ aStatus'[f] = aStatus[f]
        /\ aStatus'[e] = IF aStatus[e] = "pending" THEN "cancelled" ELSE aStatus[e]
        /\ aOpen' = aOpen
        /\ OneEditInv(e)
    BY DEF Edits!TxTimesOut, Edits!TxGoes, Edits!A!Drop, Edits!adVars, EditsInv, OneEditInv,
           Edits!TypeOK
  <1>2. \/ outer'[e] = "timedOut" /\ aStatus[e] \in {"pending", "cancelled"}
        \/ outer'[e] = "uncertain"
    BY DEF Edits!TxTimesOut, Edits!TxGoes, Edits!Cancellable, EditsInv, Edits!TypeOK
  <1>3. Edits!TypeOK'
    <2>1. outer' \in [Edit -> {"none", "begun", "preflight", "wait"} \cup Edits!Result]
      BY DEF Edits!TxTimesOut, Edits!TxGoes, EditsInv, Edits!TypeOK, Edits!Result
    <2>2. aOlder' \in [Edit -> SUBSET Edit] /\ aStatus' \in [Edit -> Edits!Status] /\ aOpen' \in BOOLEAN
      BY SMT DEF Edits!TxTimesOut, Edits!A!Drop, Edits!A!Leave, EditsInv, Edits!TypeOK,
                 Edits!adVars, Edits!Status
    <2> QED
      BY <1>1, <2>1, <2>2 DEF EditsInv, Edits!TypeOK, Edits!txVars
  <1>4. \A f \in Edit \ {e} : Same(f)
    BY <1>1 DEF Same, Edits!txVars
  <1>5. OneEditInv(e)'
    <2>1. GuardedEdit(e)'
      BY <1>1 DEF OneEditInv, GuardedEdit, Edits!Installed
    <2>2. Transaction(e)'
      BY <1>1, <1>2 DEF OneEditInv, Transaction, Edits!Installed, Edits!txVars, Edits!Result
    <2>3. Told(e)'
      BY <1>1 DEF OneEditInv, Told, Edits!txVars
    <2> QED
      BY <2>1, <2>2, <2>3 DEF OneEditInv
  <1>6. OneRuns' /\ Edits!ClosedWithoutEdits'
    BY <1>1 DEF EditsInv, OneRuns, Edits!ClosedWithoutEdits
  <1> QED
    BY <1>3, <1>4, <1>5, <1>6, SameInv DEF EditsInv, OneEditInv

\* TxEnd: the transaction's future gets its result.
LEMMA TxEndInv ==
    ASSUME EditsInv, NEW e \in Edit, Edits!TxEnd(e)
    PROVE  EditsInv'
  <1>1. /\ UNCHANGED <<Edits!adVars, started, commit, outer, inner, answer, expected, seen, content>>
        /\ tStatus[e] = "running" /\ tStatus'[e] = "done" /\ outer[e] \in Edits!Result
        /\ \A f \in Edit \ {e} : tStatus'[f] = tStatus[f]
        /\ OneEditInv(e)
    BY DEF Edits!TxEnd, Edits!T!End, Edits!editVars, EditsInv, OneEditInv, Edits!TypeOK
  <1>2. tOlder' \in [Edit -> SUBSET Edit] /\ tStatus' \in [Edit -> Edits!Status] /\ tOpen' \in BOOLEAN
    BY DEF Edits!TxEnd, Edits!T!End, EditsInv, Edits!TypeOK, Edits!Status
  <1>3. OneEditInv(e)'
    <2>1. GuardedEdit(e)'
      BY <1>1 DEF OneEditInv, GuardedEdit, Edits!Installed, Edits!adVars
    <2>2. Transaction(e)'
      BY <1>1 DEF OneEditInv, Transaction, Edits!Installed, Edits!adVars, Edits!Result
    <2>3. Told(e)'
      BY <1>1 DEF OneEditInv, Told
    <2> QED
      BY <2>1, <2>2, <2>3 DEF OneEditInv
  <1> QED
    BY <1>1, <1>2, <1>3, TxMoves DEF EditsInv, Edits!TypeOK

\* EditStart: the adapter's worker takes the guarded edit; no other one runs.
LEMMA EditStartInv ==
    ASSUME EditsInv, NEW e \in Edit, Edits!EditStart(e)
    PROVE  EditsInv'
  <1>1. /\ UNCHANGED <<Edits!txVars, started, commit, outer, answer, expected, seen, content>>
        /\ aStatus[e] = "pending" /\ aStatus'[e] = "running" /\ inner'[e] \in {"mark", "raised"}
        /\ \A f \in Edit : aStatus[f] # "running"
        /\ \A f \in Edit \ {e} : inner'[f] = inner[f] /\ aStatus'[f] = aStatus[f]
        /\ aOpen' = aOpen
        /\ OneEditInv(e)
    BY DEF Edits!EditStart, Edits!A!Start, EditsInv, OneEditInv, Edits!TypeOK
  <1>2. /\ tStatus[e] = "running" /\ outer[e] = "wait" /\ inner[e] = "none" /\ commit[e] = "queued"
    BY <1>1 DEF OneEditInv, Transaction, GuardedEdit
  <1>3. Edits!TypeOK'
    <2>1. inner' \in [Edit -> {"none", "mark", "read", "resolve", "confirm", "write", "compare",
                              "replace", "install", "settle", "notify", "raised"} \cup Edits!Result]
      BY DEF Edits!EditStart, EditsInv, Edits!TypeOK
    <2>2. aOlder' \in [Edit -> SUBSET Edit] /\ aStatus' \in [Edit -> Edits!Status] /\ aOpen' \in BOOLEAN
      BY DEF Edits!EditStart, Edits!A!Start, Edits!A!Leave, EditsInv, Edits!TypeOK, Edits!Status
    <2> QED
      BY <1>1, <2>1, <2>2 DEF EditsInv, Edits!TypeOK, Edits!txVars
  <1>4. \A f \in Edit \ {e} : Same(f)
    BY <1>1 DEF Same, Edits!txVars
  <1>5. OneEditInv(e)'
    <2>1. GuardedEdit(e)'
      BY <1>1, <1>2 DEF OneEditInv, GuardedEdit, Edits!Installed
    <2>2. Transaction(e)' /\ Told(e)'
      BY <1>1, <1>2 DEF OneEditInv, Transaction, Told, Edits!txVars
    <2> QED
      BY <2>1, <2>2 DEF OneEditInv
  <1>6. OneRuns' /\ Edits!ClosedWithoutEdits'
    BY <1>1 DEF EditsInv, OneRuns, Edits!ClosedWithoutEdits
  <1> QED
    BY <1>3, <1>4, <1>5, <1>6, SameInv DEF EditsInv, OneEditInv

\* The steps of a running guarded edit: only its own part has to be shown.
LEMMA EditMoves ==
    ASSUME EditsInv, NEW e \in Edit, aStatus[e] = "running", Edits!EditUnchanged,
           commit' \in [Edit -> {"queued", "running", "installed", "done"}],
           inner' \in [Edit -> {"none", "mark", "read", "resolve", "confirm", "write", "compare",
                               "replace", "install", "settle", "notify", "raised"} \cup Edits!Result],
           seen' \in [Edit -> Edits!Content],
           content' \in {content, e},
           \A f \in Edit \ {e} : commit'[f] = commit[f] /\ inner'[f] = inner[f] /\ seen'[f] = seen[f],
           GuardedEdit(e)'
    PROVE  EditsInv'
  <1>1. Edits!TypeOK'
    BY DEF EditsInv, Edits!TypeOK, Edits!EditUnchanged, Edits!txVars, Edits!adVars,
           Edits!Content
  <1>2. ASSUME NEW f \in Edit \ {e} PROVE Same(f)
    <2>1. inner[f] # "replace"
      <3>1. aStatus[f] # "running"
        BY DEF EditsInv, OneRuns
      <3>2. aStatus[f] \in Edits!Status /\ GuardedEdit(f)
        BY DEF EditsInv, Edits!TypeOK
      <3> QED
        BY <3>1, <3>2 DEF GuardedEdit, Edits!Status, Edits!Result
    <2> QED
      BY <2>1 DEF Same, Edits!EditUnchanged, Edits!txVars, Edits!adVars
  <1>3. OneEditInv(e)'
    <2>1. OneEditInv(e)
      BY DEF EditsInv, OneEditInv
    <2>2. Transaction(e)'
      BY <2>1 DEF OneEditInv, Transaction, Edits!EditUnchanged, Edits!txVars, Edits!adVars
    <2>3. Told(e)'
      BY <2>1 DEF OneEditInv, Told, Edits!EditUnchanged, Edits!txVars
    <2> QED
      BY <2>2, <2>3 DEF OneEditInv
  <1>4. OneRuns' /\ Edits!ClosedWithoutEdits'
    BY DEF EditsInv, OneRuns, Edits!ClosedWithoutEdits, Edits!EditUnchanged, Edits!adVars
  <1> QED
    BY <1>1, <1>2, <1>3, <1>4, SameInv DEF EditsInv, OneEditInv

\* Each step of the guarded edit, from the read to the notification.
LEMMA EditStepInv ==
    ASSUME EditsInv, NEW e \in Edit,
           \/ Edits!EditMark(e) \/ Edits!EditRead(e) \/ Edits!EditResolve(e) \/ Edits!EditConfirm(e) \/ Edits!EditWrite(e)
           \/ Edits!EditCompare(e) \/ Edits!EditReplace(e) \/ Edits!EditInstalled(e) \/ Edits!EditSettle(e) \/ Edits!EditNotify(e)
    PROVE  EditsInv'
  <1> USE ContentAssumption
  <1>1. GuardedEdit(e) /\ content \in Edits!Content
    BY DEF EditsInv, Edits!TypeOK
  <1>2. /\ aStatus[e] = "running" /\ Edits!EditUnchanged
        /\ \A f \in Edit \ {e} : commit'[f] = commit[f] /\ inner'[f] = inner[f] /\ seen'[f] = seen[f]
        /\ content' \in {content, e}
    <2>1. DOMAIN commit = Edit /\ DOMAIN inner = Edit /\ DOMAIN seen = Edit
      BY DEF EditsInv, Edits!TypeOK
    <2>2. aStatus[e] = "running" /\ Edits!EditUnchanged /\ content' \in {content, e}
      BY DEF Edits!EditMark, Edits!EditRead, Edits!EditResolve, Edits!EditConfirm,
             Edits!EditWrite, Edits!EditCompare, Edits!EditReplace, Edits!EditInstalled,
             Edits!EditSettle, Edits!EditNotify, Edits!EditRereads, Edits!EditGoes
    <2>3. \A f \in Edit \ {e} : commit'[f] = commit[f] /\ inner'[f] = inner[f] /\ seen'[f] = seen[f]
      BY <2>1 DEF Edits!EditMark, Edits!EditRead, Edits!EditResolve, Edits!EditConfirm,
                  Edits!EditWrite, Edits!EditCompare, Edits!EditReplace, Edits!EditInstalled,
                  Edits!EditSettle, Edits!EditNotify, Edits!EditRereads, Edits!EditGoes
    <2> QED
      BY <2>2, <2>3
  <1>3. /\ commit' \in [Edit -> {"queued", "running", "installed", "done"}]
        /\ seen' \in [Edit -> Edits!Content]
    BY SMT DEF Edits!EditMark, Edits!EditRead, Edits!EditResolve, Edits!EditConfirm,
               Edits!EditWrite, Edits!EditCompare, Edits!EditReplace, Edits!EditInstalled,
               Edits!EditSettle, Edits!EditNotify, Edits!EditRereads, EditsInv, Edits!TypeOK
  <1>4. inner' \in [Edit -> {"none", "mark", "read", "resolve", "confirm", "write", "compare",
                            "replace", "install", "settle", "notify", "raised"} \cup Edits!Result]
    BY SMT DEF Edits!EditMark, Edits!EditRead, Edits!EditResolve, Edits!EditConfirm,
               Edits!EditWrite, Edits!EditCompare, Edits!EditReplace, Edits!EditInstalled,
               Edits!EditSettle, Edits!EditNotify, Edits!EditRereads, Edits!EditGoes,
               EditsInv, Edits!TypeOK, Edits!Result
  <1>5. UNCHANGED <<aStatus, expected>>
    BY <1>2 DEF Edits!EditUnchanged, Edits!adVars
  <1>6. GuardedEdit(e)'
    <2>1. CASE Edits!EditMark(e)
      <3>1. /\ inner[e] = "mark" /\ inner'[e] = "read" /\ commit'[e] = "running"
            /\ UNCHANGED <<seen, content>>
        BY <2>1 DEF Edits!EditMark, Edits!EditGoes, EditsInv, Edits!TypeOK
      <3> QED
        BY <1>1, <1>2, <1>5, <3>1 DEF GuardedEdit, Edits!Installed
    <2>2. CASE Edits!EditRead(e)
      <3>1. /\ inner[e] = "read" /\ seen'[e] = content /\ UNCHANGED <<commit, content>>
            /\ inner'[e] \in {"resolve", "stale", "failed"}
            /\ inner'[e] = "resolve" => content = expected[e]
        BY <2>2 DEF Edits!EditRead, Edits!EditGoes, EditsInv, Edits!TypeOK
      <3> QED
        BY <1>1, <1>2, <1>5, <3>1 DEF GuardedEdit, Edits!Installed
    <2>3. CASE Edits!EditResolve(e)
      <3>1. /\ inner[e] = "resolve" /\ inner'[e] \in {"confirm", "failed", "raised"}
            /\ UNCHANGED <<commit, seen, content>>
        BY <2>3 DEF Edits!EditResolve, Edits!EditGoes, EditsInv, Edits!TypeOK
      <3> QED
        BY <1>1, <1>2, <1>5, <3>1 DEF GuardedEdit, Edits!Installed
    <2>4. CASE Edits!EditConfirm(e)
      <3>1. /\ inner[e] = "confirm" /\ inner'[e] \in {"write", "stale", "failed"}
            /\ UNCHANGED <<commit, seen, content>>
        BY <2>4 DEF Edits!EditConfirm, Edits!EditRereads, Edits!EditGoes, EditsInv, Edits!TypeOK
      <3> QED
        BY <1>1, <1>2, <1>5, <3>1 DEF GuardedEdit, Edits!Installed
    <2>5. CASE Edits!EditWrite(e)
      <3>1. /\ inner[e] = "write" /\ inner'[e] \in {"compare", "raised"}
            /\ UNCHANGED <<commit, seen, content>>
        BY <2>5 DEF Edits!EditWrite, Edits!EditGoes, EditsInv, Edits!TypeOK
      <3> QED
        BY <1>1, <1>2, <1>5, <3>1 DEF GuardedEdit, Edits!Installed
    <2>6. CASE Edits!EditCompare(e)
      <3>1. /\ inner[e] = "compare" /\ inner'[e] \in {"replace", "stale", "failed"}
            /\ inner'[e] = "replace" => content = seen[e]
            /\ UNCHANGED <<commit, seen, content>>
        BY <2>6 DEF Edits!EditCompare, Edits!EditRereads, Edits!EditGoes, EditsInv, Edits!TypeOK
      <3> QED
        BY <1>1, <1>2, <1>5, <3>1 DEF GuardedEdit, Edits!Installed
    <2>7. CASE Edits!EditReplace(e)
      <3>1. /\ inner[e] = "replace" /\ UNCHANGED <<commit, seen>>
            /\ \/ inner'[e] = "install" /\ content' = e
               \/ inner'[e] = "raised" /\ content' = content
        BY <2>7 DEF Edits!EditReplace, Edits!EditGoes, EditsInv, Edits!TypeOK
      <3> QED
        BY <1>1, <1>2, <1>5, <3>1 DEF GuardedEdit, Edits!Installed
    <2>8. CASE Edits!EditInstalled(e)
      <3>1. /\ inner[e] = "install" /\ inner'[e] = "settle" /\ commit'[e] = "installed"
            /\ UNCHANGED <<seen, content>>
        BY <2>8 DEF Edits!EditInstalled, Edits!EditGoes, EditsInv, Edits!TypeOK
      <3> QED
        BY <1>1, <1>2, <1>5, <3>1 DEF GuardedEdit, Edits!Installed
    <2>9. CASE Edits!EditSettle(e)
      <3>1. /\ inner[e] = "settle" /\ inner'[e] \in {"notify", "uncertain", "raised"}
            /\ UNCHANGED <<commit, seen, content>>
        BY <2>9 DEF Edits!EditSettle, Edits!EditGoes, EditsInv, Edits!TypeOK
      <3> QED
        BY <1>1, <1>2, <1>5, <3>1 DEF GuardedEdit, Edits!Installed
    <2>10. CASE Edits!EditNotify(e)
      <3>1. /\ inner[e] = "notify" /\ UNCHANGED <<seen, content>>
            /\ \/ inner'[e] = "success" /\ commit'[e] = "done"
               \/ inner'[e] = "uncertain" /\ commit'[e] = commit[e]
        BY <2>10 DEF Edits!EditNotify, Edits!EditGoes, EditsInv, Edits!TypeOK
      <3> QED
        BY <1>1, <1>2, <1>5, <3>1 DEF GuardedEdit, Edits!Installed
    <2> QED
      BY <2>1, <2>2, <2>3, <2>4, <2>5, <2>6, <2>7, <2>8, <2>9, <2>10
  <1> QED
    BY <1>2, <1>3, <1>4, <1>6, EditMoves

\* EditEnd: the guarded edit's future gets its result.
LEMMA EditEndInv ==
    ASSUME EditsInv, NEW e \in Edit, Edits!EditEnd(e)
    PROVE  EditsInv'
  <1>1. /\ UNCHANGED <<Edits!txVars, started, commit, outer, inner, answer, expected, seen, content, aOpen>>
        /\ aStatus[e] = "running" /\ aStatus'[e] = "done" /\ inner[e] \in Edits!Result \cup {"raised"}
        /\ \A f \in Edit \ {e} : aStatus'[f] = aStatus[f]
        /\ OneEditInv(e)
    BY DEF Edits!EditEnd, Edits!A!End, Edits!editVars, EditsInv, OneEditInv, Edits!TypeOK
  <1>2. Edits!TypeOK'
    <2>1. aOlder' \in [Edit -> SUBSET Edit] /\ aStatus' \in [Edit -> Edits!Status]
      BY DEF Edits!EditEnd, Edits!A!End, EditsInv, Edits!TypeOK, Edits!Status
    <2> QED
      BY <1>1, <2>1 DEF EditsInv, Edits!TypeOK, Edits!txVars
  <1>3. \A f \in Edit \ {e} : Same(f)
    BY <1>1 DEF Same, Edits!txVars
  <1>4. OneEditInv(e)'
    <2>1. GuardedEdit(e)'
      BY <1>1 DEF OneEditInv, GuardedEdit, Edits!Installed
    <2>2. Transaction(e)' /\ Told(e)'
      BY <1>1 DEF OneEditInv, Transaction, Told, Edits!txVars
    <2> QED
      BY <2>1, <2>2 DEF OneEditInv
  <1>5. OneRuns' /\ Edits!ClosedWithoutEdits'
    BY <1>1 DEF EditsInv, OneRuns, Edits!ClosedWithoutEdits
  <1> QED
    BY <1>2, <1>3, <1>4, <1>5, SameInv DEF EditsInv, OneEditInv

\* Another program never writes what an edit wrote.
LEMMA ForeignWriteInv ==
    ASSUME EditsInv, NEW f \in Foreign, Edits!ForeignWrite(f)
    PROVE  EditsInv'
  <1> USE ContentAssumption
  <1>1. /\ UNCHANGED <<Edits!txVars, Edits!adVars, started, commit, outer, inner, answer, expected, seen>>
        /\ content' = f
    BY DEF Edits!ForeignWrite
  <1>2. Edits!TypeOK'
    BY <1>1 DEF EditsInv, Edits!TypeOK, Edits!txVars, Edits!adVars, Edits!Content
  <1>3. \A e \in Edit : Same(e)
    BY <1>1 DEF Same, Edits!txVars, Edits!adVars
  <1>4. OneRuns' /\ Edits!ClosedWithoutEdits'
    BY <1>1 DEF EditsInv, OneRuns, Edits!ClosedWithoutEdits, Edits!adVars
  <1> QED
    BY <1>2, <1>3, <1>4, SameInv DEF EditsInv, OneEditInv

\* stop: the transaction executor is sealed and drained, then the adapter's.
LEMMA StopInv ==
    ASSUME EditsInv, Edits!StopTransactions \/ Edits!StopAdapter
    PROVE  EditsInv'
  <1>1. UNCHANGED <<Edits!editVars, tOlder, tStatus, aOlder, aStatus>>
    BY DEF Edits!StopTransactions, Edits!StopAdapter, Edits!T!Shut, Edits!A!Shut,
           Edits!txVars, Edits!adVars
  <1>2. Edits!TypeOK'
    BY <1>1 DEF EditsInv, Edits!TypeOK, Edits!editVars, Edits!StopTransactions,
                Edits!StopAdapter, Edits!T!Shut, Edits!A!Shut, Edits!txVars, Edits!adVars
  <1>3. \A e \in Edit : Same(e)
    BY <1>1 DEF Same, Edits!editVars
  <1>4. OneRuns'
    BY <1>1 DEF EditsInv, OneRuns
  <1>5. Edits!ClosedWithoutEdits'
    <2>1. CASE Edits!StopTransactions
      BY <1>1, <2>1 DEF EditsInv, Edits!ClosedWithoutEdits, Edits!StopTransactions, Edits!adVars
    <2>2. CASE Edits!StopAdapter
      BY <1>1, <2>2 DEF EditsInv, Edits!ClosedWithoutEdits, Transaction, Edits!StopAdapter
    <2> QED
      BY <2>1, <2>2
  <1> QED
    BY <1>2, <1>3, <1>4, <1>5, SameInv DEF EditsInv, OneEditInv

\* stop cancels a queued transaction.
LEMMA CancelTransactionInv ==
    ASSUME EditsInv, NEW e \in Edit, Edits!CancelTransaction(e)
    PROVE  EditsInv'
  <1>1. /\ UNCHANGED <<Edits!adVars, started, commit, outer, inner, answer, expected, seen, content>>
        /\ tStatus[e] = "pending" /\ tStatus'[e] = "cancelled"
        /\ \A f \in Edit \ {e} : tStatus'[f] = tStatus[f]
        /\ OneEditInv(e)
    BY DEF Edits!CancelTransaction, Edits!T!Drop, Edits!editVars, EditsInv, OneEditInv,
           Edits!TypeOK
  <1>2. tOlder' \in [Edit -> SUBSET Edit] /\ tStatus' \in [Edit -> Edits!Status] /\ tOpen' \in BOOLEAN
    BY DEF Edits!CancelTransaction, Edits!T!Drop, Edits!T!Leave, EditsInv, Edits!TypeOK,
           Edits!Status
  <1>3. outer[e] = "none" /\ aStatus[e] = "none"
    BY <1>1, NotBegun
  <1>4. OneEditInv(e)'
    <2>1. GuardedEdit(e)'
      BY <1>1 DEF OneEditInv, GuardedEdit, Edits!Installed, Edits!adVars
    <2>2. Transaction(e)' /\ Told(e)'
      BY <1>1, <1>3 DEF OneEditInv, Transaction, Told, Edits!adVars
    <2> QED
      BY <2>1, <2>2 DEF OneEditInv
  <1> QED
    BY <1>1, <1>2, <1>4, TxMoves DEF EditsInv, Edits!TypeOK

\* The invariant is inductive.
LEMMA EditsNextInv == EditsInv /\ [Edits!Next]_(Edits!vars) => EditsInv'
  <1> SUFFICES ASSUME EditsInv, [Edits!Next]_(Edits!vars) PROVE EditsInv'
    OBVIOUS
  <1>1. CASE UNCHANGED Edits!vars
    <2>1. \A e \in Edit : Same(e)
      BY <1>1 DEF Edits!vars, Edits!txVars, Edits!adVars, Edits!editVars, Same
    <2>2. Edits!TypeOK' /\ OneRuns' /\ Edits!ClosedWithoutEdits'
      BY <1>1 DEF EditsInv, Edits!TypeOK, OneRuns, Edits!ClosedWithoutEdits, Edits!vars,
                  Edits!txVars, Edits!adVars, Edits!editVars
    <2> QED
      BY <2>1, <2>2, SameInv DEF EditsInv, OneEditInv
  <1> QED
    BY <1>1, CallInv, AnsweredInv, CallTimesOutInv, TxStartInv, TxMarkInv, TxSubmitInv, TxReceiveInv,
       TxTimesOutInv, TxEndInv, EditStartInv, EditStepInv, EditEndInv, ForeignWriteInv, StopInv,
       CancelTransactionInv
    DEF Edits!Next

\* The invariant always holds.
LEMMA EditsInvariance == Edits!Spec => []EditsInv
  BY EditsInitInv, EditsNextInv, PTL DEF Edits!Spec

-------------------------------------------------------------------------------
(* Edits: what a caller may rely on *)

\* Every variable keeps its type, for any number of edits and programs.
THEOREM EditsTypeCorrect == Edits!Spec => []Edits!TypeOK
  BY EditsInvariance, PTL DEF EditsInv

\* An error other than UNCERTAIN means that the edit has not changed the file and
\* never will; success means that it has.
THEOREM AnswersTruthfulAlways == Edits!Spec => []AnswersTruthful
  <1>1. EditsInv => AnswersTruthful
    <2> SUFFICES ASSUME EditsInv, NEW e \in Edit
                 PROVE  /\ answer[e] \in {"timedOut", "stopped", "failed", "stale"} => ~Edits!Wrote(e)
                        /\ answer[e] = "success" => Edits!Wrote(e)
      BY DEF AnswersTruthful, Edits!AnswersTruthful
    <2>1. GuardedEdit(e) /\ Transaction(e) /\ Told(e)
      BY DEF EditsInv
    <2>2. aStatus[e] \in {"none", "cancelled"} => ~Edits!Wrote(e)
      BY <2>1 DEF GuardedEdit, Edits!Installed, Edits!Wrote
    <2>3. ASSUME answer[e] \in {"timedOut", "stopped", "failed", "stale"} PROVE ~Edits!Wrote(e)
      <3>1. \/ aStatus[e] \in {"none", "cancelled"}
            \/ inner[e] \in {"failed", "raised", "stale"} /\ ~Edits!Installed(e)
        BY <2>1, <2>3 DEF GuardedEdit, Transaction, Told
      <3> QED
        BY <2>1, <2>2, <3>1 DEF GuardedEdit, Edits!Installed, Edits!Wrote
    <2>4. ASSUME answer[e] = "success" PROVE Edits!Wrote(e)
      BY <2>1, <2>4 DEF GuardedEdit, Transaction, Told, Edits!Installed, Edits!Wrote
    <2> QED
      BY <2>3, <2>4
  <1> QED
    BY <1>1, EditsInvariance, PTL

\* No edit replaces what another edit wrote unless its caller had read it.
THEOREM NoUnseenOverwriteAlways == Edits!Spec => NoUnseenOverwrite
  <1> DEFINE Seen == \A e \in Edit : content' = e /\ content # e => content \notin Edit \ {expected[e]}
  <1>1. EditsInv /\ [Edits!Next]_(Edits!vars) => [Seen]_(Edits!vars)
    <2> SUFFICES ASSUME EditsInv, Edits!Next, NEW e \in Edit, content' = e, content # e
                 PROVE  content \notin Edit \ {expected[e]}
      OBVIOUS
    <2>1. PICK f \in Edit : Edits!EditReplace(f) /\ content' = f
      <3>1. \A f \in Foreign : ~Edits!ForeignWrite(f)
        BY ContentAssumption DEF Edits!ForeignWrite
      <3> QED
        BY <3>1
        DEF Edits!Next, Edits!Call, Edits!Answered, Edits!CallTimesOut, Edits!TxStart,
            Edits!TxMark, Edits!TxSubmit, Edits!TxReceive, Edits!TxTimesOut, Edits!TxEnd,
            Edits!EditStart, Edits!EditMark, Edits!EditRead, Edits!EditResolve,
            Edits!EditConfirm, Edits!EditWrite, Edits!EditCompare, Edits!EditReplace,
            Edits!EditInstalled, Edits!EditSettle, Edits!EditNotify, Edits!EditEnd,
            Edits!EditRereads, Edits!CancelTransaction, Edits!StopTransactions,
            Edits!StopAdapter, Edits!editVars
    <2>2. inner[e] = "replace" /\ GuardedEdit(e)
      BY <2>1 DEF Edits!EditReplace, Edits!EditGoes, EditsInv
    <2> QED
      BY <2>2, ContentAssumption DEF GuardedEdit
  <1> QED
    BY <1>1, EditsInvariance, PTL DEF Edits!Spec, NoUnseenOverwrite, Edits!NoUnseenOverwrite

\* The adapter executor is closed only when no guarded edit is queued there.
THEOREM ClosedWithoutEditsAlways == Edits!Spec => []Edits!ClosedWithoutEdits
  BY EditsInvariance, PTL DEF EditsInv
=============================================================================

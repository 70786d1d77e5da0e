------------------------------- MODULE Freshness -------------------------------
(* The FreshnessCoordinator and the adapters of a WorkspaceRuntime: a scan       *)
(* compares the disk with what it committed last, replaces or retires adapters  *)
(* whose program changed, tells the others what changed, and only then admits a *)
(* read.  The runtime may be stopped meanwhile.  Transactions run one at a time *)
(* on the workspace's transaction executor, so one of them is modelled at a     *)
(* time; the adapters' worker and the stopping thread run beside it.            *)
EXTENDS Naturals, Sequences, FiniteSets, SequencesExt

CONSTANTS
    Family,     \* LanguageFamily
    MaxChanges, \* how often the disk changes
    MaxFaults   \* how often an adapter dies, is busy, cannot be built or fails a task

ASSUME FreshnessAssumption == IsFiniteSet(Family) /\ MaxChanges \in Nat /\ MaxFaults \in Nat

\* Every adapter beyond the first of each family answers a change of the disk.
Id == 1 .. Cardinality(Family) + MaxChanges

VARIABLES
    disk,     \* for each family: its source text, native config and membership, and whether they attribute
    seen,     \* _states, _config_states and inventory: what the last scan committed
    adapters, \* _adapters: 0, or the family's adapter
    ad,       \* every adapter ever built: its process, its stop future, what its process has read
    built,    \* how many adapters were built
    error,    \* _family_errors
    pend,     \* _pending_restarts and _pending_retirements
    rec,      \* _pending_reconciles
    tx,       \* where the running transaction is
    runtime,  \* _stopping and _stopped
    stopper,  \* where stop is, and the adapters it answers for
    faults

vars == <<disk, seen, adapters, ad, built, error, pend, rec, tx, runtime, stopper, faults>>

NoPending == [kind |-> "none", adapter |-> 0, asked |-> FALSE]

NoReconcile == [adapter |-> 0, future |-> "none"]

Resting == [pc |-> "idle", phase |-> "before", scope |-> {}, todo |-> <<>>, failed |-> FALSE,
            changed |-> {}, moved |-> {}, forced |-> {}]

Unborn == [life |-> "unborn", family |-> "none", stop |-> "none", src |-> 0, conf |-> 0]

Cold(f) == [Unborn EXCEPT !.life = "cold", !.family = f]

\* WorkspaceRuntime.__init__: an adapter for each family that attributes.
Init ==
    /\ disk = [f \in Family |-> [src |-> 0, conf |-> 0, members |-> 0, ok |-> TRUE]]
    /\ seen = disk
    /\ LET order == SetToSeq(Family)
       IN  /\ adapters = [f \in Family |-> CHOOSE i \in 1 .. Len(order) : order[i] = f]
           /\ ad = [i \in Id |-> IF i <= Len(order) THEN Cold(order[i]) ELSE Unborn]
    /\ built = Cardinality(Family)
    /\ error = [f \in Family |-> "none"]
    /\ pend = [f \in Family |-> NoPending]
    /\ rec = [f \in Family |-> NoReconcile]
    /\ tx = Resting
    /\ runtime = "running"
    /\ stopper = [pc |-> "idle", owed |-> {}, raced |-> FALSE]
    /\ faults = 0

Fault == faults < MaxFaults /\ faults' = faults + 1

-------------------------------------------------------------------------------
(* The disk and the adapters' worker *)

Changes == MapThenSumSet(LAMBDA f : disk[f].src + disk[f].conf + disk[f].members, Family)

\* A source file is written, the family's files or its native config change; the
\* latter two may make its attribution fail.
DiskChanges(f) ==
    /\ Changes < MaxChanges
    /\ \/ disk' = [disk EXCEPT ![f].src = @ + 1]
       \/ \E ok \in BOOLEAN : \/ disk' = [disk EXCEPT ![f].members = @ + 1, ![f].ok = ok]
                              \/ disk' = [disk EXCEPT ![f].conf = @ + 1, ![f].ok = ok]
    /\ UNCHANGED <<seen, adapters, ad, built, error, pend, rec, tx, runtime, stopper, faults>>

\* The process of adapter i begins, reading the sources and the config of that moment.
Started(i) == [ad[i] EXCEPT !.life = "up", !.src = disk[ad[i].family].src, !.conf = disk[ad[i].family].conf]

\* A read, perhaps one whose caller has given up, starts the adapter it was routed to.
AdapterStarts(i) ==
    /\ ad[i].life = "cold" /\ ad[i].stop = "none" /\ i \in {adapters[f] : f \in Family}
    /\ ad' = [ad EXCEPT ![i] = Started(i)]
    /\ UNCHANGED <<disk, seen, adapters, built, error, pend, rec, tx, runtime, stopper, faults>>

AdapterDies(i) ==
    /\ ad[i].life = "up"
    /\ Fault
    /\ ad' = [ad EXCEPT ![i].life = "cold"]
    /\ UNCHANGED <<disk, seen, adapters, built, error, pend, rec, tx, runtime, stopper>>

\* reconcile_watched_files on the worker: the process is started if need be and
\* told; a sealed adapter refuses, and anything else may fail.
Reconciles(f) ==
    /\ rec[f].future = "queued"
    /\ LET i == rec[f].adapter
       IN  \/ /\ ad[i].stop = "none"
              /\ ad' = [ad EXCEPT ![i] = IF @.life = "up" THEN [@ EXCEPT !.src = disk[f].src] ELSE Started(i)]
              /\ rec' = [rec EXCEPT ![f].future = "ok"]
              /\ UNCHANGED faults
           \/ /\ IF ad[i].stop = "none" THEN Fault ELSE UNCHANGED faults
              /\ rec' = [rec EXCEPT ![f].future = "failed"]
              /\ UNCHANGED ad
    /\ UNCHANGED <<disk, seen, adapters, built, error, pend, tx, runtime, stopper>>

\* The adapter's stop on the worker.
Stops(i) ==
    /\ ad[i].stop = "queued"
    /\ \/ ad' = [ad EXCEPT ![i].stop = "ok", ![i].life = "cold"] /\ UNCHANGED faults
       \/ Fault /\ ad' = [ad EXCEPT ![i].stop = "failed"]
    /\ UNCHANGED <<disk, seen, adapters, built, error, pend, rec, tx, runtime, stopper>>

\* A mutant: the failed stop is returned again as well.
Asked_Once(i) == [ad EXCEPT ![i].stop = IF @ = "none" THEN "queued" ELSE @]

\* LanguageAdapter.stop: an unfinished or successful future is returned again.
Asked(i) == [ad EXCEPT ![i].stop = IF @ \in {"none", "failed"} THEN "queued" ELSE @]

-------------------------------------------------------------------------------
(* Settling what earlier scans left: _settle_pending_retirement,                *)
(* _start_pending_stop, _complete_pending_restart                               *)

\* The transaction goes on with the rest of its list.
Continues(pc, failed) == tx' = [tx EXCEPT !.todo = Tail(@), !.pc = pc, !.failed = @ \/ failed]

\* The stop of the replaced or retired adapter is asked for, unless that is under
\* way; the executor may refuse it.
AskPendingStop ==
    /\ tx.pc = "cleanup" /\ tx.todo # <<>>
    /\ LET f == Head(tx.todo)
           p == pend[f]
       IN  /\ p.adapter # 0
           /\ \/ /\ ad' = IF p.asked /\ ad[p.adapter].stop # "failed" THEN ad ELSE Asked(p.adapter)
                 /\ pend' = [pend EXCEPT ![f].asked = TRUE]
                 /\ tx' = [tx EXCEPT !.pc = "await"]
                 /\ UNCHANGED <<error, faults>>
              \/ /\ ~ (p.asked /\ ad[p.adapter].stop # "failed")
                 /\ Fault
                 /\ error' = IF p.kind = "restart" THEN [error EXCEPT ![f] = "unsupported"] ELSE error
                 /\ Continues("cleanup", TRUE)
                 /\ UNCHANGED <<ad, pend>>
    /\ UNCHANGED <<disk, seen, adapters, built, rec, runtime, stopper>>

\* The wait for it fails or times out; the cleanup stays pending.
PendingStopFails ==
    /\ tx.pc = "await"
    /\ LET f == Head(tx.todo)
       IN  /\ ad[pend[f].adapter].stop \in {"queued", "failed"}
           /\ error' = IF pend[f].kind = "retire" THEN error
                       ELSE [error EXCEPT ![f] = IF ad[pend[f].adapter].stop = "queued" THEN "timed_out" ELSE "unsupported"]
           /\ Continues("cleanup", TRUE)
    /\ UNCHANGED <<disk, seen, adapters, ad, built, pend, rec, runtime, stopper, faults>>

\* A mutant: waiting long enough counts as a stop.
StopProven_Waited(f) == tx.pc = "await"

\* The old adapter is known to have stopped.
StopProven(f) == tx.pc = "await" /\ ad[pend[f].adapter].stop = "ok"

CompleteRetirement ==
    /\ tx.todo # <<>>
    /\ LET f == Head(tx.todo)
       IN  /\ pend[f].kind = "retire" /\ StopProven(f)
           /\ pend' = [pend EXCEPT ![f] = NoPending]
    /\ Continues("cleanup", FALSE)
    /\ UNCHANGED <<disk, seen, adapters, ad, built, error, rec, runtime, stopper, faults>>

\* _build_adapter and its publication.
Builds(f) ==
    /\ built' = built + 1
    /\ ad' = [ad EXCEPT ![built + 1] = Cold(f)]
    /\ adapters' = [adapters EXCEPT ![f] = built + 1]

\* A mutant: the runtime's stop is not looked at again.
MayPublish_Always == TRUE

MayPublish == runtime = "running"

\* The replacement is published, unless the runtime is stopping or it cannot be built.
CompleteRestart ==
    /\ tx.todo # <<>>
    /\ LET f == Head(tx.todo)
       IN  /\ pend[f].kind = "restart"
           /\ StopProven(f) \/ (tx.pc = "cleanup" /\ pend[f].adapter = 0)
           /\ \/ /\ ~ MayPublish
                 /\ Continues("cleanup", FALSE)
                 /\ UNCHANGED <<adapters, ad, built, error, pend, faults>>
              \/ /\ MayPublish
                 /\ Builds(f)
                 /\ error' = [error EXCEPT ![f] = "none"]
                 /\ pend' = [pend EXCEPT ![f] = NoPending]
                 /\ Continues("cleanup", FALSE)
                 /\ UNCHANGED faults
              \/ /\ MayPublish
                 /\ Fault
                 /\ error' = [error EXCEPT ![f] = "incompatible"]
                 /\ Continues("cleanup", TRUE)
                 /\ UNCHANGED <<adapters, ad, built, pend>>
    /\ UNCHANGED <<disk, seen, rec, runtime, stopper>>

-------------------------------------------------------------------------------
(* Settling watcher batches: _settle_pending_reconcile *)

\* The batch is looked at: settled, given back for a retry, or submitted again.
SettleReconcile ==
    /\ tx.pc = "settle" /\ tx.todo # <<>>
    /\ LET f == Head(tx.todo)
       IN  \/ /\ rec[f].future = "ok"
              /\ rec' = [rec EXCEPT ![f] = NoReconcile]
              /\ Continues("settle", FALSE)
              /\ UNCHANGED faults
           \/ /\ rec[f].future = "failed"
              /\ rec' = [rec EXCEPT ![f].future = "none"]
              /\ Continues("settle", TRUE)
              /\ UNCHANGED faults
           \/ /\ rec[f].future = "none"
              /\ IF ad[rec[f].adapter].stop # "none" THEN UNCHANGED faults ELSE Fault
              /\ Continues("settle", TRUE)
              /\ UNCHANGED rec
           \/ /\ rec[f].future = "none" /\ ad[rec[f].adapter].stop = "none"
              /\ rec' = [rec EXCEPT ![f].future = "queued"]
              /\ UNCHANGED <<tx, faults>>
    /\ UNCHANGED <<disk, seen, adapters, ad, built, error, pend, runtime, stopper>>

\* The wait for a batch under way times out; it stays pending.
ReconcileTimesOut ==
    /\ tx.pc = "settle" /\ tx.todo # <<>>
    /\ rec[Head(tx.todo)].future = "queued"
    /\ Continues("settle", TRUE)
    /\ UNCHANGED <<disk, seen, adapters, ad, built, error, pend, rec, runtime, stopper, faults>>

-------------------------------------------------------------------------------
(* The transaction *)

Pending == {f \in Family : pend[f].kind # "none"}

\* A mutant: only what is new is delivered.
Unsettled_Forgotten == {}

Unsettled == {f \in Family : rec[f].adapter # 0}

\* A transaction of a running workspace begins with a scan: of the whole root,
\* which first resolves the cleanups, or of one named file outside Git.
Begin ==
    /\ tx.pc = "idle" /\ runtime = "running"
    /\ \/ tx' = [Resting EXCEPT !.pc = "cleanup", !.scope = Family, !.todo = SetToSeq(Pending)]
       \/ \E f \in Family : tx' = [Resting EXCEPT !.pc = "settle", !.scope = {f}, !.todo = SetToSeq(Unsettled)]
    /\ UNCHANGED <<disk, seen, adapters, ad, built, error, pend, rec, runtime, stopper, faults>>

\* retry_pending_restarts has gone through its list, and raises what failed.
CleanupDone ==
    /\ tx.pc = "cleanup" /\ tx.todo = <<>>
    /\ tx' = IF tx.phase = "install" THEN [tx EXCEPT !.pc = "apply"]
             ELSE IF tx.failed THEN Resting
             ELSE [tx EXCEPT !.pc = "settle", !.todo = SetToSeq(Unsettled)]
    /\ UNCHANGED <<disk, seen, adapters, ad, built, error, pend, rec, runtime, stopper, faults>>

\* _settle_pending_reconciles likewise; after the delivery the read is admitted.
SettleDone ==
    /\ tx.pc = "settle" /\ tx.todo = <<>>
    /\ tx' = IF tx.failed THEN Resting ELSE [tx EXCEPT !.pc = IF tx.phase = "deliver" THEN "reading" ELSE "observe"]
    /\ UNCHANGED <<disk, seen, adapters, ad, built, error, pend, rec, runtime, stopper, faults>>

\* What differs from the committed facts: contents, families to attribute again,
\* families whose native config changed.
ChangedFamilies == {f \in tx.scope : disk[f].src # seen[f].src \/ disk[f].members # seen[f].members}

MovedFamilies == {f \in Family : disk[f].conf # seen[f].conf \/ disk[f].members # seen[f].members}

ConfigFamilies == {f \in Family : disk[f].conf # seen[f].conf}

\* _scan_root or _refresh_paths up to the commit of what was observed, which
\* happens before any of it is installed or delivered.
Observe ==
    /\ tx.pc = "observe"
    /\ IF tx.scope = Family
       THEN /\ seen' = disk
            /\ tx' = IF disk = seen THEN [tx EXCEPT !.pc = "reading"]
                     ELSE [tx EXCEPT !.pc = "install", !.changed = ChangedFamilies, !.moved = MovedFamilies, !.forced = ConfigFamilies]
       ELSE LET changed == {f \in tx.scope : disk[f].src # seen[f].src}
            IN  /\ seen' = [f \in Family |-> IF f \in changed THEN [seen[f] EXCEPT !.src = disk[f].src] ELSE seen[f]]
                /\ tx' = IF changed = {} THEN [tx EXCEPT !.pc = "reading"] ELSE [tx EXCEPT !.pc = "apply", !.changed = changed]
    /\ UNCHANGED <<disk, adapters, ad, built, error, pend, rec, runtime, stopper, faults>>

\* A path that cannot be observed safely makes the scan fail before its commit.
ObserveUnsafe ==
    /\ tx.pc = "observe"
    /\ Fault
    /\ tx' = Resting
    /\ UNCHANGED <<disk, seen, adapters, ad, built, error, pend, rec, runtime, stopper>>

\* What install_freshness does with an attributed family again: an unavailable one
\* loses its adapter, one with another config has it replaced; removal from the
\* map and the record of the cleanup are one step under the lock.
Retired == {f \in tx.moved : ~ seen[f].ok}

Restarted == {f \in tx.forced : seen[f].ok}

Removed == {f \in Retired \cup Restarted : adapters[f] # 0}

\* Families that attribute again and have no adapter get one at once.
Gained == {f \in tx.moved \ tx.forced : seen[f].ok /\ adapters[f] = 0}

\* install_freshness under the state lock; `broken` are the adapters whose
\* construction fails.
Install ==
    /\ tx.pc = "install" /\ runtime = "running"
    /\ \E broken \in SUBSET Gained :
         LET fresh == SetToSeq(Gained \ broken)
             number == [f \in Gained \ broken |-> built + CHOOSE i \in 1 .. Len(fresh) : fresh[i] = f]
         IN  /\ faults + Cardinality(broken) <= MaxFaults
             /\ faults' = faults + Cardinality(broken)
             /\ built' = built + Len(fresh)
             /\ ad' = [i \in Id |-> IF \E f \in DOMAIN number : number[f] = i THEN Cold(fresh[i - built]) ELSE ad[i]]
             /\ adapters' = [f \in Family |-> IF f \in DOMAIN number THEN number[f] ELSE IF f \in Removed THEN 0 ELSE adapters[f]]
             /\ error' = [f \in Family |->
                    IF f \in Retired \cup broken THEN "incompatible"
                    ELSE IF f \in Restarted THEN "restarting"
                    ELSE IF f \in tx.moved THEN "none" ELSE error[f]]
    /\ pend' = [f \in Family |->
          IF f \in Restarted THEN [kind |-> "restart", adapter |-> adapters[f], asked |-> FALSE]
          ELSE IF f \in Removed THEN [kind |-> "retire", adapter |-> adapters[f], asked |-> FALSE]
          ELSE pend[f]]
    /\ tx' = [tx EXCEPT !.pc = "cleanup", !.phase = "install", !.todo = SetToSeq(Removed \cup Restarted)]
    /\ UNCHANGED <<disk, seen, rec, runtime, stopper>>

\* A runtime that began to stop refuses the installation: STOPPED.
InstallRefused ==
    /\ tx.pc = "install" /\ runtime # "running"
    /\ tx' = Resting
    /\ UNCHANGED <<disk, seen, adapters, ad, built, error, pend, rec, runtime, stopper, faults>>

\* The families whose adapter must be told: one that runs, or has been replaced.
Deliveries == {f \in tx.changed : adapters[f] # 0 /\ (ad[adapters[f]].life = "up" \/ f \in tx.forced)}

\* _apply_events: ownership of every batch is recorded before the first one is
\* submitted; with a failed installation nobody waits for them.
Apply ==
    /\ tx.pc = "apply"
    /\ IF \E f \in Deliveries : rec[f].adapter # 0
       THEN tx' = Resting /\ UNCHANGED <<rec, faults>>
       ELSE \E refused \in SUBSET Deliveries :
              /\ faults + Cardinality(refused) <= MaxFaults
              /\ faults' = faults + Cardinality(refused)
              /\ rec' = [f \in Family |->
                    IF f \notin Deliveries THEN rec[f]
                    ELSE [adapter |-> adapters[f], future |-> IF f \in refused THEN "none" ELSE "queued"]]
              /\ tx' = IF tx.failed THEN Resting
                       ELSE [tx EXCEPT !.pc = "settle", !.phase = "deliver", !.failed = refused # {},
                                       !.todo = SetToSeq(Deliveries \ refused)]
    /\ UNCHANGED <<disk, seen, adapters, ad, built, error, pend, runtime, stopper>>

\* The admitted operation is over.
Finish ==
    /\ tx.pc = "reading"
    /\ tx' = Resting
    /\ UNCHANGED <<disk, seen, adapters, ad, built, error, pend, rec, runtime, stopper, faults>>

-------------------------------------------------------------------------------
(* WorkspaceRuntime.stop *)

Owned == ({adapters[f] : f \in Family} \cup {pend[f].adapter : f \in Family}) \ {0}

\* The stopping thread marks the runtime and lists what it must stop, in one step.
StopBegins ==
    /\ stopper.pc = "idle" /\ runtime # "stopped"
    /\ runtime' = "stopping"
    /\ stopper' = [pc |-> "close", owed |-> Owned, raced |-> tx.pc # "idle"]
    /\ UNCHANGED <<disk, seen, adapters, ad, built, error, pend, rec, tx, faults>>

\* It waits for the running transaction, queued ones being cancelled, or gives up.
StopCloses ==
    /\ stopper.pc = "close"
    /\ stopper' = [stopper EXCEPT !.pc = IF tx.pc = "idle" THEN "ask" ELSE "idle"]
    /\ UNCHANGED <<disk, seen, adapters, ad, built, error, pend, rec, tx, runtime, faults>>

\* Each stop is asked for; a pending one that the transaction has replaced since
\* the list was made is taken as it is, and the executor may refuse one.
StopAsks ==
    /\ stopper.pc = "ask"
    /\ \E refused \in SUBSET {i \in stopper.owed : ad[i].stop \in {"none", "failed"}} :
         \E kept \in SUBSET {i \in stopper.owed : stopper.raced /\ ad[i].stop = "failed"} :
            /\ faults + Cardinality(refused) <= MaxFaults
            /\ faults' = faults + Cardinality(refused)
            /\ ad' = [i \in Id |-> IF i \in stopper.owed \ (refused \cup kept) THEN Asked(i)[i] ELSE ad[i]]
            /\ stopper' = [stopper EXCEPT !.pc = IF refused = {} THEN "wait" ELSE "idle"]
    /\ UNCHANGED <<disk, seen, adapters, built, error, pend, rec, tx, runtime>>

\* One of them fails or takes too long, or all have stopped and the executor does
\* not close in time: stop raises and may be called again.
StopFails ==
    /\ stopper.pc = "wait"
    /\ IF \E i \in stopper.owed : ad[i].stop # "ok" THEN UNCHANGED faults
       ELSE faults < MaxFaults /\ faults' = faults + 1
    /\ stopper' = [stopper EXCEPT !.pc = "idle"]
    /\ UNCHANGED <<disk, seen, adapters, ad, built, error, pend, rec, tx, runtime>>

\* All have stopped and the executor is closed: the maps are cleared and the
\* runtime is stopped.
StopEnds ==
    /\ stopper.pc = "wait" /\ \A i \in stopper.owed : ad[i].stop = "ok"
    /\ runtime' = "stopped"
    /\ adapters' = [f \in Family |-> 0]
    /\ pend' = [f \in Family |-> NoPending]
    /\ stopper' = [stopper EXCEPT !.pc = "idle"]
    /\ UNCHANGED <<disk, seen, ad, built, error, rec, tx, faults>>

-------------------------------------------------------------------------------
Worker == \/ \E f \in Family : Reconciles(f)
          \/ \E i \in Id : Stops(i)

Transaction ==
    \/ AskPendingStop \/ PendingStopFails \/ CompleteRetirement \/ CompleteRestart \/ CleanupDone
    \/ SettleReconcile \/ ReconcileTimesOut \/ SettleDone
    \/ Observe \/ ObserveUnsafe \/ Install \/ InstallRefused \/ Apply \/ Finish

Stopper == StopCloses \/ StopAsks \/ StopFails \/ StopEnds

Next ==
    \/ Begin \/ Transaction \/ Worker \/ StopBegins \/ Stopper
    \/ \E f \in Family : DiskChanges(f)
    \/ \E i \in Id : AdapterStarts(i) \/ AdapterDies(i)

Spec == Init /\ [][Next]_vars

\* The executors' workers and the stopping thread run; a stop that failed is tried
\* again by the daemon's sweep.  Reads, disks and faults promise nothing.
FairSpec ==
    /\ Spec
    /\ WF_vars(Transaction) /\ WF_vars(Worker) /\ WF_vars(Stopper)
    /\ WF_vars(runtime = "stopping" /\ StopBegins)

-------------------------------------------------------------------------------
(* Properties *)

\* A read is admitted only when every running adapter it can be routed to has read
\* the sources and the native config the scans have committed, also when the scan
\* that committed them failed and this one found nothing new.
AdmittedIsCurrent ==
    tx.pc = "reading" =>
        \A f \in Family : LET i == adapters[f]
                          IN  i # 0 /\ ad[i].life = "up" => ad[i].src >= seen[f].src /\ ad[i].conf >= seen[f].conf

\* A family never has two adapters at work: the next one is built only after the
\* stop of the one before is known to have succeeded.
OneAtWork ==
    \A i, j \in Id : i # j /\ ad[i].life # "unborn" /\ ad[j].life # "unborn" /\ ad[i].family = ad[j].family
                     => ad[i].stop = "ok" \/ ad[j].stop = "ok"

\* Every adapter not known to have stopped is on one of the runtime's lists, so
\* that a stop finds it: "never in an ownerless gap".
NoOwnerlessAdapter == \A i \in Id : ad[i].life # "unborn" /\ ad[i].stop # "ok" => i \in Owned

\* Whatever scans, restarts and retirements overlap: at most one adapter of a family
\* is at work, and whichever is at work is on a list of the runtime.
AdaptersOwned == OneAtWork /\ NoOwnerlessAdapter

\* A stop that has begun comes to its end once it is repeated after failures,
\* whatever cleanups the scans left unfinished.
StopSucceeds == []<>(runtime # "stopping")
===============================================================================

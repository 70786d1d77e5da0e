----------------------------- MODULE CandidateLock -----------------------------
(***************************************************************************)
(* compile_candidate_lock: the one frozen resolution of the candidate      *)
(* backends, kept in an artifact directory as a lock file and a receipt.   *)
(* A call recovers what an interrupted call left, then either accepts the  *)
(* freeze or resolves inside a transaction: a marker records what existed, *)
(* the old files move to rollback names, the resolver writes a new lock,   *)
(* the receipt is published, the marker is removed.                        *)
(*                                                                         *)
(* The file operations of a phase are a queue of single operations, each   *)
(* of which can fail and between any two of which the process can be       *)
(* killed or the machine lose power.                                       *)
(***************************************************************************)
EXTENDS EvaluationHost

CONSTANTS
    Outputs,          \* what the resolver may write: sequences of requirement lines
    CandidateNames    \* the packages a resolution must name

VARIABLES
    store,     \* the artifact directory
    job,       \* one call of compile_candidate_lock per evaluator
    returned,  \* history: the locks calls returned
    survivor   \* a resolver whose caller was killed: "none", "running" or "wrote"


Rollback == [lock |-> "lock.rollback", receipt |-> "receipt.rollback"]
Names == {"lock", "receipt", "lock.rollback", "receipt.rollback", "marker", "requirements", "quarantine"}

NoJob == [stage |-> "idle"]
Critical == {"recover", "begin", "prepare", "resolve", "check", "publish", "commit", "rollback"}
Unchecked == {"waiting", "recover", "begin", "prepare", "resolve", "check"}

-----------------------------------------------------------------------------
\* The resolution a lock file holds: lines [name, pinned, hashes].

WellFormed(line) ==
    /\ line.pinned
    /\ line.hashes # <<>>
    /\ \A i, j \in DOMAIN line.hashes : i # j => line.hashes[i] # line.hashes[j]

Usable(lines) ==
    /\ lines \in Outputs
    /\ lines # <<>>
    /\ \A i \in DOMAIN lines : WellFormed(lines[i])
    /\ \A i, j \in DOMAIN lines : i # j => lines[i].name # lines[j].name
    /\ \A name \in CandidateNames : \E i \in DOMAIN lines : lines[i].name = name

-----------------------------------------------------------------------------
\* Single operations on the artifact directory.

Write(name, data) == [op |-> "write", name |-> name, data |-> data]
Purge(name) == [op |-> "purge", name |-> name]
Rename(from, to) == [op |-> "rename", name |-> from, to |-> to]
Quarantine(name) == Rename(name, "quarantine")
FsyncFile(name) == [op |-> "fsync_file", name |-> name]
Fsync == [op |-> "fsync"]

Effect(dir, o) ==
    CASE o.op = "write" -> Put(dir, o.name, File(o.data))
      [] o.op = "purge" -> Put(dir, o.name, NoFile)
      [] o.op = "rename" -> IF Present(dir.live[o.name])
                            THEN Changed(dir, [dir.live EXCEPT ![o.to] = dir.live[o.name], ![o.name] = NoFile])
                            ELSE dir
      [] o.op = "fsync_file" -> Hardened(dir, o.name)
      [] o.op = "fsync" -> Synced(dir)

BeginOps(marker) ==
    LET aside(e) == IF marker[e] THEN <<Purge(Rollback[e]), Rename(e, Rollback[e]), FsyncFile(Rollback[e])>>
                                 ELSE <<>>
    IN  <<Write("marker", marker), Fsync>> \o aside("lock") \o aside("receipt") \o <<Fsync>>

PrepareOps == <<Write("requirements", "canonical")>>

\* the receipt names the lock; drifted is history (production had changed by then)
PublishOps_Unsynced(data, drifted) == <<Write("receipt", [lock |-> data, drifted |-> drifted])>>
PublishOps(data, drifted) == <<FsyncFile("lock"), Write("receipt", [lock |-> data, drifted |-> drifted])>>

CommitOps == <<Fsync, Purge("marker"), Fsync, Purge(Rollback.lock), Purge(Rollback.receipt)>>

RollbackOps_MarkerFirst(marker, image) ==
    LET restore(e) == IF ~marker[e] THEN <<Quarantine(e), Quarantine(Rollback[e])>>
                      ELSE IF Present(image[Rollback[e]]) THEN <<Quarantine(e), Rename(Rollback[e], e)>>
                      ELSE <<>>
    IN  <<Purge("marker"), Fsync>> \o restore("lock") \o restore("receipt") \o <<Fsync, Purge("quarantine")>>
RollbackOps(marker, image) ==
    LET restore(e) == IF ~marker[e] THEN <<Quarantine(e), Quarantine(Rollback[e])>>
                      ELSE IF Present(image[Rollback[e]]) THEN <<Quarantine(e), Rename(Rollback[e], e)>>
                      ELSE <<>>
    IN  restore("lock") \o restore("receipt") \o <<Fsync, Purge("marker"), Fsync, Purge("quarantine")>>

RecoverOps(image) ==
    <<Purge("quarantine")>> \o
    (IF Present(image.marker) THEN RollbackOps(image.marker.data, image)
                              ELSE <<Purge(Rollback.lock), Purge(Rollback.receipt)>>)

-----------------------------------------------------------------------------
\* The call.

LockInit ==
    /\ store = Directory([n \in Names |-> NoFile])
    /\ job = [e \in Evaluators |-> NoJob]
    /\ returned = {}
    /\ survivor = "none"

Enter(e, stage, todo) == job' = [job EXCEPT ![e].stage = stage, ![e].todo = todo]
Finish(e, lock) == job' = [job EXCEPT ![e] = NoJob] /\ returned' = returned \cup {lock}
Abandon(e) == job' = [job EXCEPT ![e] = NoJob] /\ UNCHANGED returned
RollBack(e) ==
    /\ Enter(e, "rollback", RollbackOps([x \in {"lock", "receipt"} |-> Present(job[e].frozen[x])], store.live))
    /\ UNCHANGED returned

Compile(e, recompile) ==
    /\ job[e].stage = "idle"
    /\ job' = [job EXCEPT ![e] = [stage |-> "waiting", todo |-> <<>>, recompile |-> recompile, before |-> production,
                                  frozen |-> [lock |-> NoFile, receipt |-> NoFile], data |-> <<>>, drifted |-> FALSE]]
    /\ UNCHANGED <<store, returned, survivor>>

\* the flock is free once its holder returned, failed or died
Acquire(e) ==
    /\ job[e].stage = "waiting"
    /\ \A other \in Evaluators : job[other].stage \notin Critical
    /\ Enter(e, "recover", RecoverOps(store.live))
    /\ UNCHANGED <<store, returned>>

\* the phase deadline passes while another caller holds the lock
WaitExpires(e) ==
    /\ job[e].stage = "waiting"
    /\ \E other \in Evaluators : job[other].stage \in Critical
    /\ Abandon(e)
    /\ UNCHANGED store

Perform(e) ==
    /\ job[e].stage \in Critical
    /\ job[e].todo # <<>>
    /\ store' = Effect(store, Head(job[e].todo))
    /\ job' = [job EXCEPT ![e].todo = Tail(@)]
    /\ UNCHANGED returned

\* an operation fails: only inside the resolution proper is there a handler that rolls back
PerformFails(e) ==
    /\ job[e].stage \in Critical
    /\ job[e].todo # <<>>
    /\ IF job[e].stage \in {"prepare", "publish"} THEN RollBack(e) ELSE Abandon(e)
    /\ UNCHANGED store

AcceptsFrozen(image) ==
    /\ Present(image.requirements)
    /\ Present(image.receipt)
    /\ Usable(image.lock.data)
    /\ image.receipt.data.lock = image.lock.data

Recovered(e) ==
    /\ job[e].stage = "recover" /\ job[e].todo = <<>>
    /\ LET image == store.live IN
       IF Present(image.lock) /\ ~job[e].recompile
       THEN IF AcceptsFrozen(image) /\ production = job[e].before
            THEN Finish(e, image.lock.data) ELSE Abandon(e)
       ELSE /\ job' = [job EXCEPT ![e].stage = "begin",
                                  ![e].todo = BeginOps([x \in {"lock", "receipt"} |-> Present(image[x])]),
                                  ![e].frozen = [lock |-> image.lock, receipt |-> image.receipt]]
            /\ UNCHANGED returned
    /\ UNCHANGED store

Begun(e) ==
    /\ job[e].stage = "begin" /\ job[e].todo = <<>>
    /\ Enter(e, "prepare", PrepareOps)
    /\ UNCHANGED <<store, returned>>

\* the resolver: writes a lock or not, exits well or not (a timeout kills its group)
Resolve(e) ==
    /\ job[e].stage = "prepare" /\ job[e].todo = <<>>
    /\ \E lines \in Outputs : store' \in {store, Put(store, "lock", SoftFile(lines))}
    /\ Enter(e, "resolve", <<>>)
    /\ UNCHANGED returned

ResolverExits(e) ==
    /\ job[e].stage = "resolve"
    /\ \/ Enter(e, "check", <<>>) /\ UNCHANGED returned
       \/ RollBack(e)
    /\ UNCHANGED store

Publishable_Unbracketed(e, node) ==
    /\ Present(node)
    /\ Present(job[e].frozen.lock) => node.data = job[e].frozen.lock.data
    /\ Usable(node.data)
Publishable(e, node) ==
    /\ Present(node)
    /\ Present(job[e].frozen.lock) => node.data = job[e].frozen.lock.data
    /\ Usable(node.data)
    /\ production = job[e].before

Check(e) ==
    /\ job[e].stage = "check"
    /\ LET node == store.live.lock IN
       IF Publishable(e, node)
       THEN /\ job' = [job EXCEPT ![e].stage = "publish", ![e].data = node.data,
                                  ![e].todo = PublishOps(node.data, job[e].drifted)]
            /\ UNCHANGED returned
       ELSE RollBack(e)
    /\ UNCHANGED store

Published(e) ==
    /\ job[e].stage = "publish" /\ job[e].todo = <<>>
    /\ Enter(e, "commit", CommitOps)
    /\ UNCHANGED <<store, returned>>

Committed(e) ==
    /\ job[e].stage = "commit" /\ job[e].todo = <<>>
    /\ Finish(e, job[e].data)
    /\ UNCHANGED store

RolledBack(e) ==
    /\ job[e].stage = "rollback" /\ job[e].todo = <<>>
    /\ Abandon(e)
    /\ UNCHANGED store

LockStep(e) ==
    \/ Acquire(e) \/ WaitExpires(e) \/ Perform(e) \/ Recovered(e) \/ Begun(e) \/ Resolve(e)
    \/ ResolverExits(e) \/ Check(e) \/ Published(e) \/ Committed(e) \/ RolledBack(e)

\* a killed caller leaves its resolver running, in a session of its own
Outlived(e) ==
    survivor' = IF survivor = "none" /\ job[e].stage = "prepare" /\ job[e].todo = <<>> THEN "running" ELSE survivor

SurvivorWrites ==
    /\ survivor = "running"
    /\ \E lines \in Outputs : store' = Put(store, "lock", SoftFile(lines))
    /\ survivor' = "wrote"
    /\ UNCHANGED <<job, returned>>

\* history: production changed under a call that had not yet compared it
Drifted == job' = [e \in Evaluators |->
    IF job[e].stage \in Unchecked THEN [job[e] EXCEPT !.drifted = TRUE] ELSE job[e]]

-----------------------------------------------------------------------------
\* Properties.

\* Every call that returns, in whatever order callers crash, fail and retry, returns the
\* same resolution: "resolving at most once per artifact root".  A power loss is covered
\* when nothing else went wrong before it: a call that accepts the freeze of a call killed
\* inside its commit does not fsync the directory, and a power loss then undoes the commit.
FrozenOnce == SingleFailure /\ survivor # "wrote" => Cardinality(returned) <= 1

\* Once recovery has run, the directory holds a complete freeze or none: no later call can
\* meet a lock without the receipt that vouches for it.
CompleteAfterRecovery ==
    \A e \in Evaluators : job[e].stage = "recover" /\ job[e].todo = <<>> =>
        LET image == store.live IN
        \/ ~Present(image.lock) /\ ~Present(image.receipt)
        \/ Present(image.lock) /\ AcceptsFrozen(image)

\* So it is after every interruption, unless a resolver outlived its caller and wrote.
RecoveryComplete == survivor # "wrote" => CompleteAfterRecovery

\* A freeze a later call may reuse never comes from a resolution during which production
\* changed.
NoDriftedFreeze ==
    LET image == store.live IN
    ~Present(image.marker) /\ Present(image.lock) /\ Present(image.receipt) => ~image.receipt.data.drifted
=============================================================================

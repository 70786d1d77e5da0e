------------------------------ MODULE Startup ------------------------------
(***************************************************************************)
(* How connectors find or start the one daemon of a build (connect_or_start *)
(* in daemon/server.py, RuntimeDiscoveryProvider in connector.py) and what  *)
(* a daemon process does with the runtime files from its first to its last  *)
(* step (_run_daemon in cli.py, runtime_files.py).                          *)
(*                                                                         *)
(* Processes share nothing but files: the startup lock, the nonce, the      *)
(* bearer and the discovery file.  Each file is replaced or unlinked in one *)
(* step, but two files are always read in two.  A daemon is its number in   *)
(* the order of spawning; a file holds the number of the daemon it is for,  *)
(* 0 when it does not exist.                                                *)
(***************************************************************************)
EXTENDS Naturals, FiniteSets

CONSTANTS
    Conn,        \* connector processes
    None,
    MaxDaemons,  \* bound on daemons spawned
    MaxFaults    \* bound on crashes, early deadlines and unanswered health checks

ASSUME BoundsAssumption == MaxDaemons \in Nat \ {0} /\ MaxFaults \in Nat /\ None \notin Conn

Daemon == 1..MaxDaemons

VARIABLES
    lock,       \* the connector that holds startup.lock
    nonce, discovery, bearer,  \* the files
    daemon,     \* where each daemon process is in _run_daemon
    leases,     \* the connectors a daemon has granted a lease it has not ended
    conn,       \* where each connector is, and its local variables
    spawned, faults

files == <<nonce, discovery, bearer>>
vars == <<lock, files, daemon, leases, conn, spawned, faults>>

ConnPC == {"idle", "wait", "read", "read2", "health", "spawn", "reap",
           "find", "find2", "open", "leased", "failed", "left", "dead"}

DaemonPC == {"unborn", "starting", "matched", "authorised", "cleared", "bound",
             "published", "leaving", "closing", "owner", "owner2", "gone"}

\* disc, bear: the pair read; mine: the daemon this connector spawned in the
\* running attempt; held: the daemon of its installed lease; inner: the running
\* attempt was made by discover().
Local == [pc: ConnPC, disc: 0..MaxDaemons, bear: 0..MaxDaemons, mine: 0..MaxDaemons,
          held: 0..MaxDaemons, inner: BOOLEAN]

Fresh == [pc |-> "idle", disc |-> 0, bear |-> 0, mine |-> 0, held |-> 0, inner |-> FALSE]

TypeOK ==
    /\ lock \in Conn \cup {None}
    /\ {nonce, discovery, bearer} \subseteq 0..MaxDaemons
    /\ daemon \in [Daemon -> DaemonPC]
    /\ leases \in [Daemon -> SUBSET Conn]
    /\ conn \in [Conn -> Local]
    /\ spawned \in 0..MaxDaemons /\ faults \in 0..MaxFaults

Init ==
    /\ lock = None
    /\ nonce = 0 /\ discovery = 0 /\ bearer = 0
    /\ daemon = [d \in Daemon |-> "unborn"]
    /\ leases = [d \in Daemon |-> {}]
    /\ conn = [c \in Conn |-> Fresh]
    /\ spawned = 0 /\ faults = 0

Live(d) == daemon[d] \notin {"unborn", "gone"}
Up(d) == daemon[d] \in {"published", "leaving"}

\* A GET of /health, or the first calls of an MCP session: the endpoint is the
\* one of disc, the secret the one of bear.
Authentic(disc, bear) == Up(disc) /\ bear = disc

Fault == faults < MaxFaults /\ faults' = faults + 1
Move(c, pc) == conn' = [conn EXCEPT ![c].pc = pc, ![c].disc = 0, ![c].bear = 0]
-----------------------------------------------------------------------------
(* connect_or_start, under the startup lock.                               *)

Start(c) ==
    /\ conn[c].pc = "idle"
    /\ Move(c, "wait")
    /\ UNCHANGED <<lock, files, daemon, leases, spawned, faults>>

LockFree_Unchecked == TRUE
LockFree == lock = None

TakeLock(c) ==
    /\ conn[c].pc = "wait" /\ LockFree
    /\ lock' = c
    /\ conn' = [conn EXCEPT ![c].pc = "read", ![c].mine = 0]
    /\ UNCHANGED <<files, daemon, leases, spawned, faults>>

LockTimeout(c) ==
    /\ conn[c].pc = "wait" /\ lock # None
    /\ conn' = [conn EXCEPT ![c].pc = "failed", ![c].mine = 0]
    /\ UNCHANGED <<lock, files, daemon, leases, spawned, faults>>

\* No healthy candidate: spawn once, then poll.
NoCandidate(c) == Move(c, IF conn[c].mine = 0 THEN "spawn" ELSE "read")

ReadDiscovery(c) ==
    /\ conn[c].pc = "read"
    /\ IF discovery # 0 /\ Live(discovery)
       THEN conn' = [conn EXCEPT ![c].pc = "read2", ![c].disc = discovery]
       ELSE NoCandidate(c)
    /\ UNCHANGED <<lock, files, daemon, leases, spawned, faults>>

ReadBearer(c) ==
    /\ conn[c].pc = "read2"
    /\ IF bearer # 0
       THEN conn' = [conn EXCEPT ![c].pc = "health", ![c].bear = bearer]
       ELSE NoCandidate(c)
    /\ UNCHANGED <<lock, files, daemon, leases, spawned, faults>>

\* The lock is released with the return of the candidate; the pair is read
\* again by discover.
Healthy(c) ==
    /\ conn[c].pc = "health" /\ Authentic(conn[c].disc, conn[c].bear)
    /\ lock' = None
    /\ conn' = [conn EXCEPT ![c].pc = "find", ![c].disc = 0, ![c].bear = 0, ![c].mine = 0]
    /\ UNCHANGED <<files, daemon, leases, spawned, faults>>

Unhealthy(c) ==
    /\ conn[c].pc = "health"
    /\ NoCandidate(c)
    /\ IF Authentic(conn[c].disc, conn[c].bear) THEN Fault ELSE UNCHANGED faults
    /\ UNCHANGED <<lock, files, daemon, leases, spawned>>

Spawn(c) ==
    /\ conn[c].pc = "spawn" /\ spawned < MaxDaemons
    /\ spawned' = spawned + 1
    /\ nonce' = spawned'
    /\ daemon' = [daemon EXCEPT ![spawned'] = "starting"]
    /\ conn' = [conn EXCEPT ![c].pc = "read", ![c].mine = spawned']
    /\ UNCHANGED <<lock, discovery, bearer, leases, faults>>

\* The spawned daemon may still answer a later poll.
Promising(d) ==
    \/ daemon[d] \in {"starting", "matched", "authorised", "cleared", "bound"}
    \/ daemon[d] = "published" /\ discovery = d /\ bearer = d

\* terminate_process_tree_with_kill_fallback sends SIGTERM first: uvicorn turns
\* it into an orderly exit, a daemon that does not serve yet dies of it.
Terminated(d) ==
    [daemon EXCEPT ![d] = IF Up(d) THEN "closing"
                          ELSE IF @ \in {"closing", "owner", "owner2"} THEN @ ELSE "gone"]

Deadline(c) ==
    /\ conn[c].pc = "read" /\ conn[c].mine # 0
    /\ Move(c, "reap")
    /\ daemon' = Terminated(conn[c].mine)
    /\ UNCHANGED <<lock, files, leases, spawned>>

DeadlineEarly(c) == Deadline(c) /\ Promising(conn[c].mine) /\ Fault
DeadlineDue(c) == Deadline(c) /\ ~Promising(conn[c].mine) /\ UNCHANGED faults

\* The kill after the grace; the exception leaves the lock's context.
Killed_TerminatedOnly(d) == daemon
Killed(d) == [daemon EXCEPT ![d] = "gone"]

ReleasedLock_Kept(c) == c
ReleasedLock(c) == None

Reap(c) ==
    /\ conn[c].pc = "reap"
    /\ daemon' = Killed(conn[c].mine)
    /\ leases' = [leases EXCEPT ![conn[c].mine] = {}]
    /\ lock' = ReleasedLock(c)
    /\ Move(c, "failed")
    /\ UNCHANGED <<files, spawned, faults>>
-----------------------------------------------------------------------------
(* discover() and the session of a connector, outside the lock.            *)

\* A missing or stale file: connect-or-start once, then give up.
NotFound(c) ==
    IF conn[c].inner THEN Move(c, "failed")
    ELSE conn' = [conn EXCEPT ![c].pc = "wait", ![c].inner = TRUE]

Find(c) ==
    /\ conn[c].pc = "find"
    /\ IF discovery # 0 /\ Live(discovery)
       THEN conn' = [conn EXCEPT ![c].pc = "find2", ![c].disc = discovery]
       ELSE NotFound(c)
    /\ UNCHANGED <<lock, files, daemon, leases, spawned, faults>>

FindBearer(c) ==
    /\ conn[c].pc = "find2"
    /\ IF bearer # 0
       THEN conn' = [conn EXCEPT ![c].pc = "open", ![c].bear = bearer]
       ELSE NotFound(c)
    /\ UNCHANGED <<lock, files, daemon, leases, spawned, faults>>

\* The old lease, if any, is released once the new session is installed.
Open(c) ==
    /\ conn[c].pc = "open"
    /\ IF Authentic(conn[c].disc, conn[c].bear)
       THEN /\ leases' = [d \in Daemon |-> IF d = conn[c].disc THEN leases[d] \cup {c}
                                           ELSE leases[d] \ {c}]
            /\ conn' = [conn EXCEPT ![c] = [Fresh EXCEPT !.pc = "leased", !.held = conn[c].disc]]
       ELSE Move(c, "failed") /\ UNCHANGED leases
    /\ UNCHANGED <<lock, files, daemon, spawned, faults>>

\* A call or a heartbeat finds the daemon silent or the files changed.
Lost(c) ==
    /\ conn[c].pc = "leased"
    /\ ~(Up(conn[c].held) /\ discovery = conn[c].held /\ bearer = conn[c].held)
    /\ Move(c, "find")
    /\ UNCHANGED <<lock, files, daemon, leases, spawned, faults>>

\* The next heartbeat tries again; a client starts a connector again that never
\* had a session.
Retry(c) ==
    /\ conn[c].pc = "failed"
    /\ conn' = [conn EXCEPT ![c] = [Fresh EXCEPT !.pc = IF conn[c].held = 0 THEN "wait" ELSE "find",
                                                !.held = conn[c].held]]
    /\ UNCHANGED <<lock, files, daemon, leases, spawned, faults>>

Close(c) ==
    /\ conn[c].pc = "leased"
    /\ conn' = [conn EXCEPT ![c] = [Fresh EXCEPT !.pc = "left"]]
    /\ leases' = [leases EXCEPT ![conn[c].held] = @ \ {c}]
    /\ UNCHANGED <<lock, files, daemon, spawned, faults>>

\* The kernel drops the lock of a dead process; a daemon it spawned lives on.
ConnectorDies(c) ==
    /\ conn[c].pc \notin {"idle", "left", "dead"}
    /\ Fault
    /\ conn' = [conn EXCEPT ![c] = [Fresh EXCEPT !.pc = "dead"]]
    /\ lock' = IF lock = c THEN None ELSE lock
    /\ UNCHANGED <<files, daemon, leases, spawned>>
-----------------------------------------------------------------------------
(* _run_daemon.                                                            *)

Step(d, from, to) ==
    /\ daemon[d] = from
    /\ daemon' = [daemon EXCEPT ![d] = to]
    /\ UNCHANGED <<lock, conn, spawned, faults>>

MatchNonce(d) ==
    /\ Step(d, "starting", IF nonce = d THEN "matched" ELSE "gone")
    /\ UNCHANGED <<files, leases>>

\* The nonce is unlinked by name: one written since the comparison goes too.
ConsumeNonce(d) ==
    /\ Step(d, "matched", IF nonce # 0 THEN "authorised" ELSE "gone")
    /\ nonce' = 0
    /\ UNCHANGED <<discovery, bearer, leases>>

RemoveStaleDiscovery(d) ==
    /\ Step(d, "authorised", "cleared")
    /\ discovery' = 0
    /\ UNCHANGED <<nonce, bearer, leases>>

WriteBearer(d) ==
    /\ Step(d, "cleared", "bound")
    /\ bearer' = d
    /\ UNCHANGED <<nonce, discovery, leases>>

\* Only after the server has started.
Publish(d) ==
    /\ Step(d, "bound", "published")
    /\ discovery' = d
    /\ UNCHANGED <<nonce, bearer, leases>>

MayLeave_Published(d) == leases[d] = {} /\ discovery = d
MayLeave(d) == leases[d] = {}

\* The sweep has seen the daemon idle for long enough; the server still answers
\* until it notices should_exit.
IdleVerdict(d) == MayLeave(d) /\ Step(d, "published", "leaving") /\ UNCHANGED <<files, leases>>

CloseServer(d) == Step(d, "leaving", "closing") /\ UNCHANGED <<files, leases>>

CheckOwner(d) ==
    /\ Step(d, "closing", IF discovery = d THEN "owner" ELSE "gone")
    /\ leases' = [leases EXCEPT ![d] = {}]
    /\ UNCHANGED files

UnlinkDiscovery(d) ==
    /\ Step(d, "owner", "owner2")
    /\ discovery' = 0
    /\ UNCHANGED <<nonce, bearer, leases>>

\* stop_all follows; nothing else sees it.
UnlinkBearer(d) ==
    /\ Step(d, "owner2", "gone")
    /\ bearer' = 0
    /\ UNCHANGED <<nonce, discovery, leases>>

DaemonDies(d) ==
    /\ Live(d) /\ Fault
    /\ daemon' = [daemon EXCEPT ![d] = "gone"]
    /\ leases' = [leases EXCEPT ![d] = {}]
    /\ UNCHANGED <<lock, files, conn, spawned>>

\* The daemon ends a lease that is not renewed any more.
Expire(d, c) ==
    /\ Up(d) /\ c \in leases[d]
    /\ ~(conn[c].pc = "leased" /\ conn[c].held = d)
    /\ leases' = [leases EXCEPT ![d] = @ \ {c}]
    /\ UNCHANGED <<lock, files, daemon, conn, spawned, faults>>
-----------------------------------------------------------------------------
Attempt(c) ==
    \/ TakeLock(c) \/ ReadDiscovery(c) \/ ReadBearer(c) \/ Healthy(c)
    \/ conn[c].pc = "health" /\ ~Authentic(conn[c].disc, conn[c].bear) /\ Unhealthy(c)
    \/ Spawn(c) \/ Reap(c) \/ Find(c) \/ FindBearer(c) \/ Open(c) \/ Lost(c) \/ Retry(c)

Run(d) ==
    \/ MatchNonce(d) \/ ConsumeNonce(d) \/ RemoveStaleDiscovery(d) \/ WriteBearer(d)
    \/ Publish(d) \/ IdleVerdict(d) \/ CloseServer(d) \/ CheckOwner(d)
    \/ UnlinkDiscovery(d) \/ UnlinkBearer(d)

Next ==
    \/ \E c \in Conn :
        \/ Start(c) \/ TakeLock(c) \/ LockTimeout(c) \/ ReadDiscovery(c) \/ ReadBearer(c)
        \/ Healthy(c) \/ Unhealthy(c) \/ Spawn(c) \/ DeadlineEarly(c) \/ DeadlineDue(c)
        \/ Reap(c) \/ Find(c) \/ FindBearer(c) \/ Open(c) \/ Lost(c) \/ Retry(c)
        \/ Close(c) \/ ConnectorDies(c)
    \/ \E d \in Daemon : Run(d) \/ DaemonDies(d) \/ \E c \in Conn : Expire(d, c)

Spec == Init /\ [][Next]_vars

\* Running processes take their next step; the deadline of a hopeless poll comes;
\* the daemon's sweep runs for ever.
Fairness ==
    /\ \A c \in Conn : WF_vars(Attempt(c)) /\ WF_vars(DeadlineDue(c))
    /\ \A d \in Daemon : WF_vars(Run(d)) /\ \A c \in Conn : WF_vars(Expire(d, c))

FairSpec == Spec /\ Fairness
-----------------------------------------------------------------------------
(* Properties.                                                             *)

\* However many connectors find no daemon at once, the startup lock lets only
\* one of them start it: unless a process died, a deadline came early, a health
\* check went unanswered or a daemon left, no second daemon is spawned.
SingleStart ==
    (faults = 0 /\ \A d \in Daemon : daemon[d] \notin {"leaving", "closing", "owner", "owner2", "gone"})
    => spawned <= 1

\* A startup attempt that reports failure has reclaimed the process it spawned:
\* that daemon cannot publish itself later, behind a successor.
FailedStartLeavesNothing ==
    \A c \in Conn : conn[c].pc = "failed" /\ conn[c].mine # 0 => daemon[conn[c].mine] = "gone"

\* The startup lock serialises starts, and what a failed one leaves is nothing.
StartsOne == SingleStart /\ FailedStartLeavesNothing

\* The bound on daemons stops the model, not the code.  With two daemons it
\* excuses every run in which a leaving daemon unlinks the files of its successor
\* and a connector then needs a third.
OutOfDaemons == spawned = MaxDaemons /\ \E c \in Conn : conn[c].pc = "spawn"

\* Whatever crashes, a connector that keeps trying gets a lease of a daemon that
\* answers, or finds the model out of daemons.
Attaches ==
    \A c \in Conn :
        []<>(\/ conn[c].pc \in {"idle", "left", "dead"}
             \/ conn[c].pc = "leased" /\ Up(conn[c].held)
             \/ OutOfDaemons)

\* A daemon that is not the published one, because a successor replaced it or
\* because its files were removed, does not stay for ever once its leases end.
OrphanRetires ==
    \A d \in Daemon : []<>(~Live(d) \/ discovery = d \/ leases[d] # {})
=============================================================================

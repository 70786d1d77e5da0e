--------------------------- MODULE StartupProofs ---------------------------
(***************************************************************************)
(* StartsOne of Startup, for every number of connectors and daemons.       *)
(*                                                                         *)
(* StartsOne is not inductive: that a second connector does not spawn      *)
(* follows from what it is going to read.  The invariant says who is       *)
(* inside the startup lock, which daemon a connector counts as its own,    *)
(* and, for a system in which nothing has failed and no daemon has left,   *)
(* that the only daemon there is either has published both of its files    *)
(* or still has its starter waiting for it inside the lock.                *)
(***************************************************************************)
EXTENDS Startup, TLAPS

USE Zenon  \* the default; SMT is named where it is needed

\* The states of a daemon that has begun to leave.
Departed == {"leaving", "closing", "owner", "owner2", "gone"}

\* Nothing has failed and no daemon has begun to leave.
Quiet == faults = 0 /\ \A d \in Daemon : daemon[d] \notin Departed

\* A connector with local variables r is between the acquisition of startup.lock and
\* its release.
Inside(r) == r.pc \in {"read", "read2", "health", "spawn", "reap"}

\* startup.lock is held by the connector inside, and by no other.
Exclusive ==
    /\ \A c \in Conn : Inside(conn[c]) => lock = c
    /\ lock # None => Inside(conn[lock])

\* Daemons are numbered in the order of spawning.
Numbered == \A d \in Daemon : d > spawned <=> daemon[d] = "unborn"

\* What a connector knows of the daemon it spawned, and of the one it has read.
Owned(r) ==
    /\ r.pc \notin {"read", "read2", "health", "reap", "failed"} => r.mine = 0
    /\ r.pc = "reap" => r.mine # 0
    /\ r.mine <= spawned
    /\ r.pc \in {"read2", "health", "find2", "open"} => r.disc \in Daemon
    /\ r.pc = "failed" /\ r.mine # 0 => daemon[r.mine] = "gone"

\* The files of the only daemon there is.
Files ==
    /\ daemon[1] \in {"bound", "published"} => bearer = 1
    /\ daemon[1] = "published" => discovery = 1

\* A connector inside the lock that has spawned nothing is on its way to daemon 1.
Finding(r) ==
    Inside(r) /\ r.mine = 0 =>
        /\ daemon[1] = "published"
        /\ r.pc # "spawn"
        /\ r.pc \in {"read2", "health"} => r.disc = 1
        /\ r.pc = "health" => r.bear = 1

\* Somebody who spawned daemon 1 is inside the lock.
Awaited == lock # None /\ conn[lock].mine = 1

\* No second daemon is spawned; the first is awaited inside the lock until it is
\* published, and whoever enters the lock after that finds it.
Served ==
    /\ spawned <= 1
    /\ spawned = 1 => /\ Files
                      /\ daemon[1] = "published" \/ Awaited
                      /\ \A c \in Conn : Finding(conn[c])

Inv ==
    /\ TypeOK
    /\ Exclusive
    /\ Numbered
    /\ \A c \in Conn : Owned(conn[c])
    /\ Quiet => Served
-----------------------------------------------------------------------------
(* Steps by what they change.                                              *)

\* Connector c goes on with the local variables r, and takes or drops the lock as r.pc
\* says; if nothing fails, it finds daemon 1 once there is one, and does not leave the
\* lock before that daemon is published.
ConnectorMoves(c, r) ==
    /\ conn' = [conn EXCEPT ![c] = r]
    /\ UNCHANGED <<files, daemon, spawned>>
    /\ leases' \in [Daemon -> SUBSET Conn]
    /\ faults' \in faults..MaxFaults
    /\ IF Inside(r) THEN lock \in {None, c} /\ lock' = c
       ELSE lock' = IF lock = c THEN None ELSE lock
    /\ Owned(r)
    /\ faults' = 0 /\ Quiet /\ spawned = 1 =>
        /\ Finding(r)
        /\ conn[c].mine = 1 /\ Inside(conn[c]) /\ ~(Inside(r) /\ r.mine = 1) => daemon[1] = "published"

\* Such a step keeps the invariant: nothing that has failed or left comes back.
LEMMA ConnectorMovesInv ==
    ASSUME Inv, NEW c \in Conn, NEW r \in Local, ConnectorMoves(c, r)
    PROVE  Inv'
<1>1. TypeOK'
  BY SMT DEF Inv, TypeOK, ConnectorMoves, files
<1>2. conn'[c] = r /\ \A b \in Conn \ {c} : conn'[b] = conn[b]
  BY DEF Inv, TypeOK, ConnectorMoves
<1>3. Exclusive'
  BY SMT, <1>2, BoundsAssumption DEF Inv, TypeOK, Exclusive, ConnectorMoves
<1>4. Numbered'
  BY DEF Inv, Numbered, ConnectorMoves
<1>5. \A b \in Conn : Owned(conn[b])'
  BY <1>2 DEF Inv, Owned, ConnectorMoves
<1>6. ASSUME Quiet' PROVE Served'
  <2>1. Quiet /\ faults' = 0
    BY SMT, <1>6 DEF Quiet, ConnectorMoves, Inv, TypeOK
  <2>2. Served
    BY <2>1 DEF Inv
  <2>3. spawned' = spawned /\ daemon' = daemon /\ (Files => Files')
    BY DEF ConnectorMoves, files, Files
  <2>4. ASSUME spawned = 1 PROVE \A b \in Conn : Finding(conn[b])'
    BY SMT, <1>2, <2>1, <2>2, <2>3, <2>4 DEF Served, Finding, ConnectorMoves
  <2>5. ASSUME spawned = 1, daemon[1] # "published" PROVE Awaited'
    <3>1. lock # None /\ conn[lock].mine = 1
      BY <2>2, <2>5 DEF Served, Awaited
    <3>2. CASE lock = c
      BY <1>2, <2>1, <2>5, <3>1, <3>2, BoundsAssumption DEF ConnectorMoves, Inv, Exclusive, Awaited
    <3>3. CASE lock # c
      BY <1>2, <3>1, <3>3, BoundsAssumption DEF ConnectorMoves, Inv, Exclusive, TypeOK, Awaited
    <3>. QED  BY <3>2, <3>3
  <2>. QED  BY <2>2, <2>3, <2>4, <2>5 DEF Served
<1>. QED  BY <1>1, <1>3, <1>4, <1>5, <1>6 DEF Inv

\* Daemon d goes on to state "to" and changes files; if nothing fails and it does not
\* leave, its files are in place once it is published.
DaemonMoves(d, to) ==
    /\ daemon' = [daemon EXCEPT ![d] = to]
    /\ daemon[d] # "unborn" /\ to \in DaemonPC \ {"unborn"}
    /\ daemon[d] \in Departed => to \in Departed
    /\ daemon[d] = "gone" => to = "gone"
    /\ UNCHANGED <<lock, conn, spawned>>
    /\ {nonce', discovery', bearer'} \subseteq 0..MaxDaemons
    /\ leases' \in [Daemon -> SUBSET Conn]
    /\ faults' \in faults..MaxFaults
    /\ to \notin Departed /\ d = 1 /\ Files =>
        Files' /\ (daemon[1] = "published" => to = "published")

\* Such a step keeps the invariant.
LEMMA DaemonMovesInv ==
    ASSUME Inv, NEW d \in Daemon, NEW to, DaemonMoves(d, to)
    PROVE  Inv'
<1>1. TypeOK'
  BY SMT DEF Inv, TypeOK, DaemonMoves
<1>2. daemon'[d] = to /\ \A e \in Daemon \ {d} : daemon'[e] = daemon[e]
  BY DEF Inv, TypeOK, DaemonMoves
<1>3. Exclusive'
  BY DEF Inv, Exclusive, DaemonMoves
<1>4. Numbered'
  BY <1>2 DEF Inv, Numbered, DaemonMoves
<1>5. ASSUME NEW c \in Conn PROVE Owned(conn[c])'
  <2>1. conn'[c] = conn[c] /\ spawned' = spawned /\ Owned(conn[c])
    BY DEF Inv, DaemonMoves
  <2>2. conn[c].mine \in 0..MaxDaemons
    BY DEF Inv, TypeOK, Local
  <2>3. \A e \in Daemon : daemon[e] = "gone" => daemon'[e] = "gone"
    BY <1>2 DEF DaemonMoves
  <2>4. conn[c].mine # 0 => conn[c].mine \in Daemon
    BY <2>2, BoundsAssumption, SMT DEF Daemon
  <2>. QED  BY <2>1, <2>3, <2>4 DEF Owned
<1>6. ASSUME Quiet' PROVE Served'
  <2>1. Quiet /\ to \notin Departed
    BY SMT, <1>2, <1>6 DEF Quiet, DaemonMoves, Inv, TypeOK
  <2>2. Served /\ spawned' = spawned /\ conn' = conn /\ lock' = lock
    BY <2>1 DEF Inv, DaemonMoves
  <2>3. ASSUME spawned = 1 PROVE d = 1
    BY <2>3, BoundsAssumption, SMT DEF Inv, Numbered, DaemonMoves, Daemon
  <2>4. ASSUME spawned = 1
        PROVE  /\ Files' /\ (daemon[1] = "published" => daemon'[1] = "published")
               /\ Awaited => Awaited'
    <3>1. d = 1 /\ daemon'[1] = to  BY <1>2, <2>3, <2>4
    <3>2. Files  BY <2>2, <2>4 DEF Served
    <3>3. Files' /\ (daemon[1] = "published" => to = "published")
      BY <2>1, <3>1, <3>2 DEF DaemonMoves
    <3>. QED  BY <2>2, <3>1, <3>3 DEF Awaited
  <2>5. ASSUME spawned = 1 PROVE \A c \in Conn : Finding(conn[c])'
    BY <2>2, <2>4, <2>5 DEF Served, Finding
  <2>. QED  BY <2>2, <2>4, <2>5 DEF Served
<1>. QED  BY <1>1, <1>3, <1>4, <1>5, <1>6 DEF Inv
-----------------------------------------------------------------------------
(* Connectors.                                                             *)

\* What the invariant says of one connector.
LEMMA Known ==
    ASSUME Inv, NEW c \in Conn
    PROVE  /\ conn[c] \in Local /\ Owned(conn[c])
           /\ Inside(conn[c]) <=> lock = c
           /\ leases \in [Daemon -> SUBSET Conn] /\ faults \in 0..MaxFaults
           /\ discovery \in 0..MaxDaemons /\ bearer \in 0..MaxDaemons
           /\ faults \in faults..MaxFaults
<1>1. conn[c] \in Local /\ Owned(conn[c]) /\ leases \in [Daemon -> SUBSET Conn] /\ faults \in 0..MaxFaults
      /\ discovery \in 0..MaxDaemons /\ bearer \in 0..MaxDaemons
  BY DEF Inv, TypeOK
<1>2. Inside(conn[c]) <=> lock = c
  BY BoundsAssumption DEF Inv, Exclusive
<1>3. faults \in faults..MaxFaults
  BY SMT, <1>1, BoundsAssumption
<1>. QED  BY <1>1, <1>2, <1>3

\* A move outside the lock keeps the invariant.
LEMMA OutsideInv ==
    ASSUME Inv, NEW c \in Conn, NEW r \in Local, ~Inside(conn[c]), ~Inside(r), Owned(r),
           conn' = [conn EXCEPT ![c] = r], UNCHANGED <<lock, files, daemon, spawned, faults>>,
           leases' \in [Daemon -> SUBSET Conn]
    PROVE  Inv'
<1>1. ConnectorMoves(c, r)
  BY Known DEF ConnectorMoves, Finding
<1>. QED  BY <1>1, ConnectorMovesInv

\* The first attempt of a connector, or its next one.
LEMMA StartInv ==
    ASSUME Inv, NEW c \in Conn, Start(c) \/ LockTimeout(c) \/ Lost(c)
    PROVE  Inv'
<1>1. PICK r \in {[conn[c] EXCEPT !.pc = "wait", !.disc = 0, !.bear = 0],
                  [conn[c] EXCEPT !.pc = "failed", !.mine = 0],
                  [conn[c] EXCEPT !.pc = "find", !.disc = 0, !.bear = 0]} :
         conn' = [conn EXCEPT ![c] = r]
  BY DEF Start, LockTimeout, Lost, Move
<1>2. ~Inside(conn[c]) /\ conn[c].pc # "failed"
  BY DEF Start, LockTimeout, Lost, Inside
<1>3. conn[c] \in Local /\ conn[c].mine = 0 /\ 0 \in 0..MaxDaemons /\ 0 <= spawned
  BY SMT, <1>2, Known, BoundsAssumption DEF Inside, Owned, Inv, TypeOK
<1>4. r \in Local /\ ~Inside(r) /\ Owned(r)
  <2>1. r \in Local /\ r.pc \in {"wait", "failed", "find"} /\ r.mine = 0
    BY <1>1, <1>3 DEF Local, ConnPC
  <2>. QED  BY <1>3, <2>1 DEF Inside, Owned
<1>. QED  BY <1>1, <1>2, <1>4, Known, OutsideInv DEF Start, LockTimeout, Lost

\* What the records a connector moves to need of the constants.
LEMMA Zero == ASSUME Inv PROVE 0 \in 0..MaxDaemons /\ 0 <= spawned
BY SMT, BoundsAssumption DEF Inv, TypeOK

\* discover() reads the files outside the lock.
LEMMA FindInv ==
    ASSUME Inv, NEW c \in Conn, Find(c) \/ FindBearer(c)
    PROVE  Inv'
<1>1. conn[c].pc \in {"find", "find2"} /\ ~Inside(conn[c])
  BY DEF Find, FindBearer, Inside
<1>2. conn[c] \in Local /\ conn[c].mine = 0
  BY <1>1, Known DEF Owned
<1>3. UNCHANGED <<lock, files, daemon, spawned, faults>> /\ leases' \in [Daemon -> SUBSET Conn]
  BY Known DEF Find, FindBearer
<1>4. ASSUME NEW r \in {[conn[c] EXCEPT !.pc = "failed", !.disc = 0, !.bear = 0],
                        [conn[c] EXCEPT !.pc = "wait", !.inner = TRUE]},
             conn' = [conn EXCEPT ![c] = r]
      PROVE  Inv'
  <2>1. r \in Local /\ r.pc \in {"failed", "wait"} /\ r.mine = 0
    BY <1>2, <1>4, Zero DEF Local, ConnPC
  <2>2. ~Inside(r) /\ Owned(r)
    BY <2>1, Zero DEF Inside, Owned
  <2>. QED  BY <1>1, <1>3, <1>4, <2>1, <2>2, OutsideInv
<1>5. ASSUME NotFound(c) PROVE Inv'
  BY <1>4, <1>5 DEF NotFound, Move
<1>6. ASSUME NEW r, r = [conn[c] EXCEPT !.pc = "find2", !.disc = discovery], discovery # 0,
             conn' = [conn EXCEPT ![c] = r]
      PROVE  Inv'
  <2>1. discovery \in 0..MaxDaemons /\ discovery \in Daemon
    BY SMT, <1>6, Known, BoundsAssumption DEF Daemon
  <2>2. r \in Local /\ ~Inside(r) /\ Owned(r)
    BY <1>2, <1>6, <2>1, Zero DEF Local, ConnPC, Inside, Owned
  <2>. QED  BY <1>1, <1>3, <1>6, <2>2, OutsideInv
<1>7. ASSUME NEW r, r = [conn[c] EXCEPT !.pc = "open", !.bear = bearer], conn[c].pc = "find2",
             conn' = [conn EXCEPT ![c] = r]
      PROVE  Inv'
  <2>1. bearer \in 0..MaxDaemons /\ conn[c].disc \in Daemon
    BY <1>7, Known DEF Owned
  <2>2. r \in Local /\ ~Inside(r) /\ Owned(r)
    BY <1>2, <1>7, <2>1, Zero DEF Local, ConnPC, Inside, Owned
  <2>. QED  BY <1>1, <1>3, <1>7, <2>2, OutsideInv
<1>. QED  BY <1>5, <1>6, <1>7 DEF Find, FindBearer

\* A session is opened or not, is closed, and is tried again.
LEMMA SessionInv ==
    ASSUME Inv, NEW c \in Conn, Open(c) \/ Retry(c) \/ Close(c)
    PROVE  Inv'
<1>1. conn[c] \in Local /\ ~Inside(conn[c]) /\ (conn[c].pc = "open" => conn[c].mine = 0)
  BY Known DEF Owned, Open, Retry, Close, Inside
<1>2. UNCHANGED <<lock, files, daemon, spawned, faults>> /\ leases' \in [Daemon -> SUBSET Conn]
  BY SMT, Known DEF Open, Retry, Close
<1>3. ASSUME NEW r \in {[conn[c] EXCEPT !.pc = "failed", !.disc = 0, !.bear = 0]},
             conn[c].pc = "open", conn' = [conn EXCEPT ![c] = r]
      PROVE  Inv'
  <2>1. r \in Local /\ r.pc = "failed" /\ r.mine = 0
    BY <1>1, <1>3, Zero DEF Local, ConnPC
  <2>2. ~Inside(r) /\ Owned(r)
    BY <2>1, Zero DEF Inside, Owned
  <2>. QED  BY <1>1, <1>2, <1>3, <2>1, <2>2, OutsideInv
<1>4. ASSUME NEW r, NEW p \in {"leased", "wait", "find", "left"}, NEW h \in 0..MaxDaemons,
             r = [Fresh EXCEPT !.pc = p, !.held = h], conn' = [conn EXCEPT ![c] = r]
      PROVE  Inv'
  <2>1. r \in Local /\ ~Inside(r) /\ Owned(r)
    BY <1>4, Zero DEF Local, ConnPC, Inside, Owned, Fresh
  <2>. QED  BY <1>1, <1>2, <1>4, <2>1, OutsideInv
<1>5. CASE Open(c)
  <2>1. conn[c].disc \in 0..MaxDaemons
    BY <1>1 DEF Local
  <2>2. CASE Authentic(conn[c].disc, conn[c].bear)
    BY <1>4, <1>5, <2>1, <2>2 DEF Open
  <2>3. CASE ~Authentic(conn[c].disc, conn[c].bear)
    BY <1>3, <1>5, <2>3 DEF Open, Move
  <2>. QED  BY <2>2, <2>3
<1>6. CASE Retry(c)
  BY <1>1, <1>4, <1>6 DEF Retry, Local
<1>7. CASE Close(c)
  <2>1. PICK r : r = [Fresh EXCEPT !.pc = "left"]  OBVIOUS
  <2>2. r \in Local /\ ~Inside(r) /\ Owned(r)
    BY <2>1, Zero DEF Local, ConnPC, Inside, Owned, Fresh
  <2>. QED  BY <1>1, <1>2, <1>7, <2>1, <2>2, OutsideInv DEF Close
<1>. QED  BY <1>5, <1>6, <1>7

\* A move inside the lock keeps the invariant.
LEMMA InsideInv ==
    ASSUME Inv, NEW c \in Conn, NEW r \in Local, Inside(conn[c]), Inside(r), Owned(r),
           r.mine = conn[c].mine, conn' = [conn EXCEPT ![c] = r],
           UNCHANGED <<lock, files, daemon, leases, spawned>>, faults' \in faults..MaxFaults,
           faults' = 0 /\ Quiet /\ spawned = 1 => Finding(r)
    PROVE  Inv'
<1>1. ConnectorMoves(c, r)
  BY Known DEF ConnectorMoves
<1>. QED  BY <1>1, ConnectorMovesInv

\* A connector inside the lock that has spawned nothing, in a system where nothing has
\* failed and a daemon was spawned, has a healthy candidate in front of it.
LEMMA Candidate ==
    ASSUME Inv, NEW c \in Conn, Inside(conn[c]), Quiet, spawned = 1, conn[c].mine = 0
    PROVE  /\ daemon[1] = "published" /\ discovery = 1 /\ bearer = 1
           /\ Finding(conn[c]) /\ Live(1) /\ Authentic(1, 1)
<1>1. Finding(conn[c]) /\ Files
  BY DEF Inv, Served
<1>2. daemon[1] = "published"
  BY <1>1 DEF Finding
<1>. QED  BY <1>1, <1>2 DEF Files, Live, Authentic, Up

\* Without a candidate the connector spawns once, and then polls.
LEMMA NoCandidateInv ==
    ASSUME Inv, NEW c \in Conn, conn[c].pc \in {"read", "read2", "health"}, NoCandidate(c),
           UNCHANGED <<lock, files, daemon, leases, spawned>>, faults' \in faults..MaxFaults,
           faults' = 0 /\ Quiet /\ spawned = 1 => conn[c].mine # 0
    PROVE  Inv'
<1>1. conn[c] \in Local /\ Owned(conn[c]) /\ Inside(conn[c])
  BY Known DEF Inside
<1>2. PICK r : r = [conn[c] EXCEPT !.pc = IF conn[c].mine = 0 THEN "spawn" ELSE "read",
                                   !.disc = 0, !.bear = 0]
  OBVIOUS
<1>3. conn' = [conn EXCEPT ![c] = r]
  BY <1>2 DEF NoCandidate, Move
<1>4. r \in Local /\ Inside(r) /\ r.mine = conn[c].mine
  BY <1>1, <1>2, Zero DEF Local, ConnPC, Inside
<1>5. Owned(r)
  BY <1>1, <1>2, <1>4 DEF Owned, Local
<1>6. faults' = 0 /\ Quiet /\ spawned = 1 => Finding(r)
  BY <1>4 DEF Finding
<1>. QED  BY <1>1, <1>3, <1>4, <1>5, <1>6, InsideInv

\* A connector reads the discovery file.
LEMMA ReadDiscoveryInv ==
    ASSUME Inv, NEW c \in Conn, ReadDiscovery(c)
    PROVE  Inv'
<1>1. conn[c] \in Local /\ Owned(conn[c]) /\ Inside(conn[c]) /\ faults' \in faults..MaxFaults
  BY Known DEF ReadDiscovery, Inside
<1>2. conn[c].pc = "read" /\ UNCHANGED <<lock, files, daemon, leases, spawned, faults>>
  BY DEF ReadDiscovery
<1>3. CASE discovery # 0 /\ Live(discovery)
  <2>1. PICK r : r = [conn[c] EXCEPT !.pc = "read2", !.disc = discovery]  OBVIOUS
  <2>2. discovery \in 0..MaxDaemons /\ discovery \in Daemon
    BY SMT, <1>3, Known, BoundsAssumption DEF Daemon
  <2>3. r \in Local /\ Inside(r) /\ r.mine = conn[c].mine /\ r.disc = discovery /\ r.pc = "read2"
    BY <1>1, <2>1, <2>2 DEF Local, ConnPC, Inside
  <2>4. Owned(r)
    BY <1>1, <2>2, <2>3 DEF Owned
  <2>5. Quiet /\ spawned = 1 => Finding(r)
    BY <1>1, <2>3, Candidate DEF Finding
  <2>6. conn' = [conn EXCEPT ![c] = r]
    BY <1>3, <2>1 DEF ReadDiscovery
  <2>. QED  BY <1>1, <1>2, <2>3, <2>4, <2>5, <2>6, InsideInv
<1>4. CASE ~(discovery # 0 /\ Live(discovery))
  <2>1. Quiet /\ spawned = 1 => conn[c].mine # 0
    BY SMT, <1>1, <1>4, Candidate
  <2>. QED  BY <1>1, <1>2, <1>4, <2>1, NoCandidateInv DEF ReadDiscovery
<1>. QED  BY <1>3, <1>4

\* A connector reads the bearer.
LEMMA ReadBearerInv ==
    ASSUME Inv, NEW c \in Conn, ReadBearer(c)
    PROVE  Inv'
<1>1. conn[c] \in Local /\ Owned(conn[c]) /\ Inside(conn[c]) /\ faults' \in faults..MaxFaults
  BY Known DEF ReadBearer, Inside
<1>2. conn[c].pc = "read2" /\ UNCHANGED <<lock, files, daemon, leases, spawned, faults>>
  BY DEF ReadBearer
<1>3. CASE bearer # 0
  <2>1. PICK r : r = [conn[c] EXCEPT !.pc = "health", !.bear = bearer]  OBVIOUS
  <2>2. bearer \in 0..MaxDaemons  BY Known
  <2>3. /\ r \in Local /\ Inside(r) /\ r.mine = conn[c].mine
        /\ r.disc = conn[c].disc /\ r.bear = bearer /\ r.pc = "health"
    BY <1>1, <2>1, <2>2 DEF Local, ConnPC, Inside
  <2>4. Owned(r)
    BY <1>1, <1>2, <2>3 DEF Owned
  <2>5. Quiet /\ spawned = 1 => Finding(r)
    BY <1>1, <1>2, <2>3, Candidate DEF Finding
  <2>6. conn' = [conn EXCEPT ![c] = r]
    BY <1>3, <2>1 DEF ReadBearer
  <2>. QED  BY <1>1, <1>2, <2>3, <2>4, <2>5, <2>6, InsideInv
<1>4. CASE bearer = 0
  <2>1. Quiet /\ spawned = 1 => conn[c].mine # 0
    BY SMT, <1>1, <1>4, Candidate
  <2>. QED  BY <1>1, <1>2, <1>4, <2>1, NoCandidateInv DEF ReadBearer
<1>. QED  BY <1>3, <1>4

\* The health check fails, or goes unanswered.
LEMMA UnhealthyInv ==
    ASSUME Inv, NEW c \in Conn, Unhealthy(c)
    PROVE  Inv'
<1>1. Inside(conn[c]) /\ conn[c].pc = "health" /\ UNCHANGED <<lock, files, daemon, leases, spawned>>
  BY DEF Unhealthy, Inside
<1>2. faults \in 0..MaxFaults /\ faults' \in faults..MaxFaults
  BY SMT, Known, BoundsAssumption DEF Unhealthy, Fault
<1>3. faults' = 0 /\ Quiet /\ spawned = 1 => conn[c].mine # 0
  <2>1. SUFFICES ASSUME Quiet, spawned = 1, conn[c].mine = 0 PROVE faults' # 0
    OBVIOUS
  <2>2. conn[c].disc = 1 /\ conn[c].bear = 1 /\ Authentic(1, 1)
    BY <1>1, <2>1, Candidate DEF Finding
  <2>. QED  BY SMT, <1>2, <2>2 DEF Unhealthy, Fault
<1>. QED  BY <1>1, <1>2, <1>3, NoCandidateInv DEF Unhealthy

\* A connector that finds the lock free, while there is a daemon, finds it published.
LEMMA TakeLockInv ==
    ASSUME Inv, NEW c \in Conn, TakeLock(c)
    PROVE  Inv'
<1>1. conn[c] \in Local /\ ~Inside(conn[c]) /\ lock = None
  BY Known DEF TakeLock, LockFree, Inside
<1>2. PICK r : r = [conn[c] EXCEPT !.pc = "read", !.mine = 0]  OBVIOUS
<1>3. r \in Local /\ Inside(r) /\ r.mine = 0 /\ r.pc = "read" /\ Owned(r)
  BY <1>1, <1>2, Zero DEF Local, ConnPC, Inside, Owned
<1>4. Quiet /\ spawned = 1 => Finding(r)
  BY <1>1, <1>3 DEF Finding, Inv, Served, Awaited
<1>5. ConnectorMoves(c, r)
  BY <1>1, <1>2, <1>3, <1>4, Known DEF ConnectorMoves, TakeLock
<1>. QED  BY <1>3, <1>5, ConnectorMovesInv

\* A connector leaves the lock with a daemon that has answered it.
LEMMA HealthyInv ==
    ASSUME Inv, NEW c \in Conn, Healthy(c)
    PROVE  Inv'
<1>1. conn[c] \in Local /\ Inside(conn[c]) /\ lock = c /\ conn[c].disc \in Daemon
  BY Known DEF Healthy, Inside, Owned
<1>2. PICK r : r = [conn[c] EXCEPT !.pc = "find", !.disc = 0, !.bear = 0, !.mine = 0]  OBVIOUS
<1>3. r \in Local /\ ~Inside(r) /\ Owned(r)
  BY <1>1, <1>2, Zero DEF Local, ConnPC, Inside, Owned
<1>4. ASSUME Quiet, spawned = 1 PROVE daemon[1] = "published"
  <2>1. daemon[conn[c].disc] \in {"published", "leaving"}
    BY DEF Healthy, Authentic, Up
  <2>2. conn[c].disc = 1
    BY SMT, <1>1, <1>4, <2>1, BoundsAssumption DEF Inv, Numbered, Daemon
  <2>. QED  BY <1>1, <1>4, <2>1, <2>2 DEF Quiet, Departed
<1>5. ConnectorMoves(c, r)
  BY <1>1, <1>2, <1>3, <1>4, Known DEF ConnectorMoves, Healthy, Finding
<1>. QED  BY <1>3, <1>5, ConnectorMovesInv

\* A connector that dies gives up the lock.
LEMMA ConnectorDiesInv ==
    ASSUME Inv, NEW c \in Conn, ConnectorDies(c)
    PROVE  Inv'
<1>1. PICK r : r = [Fresh EXCEPT !.pc = "dead"]  OBVIOUS
<1>2. r \in Local /\ ~Inside(r) /\ Owned(r)
  BY <1>1, Zero DEF Local, ConnPC, Inside, Owned, Fresh
<1>3. faults' # 0 /\ faults' \in faults..MaxFaults
  BY SMT, Known, BoundsAssumption DEF ConnectorDies, Fault
<1>4. ConnectorMoves(c, r)
  BY <1>1, <1>2, <1>3, Known DEF ConnectorMoves, ConnectorDies
<1>. QED  BY <1>2, <1>4, ConnectorMovesInv

\* The spawned daemon is the only one, or something has failed: whoever spawns has
\* found no candidate.
LEMMA SpawnInv ==
    ASSUME Inv, NEW c \in Conn, Spawn(c)
    PROVE  Inv'
<1>1. conn[c] \in Local /\ Inside(conn[c]) /\ lock = c /\ conn[c].mine = 0 /\ conn[c].pc = "spawn"
  BY Known DEF Spawn, Inside, Owned
<1>2. /\ spawned \in Nat /\ spawned < MaxDaemons /\ spawned' = spawned + 1
      /\ spawned' \in Daemon /\ spawned' \in 0..MaxDaemons
  BY SMT, BoundsAssumption DEF Spawn, Inv, TypeOK, Daemon
<1>3. PICK r : r = [conn[c] EXCEPT !.pc = "read", !.mine = spawned']  OBVIOUS
<1>4. r \in Local /\ Inside(r) /\ r.mine = spawned' /\ r.pc = "read"
  BY <1>1, <1>2, <1>3 DEF Local, ConnPC, Inside
<1>5. conn' = [conn EXCEPT ![c] = r] /\ conn'[c] = r /\ \A b \in Conn \ {c} : conn'[b] = conn[b]
  BY <1>3 DEF Spawn, Inv, TypeOK
<1>6. daemon[spawned'] = "unborn" /\ daemon'[spawned'] = "starting"
      /\ \A d \in Daemon \ {spawned'} : daemon'[d] = daemon[d]
  BY SMT, <1>2 DEF Spawn, Inv, TypeOK, Numbered, Daemon
<1>7. TypeOK'
  BY <1>2, <1>4, <1>5 DEF Spawn, Inv, TypeOK, Daemon, DaemonPC
<1>8. Exclusive'
  BY <1>1, <1>4, <1>5 DEF Spawn, Inv, Exclusive
<1>9. Numbered'
  BY SMT, <1>2, <1>6 DEF Inv, Numbered, Daemon
<1>10. ASSUME NEW b \in Conn PROVE Owned(conn[b])'
  <2>1. CASE b = c
    BY SMT, <1>2, <1>4, <1>5, <2>1 DEF Owned
  <2>2. CASE b # c
    <3>1. conn'[b] = conn[b] /\ Owned(conn[b]) /\ conn[b].mine \in 0..MaxDaemons
      BY <1>5, <2>2, Known DEF Local
    <3>2. conn[b].mine # 0 => conn[b].mine \in Daemon
      BY SMT, <3>1, BoundsAssumption DEF Daemon
    <3>3. conn[b].mine <= spawned'
      BY SMT, <1>2, <3>1 DEF Owned
    <3>4. conn[b].mine # 0 /\ daemon[conn[b].mine] = "gone" => daemon'[conn[b].mine] = "gone"
      BY <1>6, <3>2
    <3>. QED  BY <3>1, <3>3, <3>4 DEF Owned
  <2>. QED  BY <2>1, <2>2
<1>11. ASSUME Quiet' PROVE Served'
  <2>1. Quiet
    BY <1>6, <1>11 DEF Quiet, Spawn, Departed
  <2>2. spawned = 0
    BY SMT, <1>1, <1>2, <2>1 DEF Inv, Served, Finding
  <2>3. \A b \in Conn : Finding(conn[b])'
    BY SMT, <1>1, <1>2, <1>4, <1>5, <2>2 DEF Inv, Exclusive, Finding
  <2>4. spawned' = 1 /\ daemon'[1] = "starting"
    BY SMT, <1>2, <1>6, <2>2
  <2>5. Awaited'
    BY <1>1, <1>4, <1>5, <2>4, BoundsAssumption DEF Awaited, Spawn
  <2>. QED  BY SMT, <2>3, <2>4, <2>5 DEF Served, Files
<1>. QED  BY <1>7, <1>8, <1>9, <1>10, <1>11 DEF Inv

\* Connector c ends the daemon it has spawned, which is then in state "to".
Ends(c, d, to) ==
    /\ Inside(conn[c]) /\ conn[c].mine = d
    /\ daemon' = [daemon EXCEPT ![d] = to]
    /\ to \in Departed /\ (daemon[d] = "gone" => to = "gone")
    /\ \E p \in {"reap", "failed"} :
        /\ conn' = [conn EXCEPT ![c].pc = p, ![c].disc = 0, ![c].bear = 0]
        /\ p = "failed" => to = "gone"
        /\ lock' = IF p = "reap" THEN lock ELSE None
    /\ UNCHANGED <<files, spawned>>
    /\ leases' \in [Daemon -> SUBSET Conn]
    /\ faults' \in faults..MaxFaults

\* Such a step keeps the invariant: a daemon that has been ended is one that has left.
LEMMA EndsInv ==
    ASSUME Inv, NEW c \in Conn, NEW d \in Daemon, NEW to, Ends(c, d, to)
    PROVE  Inv'
<1>1. conn[c] \in Local /\ Owned(conn[c]) /\ lock = c /\ conn[c].mine = d /\ d # 0
  BY SMT, Known, BoundsAssumption DEF Ends, Daemon
<1>2. PICK p \in {"reap", "failed"} :
        /\ conn' = [conn EXCEPT ![c].pc = p, ![c].disc = 0, ![c].bear = 0]
        /\ p = "failed" => to = "gone"
        /\ lock' = IF p = "reap" THEN lock ELSE None
  BY DEF Ends
<1>3. PICK r : r = [conn[c] EXCEPT !.pc = p, !.disc = 0, !.bear = 0]  OBVIOUS
<1>4. r \in Local /\ (Inside(r) <=> p = "reap") /\ r.mine = d /\ r.pc = p
  BY <1>1, <1>2, <1>3, Zero DEF Local, ConnPC, Inside
<1>5. conn' = [conn EXCEPT ![c] = r] /\ conn'[c] = r /\ \A b \in Conn \ {c} : conn'[b] = conn[b]
  BY <1>2, <1>3 DEF Inv, TypeOK
<1>6. daemon'[d] = to /\ \A e \in Daemon \ {d} : daemon'[e] = daemon[e]
  BY DEF Ends, Inv, TypeOK
<1>7. d <= spawned /\ daemon[d] # "unborn" /\ spawned \in Nat
  BY SMT, <1>1, BoundsAssumption DEF Owned, Inv, TypeOK, Numbered, Daemon
<1>8. TypeOK'
  <2>1. to \in DaemonPC /\ lock' \in Conn \cup {None}
    BY <1>1, <1>2 DEF Ends, Departed, DaemonPC
  <2>2. conn' \in [Conn -> Local] /\ daemon' \in [Daemon -> DaemonPC]
    BY <1>4, <1>5, <2>1 DEF Ends, Inv, TypeOK
  <2>3. spawned' \in 0..MaxDaemons /\ faults' \in 0..MaxFaults /\ UNCHANGED files
    BY SMT, BoundsAssumption DEF Ends, Inv, TypeOK
  <2>. QED  BY SMT, <2>1, <2>2, <2>3 DEF Ends, Inv, TypeOK, files
<1>9. Exclusive'
  BY <1>1, <1>2, <1>4, <1>5 DEF Inv, Exclusive
<1>10. Numbered'
  BY <1>6, <1>7 DEF Ends, Inv, Numbered, Departed, Daemon
<1>11. ASSUME NEW b \in Conn PROVE Owned(conn[b])'
  <2>1. spawned' = spawned  BY DEF Ends
  <2>2. CASE b = c
    BY <1>2, <1>4, <1>5, <1>6, <1>7, <1>1, <2>1, <2>2 DEF Owned
  <2>3. CASE b # c
    <3>1. conn'[b] = conn[b] /\ Owned(conn[b]) /\ conn[b].mine \in 0..MaxDaemons
      BY <1>5, <2>3, Known DEF Local
    <3>2. conn[b].mine # 0 => conn[b].mine \in Daemon
      BY SMT, <3>1, BoundsAssumption DEF Daemon
    <3>3. conn[b].mine # 0 /\ daemon[conn[b].mine] = "gone" => daemon'[conn[b].mine] = "gone"
      BY <1>6, <3>2 DEF Ends
    <3>. QED  BY <2>1, <3>1, <3>3 DEF Owned
  <2>. QED  BY <2>2, <2>3
<1>12. ~Quiet'
  BY <1>6 DEF Ends, Quiet
<1>. QED  BY <1>8, <1>9, <1>10, <1>11, <1>12 DEF Inv

\* The deadline of a poll comes: SIGTERM.
LEMMA DeadlineInv ==
    ASSUME Inv, NEW c \in Conn, DeadlineEarly(c) \/ DeadlineDue(c)
    PROVE  Inv'
<1>1. Deadline(c) /\ faults' \in faults..MaxFaults
  BY SMT, Known, BoundsAssumption DEF DeadlineEarly, DeadlineDue, Fault
<1>2. PICK d : d = conn[c].mine  OBVIOUS
<1>3. d \in Daemon /\ Inside(conn[c])
  BY SMT, <1>1, <1>2, Known, BoundsAssumption DEF Deadline, Daemon, Local, Inside
<1>4. PICK to : to = IF Up(d) THEN "closing"
                     ELSE IF daemon[d] \in {"closing", "owner", "owner2"} THEN daemon[d] ELSE "gone"
  OBVIOUS
<1>5. daemon' = [daemon EXCEPT ![d] = to]
  BY <1>1, <1>2, <1>4 DEF Deadline, Terminated
<1>6. to \in Departed /\ (daemon[d] = "gone" => to = "gone")
  BY <1>4 DEF Departed, Up
<1>7. Ends(c, d, to)
  BY <1>1, <1>2, <1>3, <1>5, <1>6, Known DEF Deadline, Move, Ends
<1>. QED  BY <1>3, <1>7, EndsInv

\* The kill after the grace.
LEMMA ReapInv ==
    ASSUME Inv, NEW c \in Conn, Reap(c)
    PROVE  Inv'
<1>1. PICK d : d = conn[c].mine  OBVIOUS
<1>2. d \in Daemon /\ Inside(conn[c])
  BY SMT, <1>1, Known, BoundsAssumption DEF Reap, Daemon, Local, Inside, Owned
<1>3. leases' \in [Daemon -> SUBSET Conn]
  BY <1>1, <1>2, Known DEF Reap
<1>4. Ends(c, d, "gone")
  BY <1>1, <1>2, <1>3, Known DEF Reap, Killed, ReleasedLock, Move, Ends, Departed
<1>. QED  BY <1>2, <1>4, EndsInv
-----------------------------------------------------------------------------
(* Daemons.                                                                *)

\* A daemon starts and serves.
LEMMA ServesInv ==
    ASSUME Inv, NEW d \in Daemon,
           \/ MatchNonce(d) \/ ConsumeNonce(d) \/ RemoveStaleDiscovery(d)
           \/ WriteBearer(d) \/ Publish(d)
    PROVE  Inv'
<1>1. d \in 0..MaxDaemons /\ 0 \in 0..MaxDaemons
  BY SMT, BoundsAssumption DEF Daemon
<1>2. {nonce', discovery', bearer'} \subseteq 0..MaxDaemons /\ leases' = leases
  BY <1>1 DEF MatchNonce, ConsumeNonce, RemoveStaleDiscovery, WriteBearer, Publish, files, Inv, TypeOK
<1>3. leases' \in [Daemon -> SUBSET Conn] /\ faults \in faults..MaxFaults
  BY SMT, <1>2, BoundsAssumption DEF Inv, TypeOK
<1>4. ASSUME NEW from \in {"starting", "matched", "authorised"}, NEW to \in {"matched", "authorised", "cleared", "gone"},
             Step(d, from, to)
      PROVE  Inv'
  <2>1. d = 1 /\ Files => daemon'[1] = to
    BY <1>4 DEF Step, Inv, TypeOK
  <2>2. DaemonMoves(d, to)
    BY <1>2, <1>3, <1>4, <2>1 DEF DaemonMoves, Step, DaemonPC, Departed, Files
  <2>. QED  BY <2>2, DaemonMovesInv
<1>5. CASE MatchNonce(d) \/ ConsumeNonce(d) \/ RemoveStaleDiscovery(d)
  BY <1>4, <1>5 DEF MatchNonce, ConsumeNonce, RemoveStaleDiscovery
<1>6. CASE WriteBearer(d)
  <2>1. d = 1 => daemon'[1] = "bound" /\ bearer' = 1
    BY <1>6 DEF WriteBearer, Step, Inv, TypeOK
  <2>2. DaemonMoves(d, "bound")
    BY <1>2, <1>3, <1>6, <2>1 DEF WriteBearer, DaemonMoves, Step, DaemonPC, Departed, Files
  <2>. QED  BY <2>2, DaemonMovesInv
<1>7. CASE Publish(d)
  <2>1. d = 1 => daemon'[1] = "published" /\ discovery' = 1
    BY <1>7 DEF Publish, Step, Inv, TypeOK
  <2>2. DaemonMoves(d, "published")
    BY <1>2, <1>3, <1>7, <2>1 DEF Publish, DaemonMoves, Step, DaemonPC, Departed, Files
  <2>. QED  BY <2>2, DaemonMovesInv
<1>. QED  BY <1>5, <1>6, <1>7

\* A daemon leaves, or dies.
LEMMA LeavesInv ==
    ASSUME Inv, NEW d \in Daemon,
           \/ IdleVerdict(d) \/ CloseServer(d) \/ CheckOwner(d)
           \/ UnlinkDiscovery(d) \/ UnlinkBearer(d) \/ DaemonDies(d)
    PROVE  Inv'
<1>1. 0 \in 0..MaxDaemons /\ faults \in 0..MaxFaults /\ faults \in faults..MaxFaults
  BY SMT, BoundsAssumption DEF Inv, TypeOK
<1>2. {nonce', discovery', bearer'} \subseteq 0..MaxDaemons /\ UNCHANGED <<lock, conn, spawned>>
  BY <1>1 DEF IdleVerdict, CloseServer, CheckOwner, UnlinkDiscovery, UnlinkBearer, DaemonDies, Step,
              files, Inv, TypeOK
<1>3. leases' \in [Daemon -> SUBSET Conn]
  BY DEF IdleVerdict, CloseServer, CheckOwner, UnlinkDiscovery, UnlinkBearer, DaemonDies, Inv, TypeOK
<1>4. faults' \in faults..MaxFaults
  BY SMT, <1>1, BoundsAssumption DEF IdleVerdict, CloseServer, CheckOwner, UnlinkDiscovery, UnlinkBearer,
                               DaemonDies, Step, Fault
<1>5. ASSUME NEW to \in Departed, daemon' = [daemon EXCEPT ![d] = to], daemon[d] # "unborn",
             daemon[d] = "gone" => to = "gone"
      PROVE  Inv'
  <2>1. DaemonMoves(d, to)
    BY <1>2, <1>3, <1>4, <1>5 DEF DaemonMoves, DaemonPC, Departed
  <2>. QED  BY <2>1, DaemonMovesInv
<1>6. CASE DaemonDies(d)
  BY <1>5, <1>6 DEF DaemonDies, Live, Departed
<1>7. CASE IdleVerdict(d) \/ CloseServer(d) \/ CheckOwner(d) \/ UnlinkDiscovery(d) \/ UnlinkBearer(d)
  BY <1>5, <1>7 DEF IdleVerdict, CloseServer, CheckOwner, UnlinkDiscovery, UnlinkBearer, Step, Departed
<1>. QED  BY <1>6, <1>7
-----------------------------------------------------------------------------
(* The theorems.                                                           *)

\* The first state is one: nobody is inside, nothing was spawned.
LEMMA InitInv == Init => Inv
<1>1. SUFFICES ASSUME Init PROVE Inv
  OBVIOUS
<1>2. 0 \in 0..MaxDaemons /\ 0 \in 0..MaxFaults /\ Fresh \in Local
  BY SMT, BoundsAssumption DEF Fresh, Local, ConnPC
<1>3. TypeOK
  BY <1>1, <1>2 DEF Init, TypeOK, DaemonPC
<1>4. \A c \in Conn : conn[c] = Fresh
  BY <1>1 DEF Init
<1>5. Exclusive /\ \A c \in Conn : Owned(conn[c])
  BY SMT, <1>1, <1>4 DEF Init, Exclusive, Owned, Inside, Fresh
<1>6. Numbered /\ Served
  BY SMT, <1>1, BoundsAssumption DEF Init, Numbered, Served, Daemon
<1>. QED  BY <1>3, <1>5, <1>6 DEF Inv

\* Every step keeps the invariant.
LEMMA NextInv == Inv /\ [Next]_vars => Inv'
<1>1. SUFFICES ASSUME Inv, [Next]_vars PROVE Inv'
  OBVIOUS
<1>2. ASSUME NEW c \in Conn,
             \/ Start(c) \/ TakeLock(c) \/ LockTimeout(c) \/ ReadDiscovery(c) \/ ReadBearer(c)
             \/ Healthy(c) \/ Unhealthy(c) \/ Spawn(c) \/ DeadlineEarly(c) \/ DeadlineDue(c)
             \/ Reap(c) \/ Find(c) \/ FindBearer(c) \/ Open(c) \/ Lost(c) \/ Retry(c)
             \/ Close(c) \/ ConnectorDies(c)
      PROVE  Inv'
  BY <1>1, <1>2, StartInv, TakeLockInv, ReadDiscoveryInv, ReadBearerInv, HealthyInv, UnhealthyInv,
     SpawnInv, DeadlineInv, ReapInv, FindInv, SessionInv, ConnectorDiesInv
<1>3. ASSUME NEW d \in Daemon, Run(d) \/ DaemonDies(d) PROVE Inv'
  BY <1>1, <1>3, ServesInv, LeavesInv DEF Run
<1>4. ASSUME UNCHANGED <<lock, files, daemon, conn, spawned, faults>>, leases' \in [Daemon -> SUBSET Conn]
      PROVE  Inv'
  BY <1>1, <1>4 DEF Inv, TypeOK, files, Exclusive, Inside, Numbered, Owned, Quiet, Served, Files,
                    Awaited, Finding
<1>5. ASSUME NEW d \in Daemon, NEW c \in Conn, Expire(d, c) PROVE Inv'
  BY <1>1, <1>4, <1>5 DEF Expire, Inv, TypeOK
<1>6. CASE UNCHANGED vars
  BY <1>1, <1>4, <1>6 DEF vars, Inv, TypeOK
<1>. QED  BY <1>1, <1>2, <1>3, <1>5, <1>6 DEF Next

\* The invariant holds in every reachable state.
LEMMA InvAlways == Spec => []Inv
<1>. QED  BY InitInv, NextInv, PTL DEF Spec

\* Every variable keeps its type.
THEOREM TypeCorrect == Spec => []TypeOK
<1>1. Inv => TypeOK  BY DEF Inv
<1>. QED  BY <1>1, InvAlways, PTL

\* Any number of connectors that find no daemon at the same time start one: while nothing
\* has failed and no daemon has left, connect_or_start spawns no second daemon, because
\* the lock is handed on only when the first is published; and an attempt that reports
\* failure has reclaimed what it spawned.
THEOREM StartsOneAlways == Spec => []StartsOne
<1>1. Inv => StartsOne
  <2>1. SUFFICES ASSUME Inv PROVE StartsOne  OBVIOUS
  <2>2. SingleStart
    BY <2>1 DEF Inv, SingleStart, Quiet, Served, Departed
  <2>3. FailedStartLeavesNothing
    BY <2>1 DEF Inv, FailedStartLeavesNothing, Owned
  <2>. QED  BY <2>2, <2>3 DEF StartsOne
<1>. QED  BY <1>1, InvAlways, PTL

\* At most one connector is between the acquisition of startup.lock and its release,
\* whatever crashes: spawning and the reading that decides it are one critical section.
THEOREM OneInside ==
    Spec => [](\A b, c \in Conn : Inside(conn[b]) /\ Inside(conn[c]) => b = c)
<1>1. Inv => \A b, c \in Conn : Inside(conn[b]) /\ Inside(conn[c]) => b = c
  BY DEF Inv, Exclusive
<1>. QED  BY <1>1, InvAlways, PTL
=============================================================================

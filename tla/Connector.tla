----------------------------- MODULE Connector -----------------------------
(***************************************************************************)
(* Connector (connector.py): one client's lease and MCP session, the        *)
(* client's concurrent tool calls, the heartbeat, and the recovery that     *)
(* replaces a lost session by a new one with the remembered binding.        *)
(*                                                                         *)
(* A step is what one coroutine does between two awaits; Exec and the       *)
(* actions of the last section are what the daemon and the network do.      *)
(* Daemons are numbered; the discovery file names the published one.        *)
(***************************************************************************)
EXTENDS Naturals, Sequences, FiniteSets

CONSTANTS
    Call,       \* the calls that can be open at the same time
    Heart,      \* the heartbeat task
    Workspace,  \* paths a client activates
    Cwd,        \* the inherited working directory
    None,       \* no workspace: activating None stands for release_workspace
    MaxCalls,   \* bound on calls made
    MaxFaults   \* bound on lost sessions, refusals and daemon restarts

ASSUME CwdAssumption == None \notin Workspace \cup {Cwd}
ASSUME TaskAssumption == Heart \notin Call /\ None \notin Call \cup {Heart}
ASSUME BoundsAssumption == MaxCalls \in Nat /\ MaxFaults \in Nat

Task == Call \cup {Heart}
Kinds == {"read", "edit", "activate", "beat"}
Path == Workspace \cup {Cwd, None}
Effects_EditsOnly == {"edit"}
Effects == {"edit", "activate"}  \* not READ_ONLY_TOOLS: never sent again

VARIABLES
    published, \* the daemon the discovery file names
    sess,      \* every MCP session opened: its daemon, its lease, its transport
    cur,       \* index of the installed session, 0 after aclose
    gen,       \* _generation
    last,      \* _last_binding
    pending,   \* _pending_startup_binding
    closing, closed,
    life,      \* holder of _lifecycle_lock
    bind,      \* holder of _binding_lock
    task,
    calls, faults,
    doubt      \* history: the client cannot know its binding

core == <<cur, gen, last, pending, closing, closed>>
vars == <<published, sess, core, life, bind, task, calls, faults, doubt>>

Session == [daemon: Nat, lease: {"active", "ended"}, bound: Path, open: BOOLEAN]

\* op: the startup activation or the call itself; s, g: the snapshot; second:
\* this is the retry; res: what the daemon answered; sent: submissions of the call;
\* saved: the binding a recovery restores.
Local == [pc: {"idle", "bind", "enter", "check", "flight", "back", "recover", "open", "opened",
               "retire", "stopped"},
          kind: Kinds, arg: Path, op: {"startup", "main"},
          s: Nat, g: Nat, second: BOOLEAN, res: {"none", "ok", "refused"}, sent: Nat,
          saved: Path]

Dead == [daemon |-> 0, lease |-> "ended", bound |-> None, open |-> FALSE]

Idle == [pc |-> "idle", kind |-> "read", arg |-> None, op |-> "main", s |-> 0, g |-> 0,
         second |-> FALSE, res |-> "none", sent |-> 0, saved |-> None]

\* start(): the first session is installed and unbound.
Init ==
    /\ published = 1
    /\ sess = <<[daemon |-> 1, lease |-> "active", bound |-> None, open |-> TRUE]>>
    /\ cur = 1 /\ gen = 1 /\ last = None /\ pending = Cwd
    /\ closing = FALSE /\ closed = FALSE
    /\ life = None /\ bind = None
    /\ task = [t \in Task |-> IF t = Heart THEN [Idle EXCEPT !.kind = "beat"] ELSE Idle]
    /\ calls = 0 /\ faults = 0 /\ doubt = FALSE

TypeOK ==
    /\ published \in Nat
    /\ sess \in Seq(Session) /\ cur \in 0..Len(sess) /\ gen \in 1..Len(sess)
    /\ last \in Path /\ pending \in {Cwd, None}
    /\ {closing, closed, doubt} \subseteq BOOLEAN
    /\ life \in Task \cup {None} /\ bind \in Call \cup {None}
    /\ task \in [Task -> Local]
    /\ calls \in 0..MaxCalls /\ faults \in 0..MaxFaults

Usable(s) == sess[s].open
Holds(s) == Usable(s) /\ sess[s].lease = "active"
Fault == faults < MaxFaults /\ faults' = faults + 1

\* Two operations that bind and run at once, or one whose outcome stays unknown
\* on a session that stays installed, leave the client in doubt of its binding.
Binds(t) == task[t].op = "startup" \/ task[t].kind = "activate"
Binding(t) ==
    \/ task[t].pc \in {"flight", "back"} /\ Binds(t)
    \/ task[t].pc \in {"open", "opened"}
Overlapped(t) == \E u \in Task \ {t} : Binding(u)
-----------------------------------------------------------------------------
(* Answers.                                                                *)

\* _invoke_with_recovery has a result r for task t: the startup activation goes
\* on to the call itself, or fails it; the call updates the remembered binding.
Return(t, r) ==
    LET c == task[t] IN
    IF c.op = "startup"
    THEN /\ bind' = None
         /\ IF r = "ok"
            THEN /\ last' = Cwd /\ pending' = None
                 /\ task' = [task EXCEPT ![t] = [Idle EXCEPT !.pc = "enter", !.kind = c.kind]]
            ELSE /\ task' = [task EXCEPT ![t] = Idle]
                 /\ UNCHANGED <<last, pending>>
    ELSE /\ task' = [task EXCEPT ![t] = IF t = Heart THEN [Idle EXCEPT !.kind = "beat"] ELSE Idle]
         /\ UNCHANGED bind
         /\ IF r = "ok" /\ c.kind = "activate"
            THEN last' = c.arg /\ pending' = None
            ELSE UNCHANGED <<last, pending>>

\* ConnectorSessionLost: recover first; a retry is not retried again.
Lost(t) ==
    IF task[t].second THEN Return(t, "error")
    ELSE /\ task' = [task EXCEPT ![t].pc = "recover", ![t].s = 0, ![t].res = "none"]
         /\ UNCHANGED <<bind, last, pending>>

Retried(t) == task[t].op = "startup" \/ task[t].kind \notin Effects

\* After recovery: a read is sent once more on the new session, an effect is
\* reported UNCERTAIN, the heartbeat loop sleeps.
Recovered(t, ok) ==
    IF ok /\ t # Heart /\ Retried(t)
    THEN /\ task' = [task EXCEPT ![t].pc = "check", ![t].s = cur', ![t].g = gen', ![t].second = TRUE,
                                 ![t].saved = None, ![t].res = "none"]
         /\ UNCHANGED <<bind, last, pending>>
    ELSE Return(t, IF task[t].op = "main" /\ task[t].kind \in Effects THEN "uncertain" ELSE "error")
-----------------------------------------------------------------------------
(* Calls.                                                                  *)

\* Activation and release skip the startup binding.
CallTool(t, k, w) ==
    /\ task[t].pc = "idle" /\ calls < MaxCalls /\ ~closing
    /\ w # None => k = "activate"
    /\ task' = [task EXCEPT ![t] = [Idle EXCEPT !.kind = k, !.arg = w,
                                    !.pc = IF k = "activate" THEN "enter" ELSE "bind"]]
    /\ calls' = calls + 1
    /\ UNCHANGED <<published, sess, core, life, bind, faults, doubt>>

EnsureStartupBinding(t) ==
    /\ task[t].pc = "bind" /\ bind = None
    /\ task' = [task EXCEPT ![t].pc = "enter", ![t].op = IF pending = None THEN "main" ELSE "startup"]
    /\ bind' = IF pending = None THEN None ELSE t
    /\ UNCHANGED <<published, sess, core, life, calls, faults, doubt>>

\* start() waits for the lifecycle lock; _snapshot.
Enter(t) ==
    /\ task[t].pc = "enter" /\ life = None
    /\ IF closed THEN Return(t, "error")
       ELSE /\ task' = [task EXCEPT ![t].pc = "check", ![t].s = cur, ![t].g = gen]
            /\ UNCHANGED <<bind, last, pending>>
    /\ UNCHANGED <<published, sess, cur, gen, closing, closed, life, calls, faults, doubt>>

\* The heartbeat loop takes its snapshot without start().
Beat ==
    /\ task[Heart].pc = "idle" /\ ~closed
    /\ task' = [task EXCEPT ![Heart].pc = "check", ![Heart].s = cur, ![Heart].g = gen]
    /\ UNCHANGED <<published, sess, core, life, bind, calls, faults, doubt>>

Current(t) == task[t].g = gen /\ cur # 0 /\ sess[cur].daemon = published

\* _assert_daemon_identity, then the request is submitted to the snapshot's session.
Check(t) ==
    /\ task[t].pc = "check"
    /\ IF Current(t)
       THEN /\ task' = [task EXCEPT ![t].pc = "flight", ![t].sent = @ + 1]
            /\ doubt' = (doubt \/ (Binds(t) /\ Overlapped(t)))
            /\ UNCHANGED <<bind, last, pending>>
       ELSE Lost(t) /\ UNCHANGED doubt
    /\ UNCHANGED <<published, sess, cur, gen, closing, closed, life, calls, faults>>

\* The answer arrives; one that a replaced session brought is not trusted.
Answer(t) ==
    /\ task[t].pc = "back" /\ Usable(task[t].s)
    /\ IF task[t].g = gen THEN Return(t, task[t].res) ELSE Lost(t)
    /\ UNCHANGED <<published, sess, cur, gen, closing, closed, life, calls, faults, doubt>>

\* The transport is gone: the session's owner task fails what is in flight.
Drop(t) ==
    /\ task[t].pc \in {"flight", "back"} /\ ~Usable(task[t].s)
    /\ Lost(t)
    /\ UNCHANGED <<published, sess, cur, gen, closing, closed, life, calls, faults, doubt>>
-----------------------------------------------------------------------------
(* Recovery, under the lifecycle lock.                                     *)

Remembered_Cwd == Cwd
Remembered == last

Superseded_Never(t) == FALSE
Superseded(t) == task[t].g # gen

Recover(t) ==
    /\ task[t].pc = "recover" /\ life = None
    /\ IF closed \/ Superseded(t)
       THEN /\ UNCHANGED <<life, cur, gen, doubt>>
            /\ Recovered(t, ~closed)
       ELSE /\ life' = t
            /\ task' = [task EXCEPT ![t].pc = "open", ![t].s = 0, ![t].saved = Remembered]
            /\ doubt' = (doubt \/ Overlapped(t))
            /\ UNCHANGED <<bind, last, pending, cur, gen>>
    /\ UNCHANGED <<published, sess, closing, closed, calls, faults>>

\* discover, connect and acquire_lease; the binding to restore was read before.
OpenSession(t) ==
    /\ task[t].pc = "open"
    /\ sess' = Append(sess, [daemon |-> published, lease |-> "active", bound |-> None, open |-> TRUE])
    /\ task' = [task EXCEPT ![t].pc = "opened", ![t].s = Len(sess'), ![t].res = "none"]
    /\ UNCHANGED <<published, core, life, bind, calls, faults, doubt>>

\* The remembered binding, if there is one, is activated at the daemon.
Restorable(t) == IF task[t].saved = None THEN Usable(task[t].s) ELSE Holds(task[t].s)

Restore(t) ==
    /\ task[t].pc = "opened" /\ task[t].res = "none" /\ Restorable(t)
    /\ sess' = [sess EXCEPT ![task[t].s].bound = task[t].saved]
    /\ task' = [task EXCEPT ![t].res = "ok"]
    /\ UNCHANGED <<published, core, life, bind, calls, faults, doubt>>

Install(t) ==
    /\ task[t].pc = "opened" /\ task[t].res = "ok"
    /\ cur' = task[t].s /\ gen' = gen + 1
    /\ task' = [task EXCEPT ![t].pc = "retire", ![t].s = cur]
    /\ UNCHANGED <<published, sess, last, pending, closing, closed, life, bind, calls, faults, doubt>>

\* release_lease reaches the daemon unless the transport is broken; it is closed anyway.
Released(s) ==
    [sess EXCEPT ![s] = IF Usable(s) THEN Dead ELSE [@ EXCEPT !.open = FALSE]]

Abandoned_NotReleased(s) == sess
Abandoned(s) == Released(s)

\* A refused or interrupted restoration gives the provisional lease back.
OpenFails(t) ==
    /\ task[t].pc \in {"open", "opened"} /\ task[t].res # "ok"
    /\ IF task[t].pc = "opened" /\ ~Restorable(t) THEN UNCHANGED faults ELSE Fault
    /\ sess' = IF task[t].s = 0 THEN sess ELSE Abandoned(task[t].s)
    /\ life' = None
    /\ UNCHANGED <<cur, gen>>
    /\ Recovered(t, FALSE)
    /\ doubt' = (doubt \/ Binds(t))
    /\ UNCHANGED <<published, closing, closed, calls>>

\* The old lease is released and the old session closed, whatever they answer.
Retire(t) ==
    /\ task[t].pc = "retire"
    /\ sess' = Released(task[t].s)
    /\ life' = None
    /\ UNCHANGED <<cur, gen>>
    /\ Recovered(t, TRUE)
    /\ UNCHANGED <<published, closing, closed, calls, faults, doubt>>
-----------------------------------------------------------------------------
(* aclose.                                                                 *)

\* Cancelling the heartbeat task ends it, except inside its recovery: there the
\* cancellation aborts the opening of a session, whose lease is given back, or is
\* swallowed while the old one is retired, and the loop goes on.
Uncancelled == {"recover", "open", "opened", "retire"}

BeginClose ==
    /\ ~closing
    /\ closing' = TRUE
    /\ LET h == task[Heart] IN
        /\ task' = [task EXCEPT ![Heart] =
                       IF h.pc = "retire" THEN h
                       ELSE [Idle EXCEPT !.kind = "beat",
                                         !.pc = IF h.pc \in Uncancelled THEN "idle" ELSE "stopped"]]
        /\ life' = IF life = Heart /\ h.pc # "retire" THEN None ELSE life
        /\ sess' = IF h.pc = "opened" THEN Released(h.s) ELSE sess
    /\ UNCHANGED <<published, cur, gen, last, pending, closed, bind, calls, faults, doubt>>

\* The await of the heartbeat task has returned, and the lock is free.
FinishClose ==
    /\ closing /\ ~closed /\ task[Heart].pc = "stopped" /\ life = None
    /\ closed' = TRUE
    /\ cur' = 0
    /\ sess' = Released(cur)
    /\ UNCHANGED <<published, gen, last, pending, closing, life, bind, task, calls, faults, doubt>>
-----------------------------------------------------------------------------
(* The daemon and the network.                                             *)

\* The daemon serves a request; a lease that has ended is answered LEASE_EXPIRED.
Exec(t) ==
    /\ task[t].pc = "flight" /\ Usable(task[t].s)
    /\ LET c == task[t]
           bound == IF c.op = "startup" THEN Cwd ELSE c.arg
       IN \E r \in {"ok", "refused"} :
            /\ sess[c.s].lease = "ended" => r = "refused"
            /\ IF sess[c.s].lease = "active" /\ r = "refused" THEN Binds(t) /\ Fault ELSE UNCHANGED faults
            /\ sess' = IF Binds(t) /\ r = "ok" THEN [sess EXCEPT ![c.s].bound = bound] ELSE sess
            /\ task' = [task EXCEPT ![t].pc = "back", ![t].res = r]
    /\ UNCHANGED <<published, core, life, bind, calls, doubt>>

\* The heartbeat: LEASE_EXPIRED is only remembered (_background_failure).
ExecBeat ==
    /\ task[Heart].pc = "flight" /\ Usable(task[Heart].s)
    /\ task' = [task EXCEPT ![Heart] = [Idle EXCEPT !.kind = "beat"]]
    /\ UNCHANGED <<published, sess, core, life, bind, calls, faults, doubt>>

Break(s) ==
    /\ sess[s].open /\ Fault
    /\ sess' = [sess EXCEPT ![s].open = FALSE]
    /\ UNCHANGED <<published, core, life, bind, task, calls, doubt>>

\* No heartbeat reached the daemon in time: the lease ends, and its binding with it.
ExpireLease(s) ==
    /\ sess[s].lease = "active" /\ Fault
    /\ sess' = [sess EXCEPT ![s].lease = "ended", ![s].bound = None]
    /\ UNCHANGED <<published, core, life, bind, task, calls, doubt>>

\* A daemon dies, or is replaced while it still answers.
DaemonChanges ==
    /\ Fault
    /\ published' = published + 1
    /\ sess' \in {sess, [s \in DOMAIN sess |-> IF sess[s].daemon = published THEN Dead ELSE sess[s]]}
    /\ UNCHANGED <<core, life, bind, task, calls, doubt>>
-----------------------------------------------------------------------------
Next ==
    \/ \E t \in Call :
        \/ \E k \in Kinds \ {"beat"}, w \in Workspace \cup {None} : CallTool(t, k, w)
        \/ EnsureStartupBinding(t) \/ Enter(t) \/ Exec(t) \/ Answer(t)
    \/ \E t \in Task :
        \/ Check(t) \/ Drop(t) \/ Recover(t) \/ OpenSession(t)
        \/ Restore(t) \/ Install(t) \/ OpenFails(t) \/ Retire(t)
    \/ Beat \/ ExecBeat \/ BeginClose \/ FinishClose \/ DaemonChanges
    \/ \E s \in DOMAIN sess : Break(s) \/ ExpireLease(s)

Spec == Init /\ [][Next]_vars
-----------------------------------------------------------------------------
(* Properties.                                                             *)

\* Whatever sessions are lost and recovered meanwhile, a call with an effect is
\* submitted to a daemon at most once, and any other at most twice.
NeverReplayed ==
    \A t \in Call : task[t].op = "main" => task[t].sent <= IF task[t].kind \in {"edit", "activate"} THEN 1 ELSE 2

\* Tasks that lose the same session recover it once: a session is installed for
\* a loss, never for each task that noticed it.
OneRecoveryPerLoss == gen <= 1 + faults

\* What was lost is made good once: no effect is repeated, no loss is recovered twice.
RecoveredOnce == NeverReplayed /\ OneRecoveryPerLoss

\* Outside the lifecycle lock the connector owns at most one lease: every other lease
\* it ever acquired has ended, or belongs to a session whose release was lost.
NoLeakedLease == life = None => \A s \in DOMAIN sess : Holds(s) => s = cur

\* While nothing that binds is running, the lease of the installed session is bound to
\* the workspace the connector remembers, also after a recovery.  That holds as long as
\* the lease does: one that expired is not acquired again, its calls are answered
\* LEASE_EXPIRED until the client closes.
BindingRestored == ~doubt /\ cur # 0 /\ Holds(cur) /\ (\A t \in Task : ~Binding(t)) => sess[cur].bound = last

\* Outside a recovery the connector owns no lease but the installed session's, and while
\* that one is active it is bound to what the connector remembers.
OneBoundLease == NoLeakedLease /\ BindingRestored
=============================================================================

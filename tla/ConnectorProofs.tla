-------------------------- MODULE ConnectorProofs --------------------------
(***************************************************************************)
(* RecoveredOnce and OneBoundLease of Connector, for any number of calls   *)
(* that are open at the same time and any number of losses.                *)
(*                                                                         *)
(* Neither is inductive.  That a loss is recovered once needs that a task  *)
(* about to recover has seen the loss of the session that is installed,    *)
(* not of an earlier one; that the new lease has the remembered binding    *)
(* needs that nothing changes the memory while the binding is restored.    *)
(***************************************************************************)
EXTENDS Connector, SequenceTheorems, TLAPS

USE Zenon  \* the default; SMT is named where it is needed

\* A task with these local variables holds the lifecycle lock, or has a snapshot.
Recovering == {"open", "opened", "retire"}
Snapshot == {"check", "flight", "back"}

\* The session is of no use to its connector: its transport is gone, or its daemon
\* is no longer the published one.
IsLost(s) == ~sess[s].open \/ sess[s].daemon # published

\* The lifecycle lock is held by the task that recovers.
Locked == \A t \in Task : task[t].pc \in Recovering <=> life = t

\* The heartbeat binds nothing.
HeartOK == task[Heart].op = "main" /\ task[Heart].kind = "beat"

\* What a task knows of the sessions.
Placed(c) ==
    /\ c.g <= gen
    /\ c.pc \in Snapshot => c.s \in 1..Len(sess) /\ (c.g = gen /\ ~closed => c.s = cur)
    /\ c.pc = "recover" /\ c.g = gen /\ ~closed => IsLost(cur)
    /\ c.pc \in Recovering => ~closed
    /\ c.pc = "open" => c.s = 0 /\ IsLost(cur)
    /\ c.pc = "opened" => /\ c.s \in 1..Len(sess) /\ c.s # cur
                          /\ IsLost(cur) /\ gen < Len(sess)
    /\ c.pc = "retire" => c.s \in 1..Len(sess) /\ c.s # cur

\* How often a task has submitted its request.
Sent(c) ==
    /\ c.pc \in {"idle", "bind", "enter", "stopped"} => c.sent = 0 /\ ~c.second
    /\ c.pc = "check" => c.sent <= IF c.second THEN 1 ELSE 0
    /\ c.pc \in {"flight", "back"} => c.sent <= IF c.second THEN 2 ELSE 1
    /\ c.pc \in Recovering \cup {"recover"} => ~c.second /\ c.sent <= 1
    /\ c.second => c.op = "startup" \/ c.kind \notin Effects

\* Every generation after the first was paid for by a fault, and so was the loss of
\* the installed session and of one that is about to be installed.
Losses ==
    /\ gen <= 1 + faults
    /\ ~closed /\ IsLost(cur) => gen <= faults
    /\ \A t \in Task : task[t].pc = "opened" /\ IsLost(task[t].s) => gen + 1 <= faults

\* A session whose lease the connector can still use.
Held(r) == r.open /\ r.lease = "active"

\* A lease besides the installed one is known to the task that recovers.
Owned ==
    \A s \in 1..Len(sess) : s # cur /\ Held(sess[s]) =>
        life \in Task /\ task[life].pc \in {"opened", "retire"} /\ task[life].s = s

\* What a task that binds binds to.
Target(c) == IF c.op = "startup" THEN Cwd ELSE c.arg

\* The daemon has bound the workspace of a task that has not heard of it yet.
Bound(t) == task[t].pc = "back" /\ Binds(t) /\ task[t].res = "ok"

\* While the client is not in doubt one task at a time binds, on the installed session,
\* and the lease has the remembered binding until that task is served.
Known ==
    /\ \A t, u \in Task : Binding(t) /\ Binding(u) => t = u
    /\ \A t \in Task : task[t].pc \in {"flight", "back"} /\ Binds(t) => task[t].g = gen
    /\ \A t \in Task : task[t].pc \in {"open", "opened"} => task[t].saved = last
    /\ \A t \in Task : task[t].pc = "opened" /\ task[t].res = "ok" /\ Held(sess[task[t].s]) =>
          sess[task[t].s].bound = last
    /\ cur # 0 /\ Held(sess[cur]) =>
          /\ \A t \in Task : Bound(t) => sess[cur].bound = Target(task[t])
          /\ (\A t \in Task : ~Bound(t)) => sess[cur].bound = last

Inv ==
    /\ TypeOK /\ (closed <=> cur = 0)
    /\ \A s \in 1..Len(sess) : sess[s].daemon <= published
    /\ Locked /\ HeartOK
    /\ \A t \in Task : Placed(task[t]) /\ Sent(task[t])
    /\ Losses /\ Owned
    /\ ~doubt => Known
-----------------------------------------------------------------------------
(* What the steps do to the variables.                                     *)

\* The types, in the form the provers use them.
LEMMA Types ==
    ASSUME TypeOK
    PROVE  /\ \A t \in Task : task[t] \in Local
           /\ Len(sess) \in Nat /\ DOMAIN sess = 1..Len(sess)
           /\ \A s \in 1..Len(sess) : sess[s] \in Session
           /\ cur \in 0..Len(sess) /\ gen \in Nat /\ gen >= 1 /\ faults \in Nat
           /\ published \in Nat /\ last \in Path
<1>1. Len(sess) \in Nat /\ sess \in [1..Len(sess) -> Session]  BY LenProperties DEF TypeOK
<1>. QED  BY SMT, <1>1 DEF TypeOK

LEMMA IdleType ==
    /\ Idle \in Local
    /\ \A k \in Kinds : [Idle EXCEPT !.kind = k] \in Local
  BY DEF Idle, Local, Kinds, Path

\* A step changes the local variables of one task.
Moves(t) == task'[t] \in Local /\ task' = [task EXCEPT ![t] = task'[t]]

\* A task whose request has ended.
Ended(c) == c.pc \in {"idle", "enter"} /\ c.sent = 0 /\ ~c.second /\ c.g = 0

\* The end of a call or of its startup activation.
LEMMA ReturnEffect ==
    ASSUME TypeOK, HeartOK, NEW t \in Task, NEW r, Return(t, r)
    PROVE  /\ Moves(t) /\ Ended(task'[t])
           /\ t = Heart => task'[t].op = "main" /\ task'[t].kind = "beat"
           /\ bind' \in Call \cup {None} /\ last' \in Path /\ pending' \in {Cwd, None}
           /\ r = "ok" /\ Binds(t) => last' = Target(task[t])
           /\ ~(r = "ok" /\ Binds(t)) => last' = last
<1>1. task[t] \in Local /\ last \in Path  BY Types
<1>2. task[t].kind \in Kinds /\ task[t].arg \in Path  BY <1>1 DEF Local
<1>3. CASE task[t].op = "startup"
  <2>1. t # Heart  BY <1>3 DEF HeartOK
  <2>2. PICK e : e = IF r = "ok" THEN [Idle EXCEPT !.pc = "enter", !.kind = task[t].kind] ELSE Idle
    OBVIOUS
  <2>3. task' = [task EXCEPT ![t] = e] /\ task'[t] = e  BY <1>3, <2>2 DEF Return, TypeOK
  <2>4. e \in Local /\ Ended(e)  BY <1>2, <2>2 DEF Idle, Local, Kinds, Path, Ended
  <2>5. /\ bind' = None /\ (r = "ok" => last' = Cwd /\ pending' = None)
        /\ r # "ok" => last' = last /\ pending' = pending
    BY <1>3 DEF Return
  <2>6. /\ bind' \in Call \cup {None} /\ last' \in Path /\ pending' \in {Cwd, None}
        /\ r = "ok" /\ Binds(t) => last' = Target(task[t])
        /\ ~(r = "ok" /\ Binds(t)) => last' = last
    BY <1>1, <1>3, <2>5 DEF Binds, Target, TypeOK, Path
  <2>. QED  BY <2>1, <2>3, <2>4, <2>6 DEF Moves
<1>4. CASE task[t].op # "startup"
  <2>2. PICK e : e = IF t = Heart THEN [Idle EXCEPT !.kind = "beat"] ELSE Idle
    OBVIOUS
  <2>3. task' = [task EXCEPT ![t] = e] /\ task'[t] = e  BY <1>4, <2>2 DEF Return, TypeOK
  <2>4. e \in Local /\ Ended(e) /\ (t = Heart => e.op = "main" /\ e.kind = "beat")
    BY <2>2 DEF Idle, Local, Kinds, Path, Ended
  <2>5. /\ bind' = bind
        /\ r = "ok" /\ task[t].kind = "activate" => last' = task[t].arg /\ pending' = None
        /\ ~(r = "ok" /\ task[t].kind = "activate") => last' = last /\ pending' = pending
    BY <1>4 DEF Return
  <2>6. /\ bind' \in Call \cup {None} /\ last' \in Path /\ pending' \in {Cwd, None}
        /\ r = "ok" /\ Binds(t) => last' = Target(task[t])
        /\ ~(r = "ok" /\ Binds(t)) => last' = last
    BY <1>1, <1>2, <1>4, <2>5 DEF Binds, Target, TypeOK
  <2>. QED  BY <2>3, <2>4, <2>6 DEF Moves
<1>. QED  BY <1>3, <1>4

\* ConnectorSessionLost: the task recovers, or ends.
LEMMA LostEffect ==
    ASSUME TypeOK, HeartOK, NEW t \in Task, Lost(t)
    PROVE  /\ Moves(t)
           /\ \/ Ended(task'[t])
              \/ /\ task'[t].pc = "recover" /\ ~task[t].second /\ ~task'[t].second
                 /\ task'[t].sent = task[t].sent /\ task'[t].g = task[t].g
           /\ t = Heart => task'[t].op = "main" /\ task'[t].kind = "beat"
           /\ bind' \in Call \cup {None} /\ last' = last /\ pending' \in {Cwd, None}
<1>1. CASE task[t].second
  <2>1. Return(t, "error")  BY <1>1 DEF Lost
  <2>. QED  BY SMT, <2>1, ReturnEffect
<1>2. CASE ~task[t].second
  <2>1. task[t] \in Local  BY Types
  <2>2. PICK e : e = [task[t] EXCEPT !.pc = "recover", !.s = 0, !.res = "none"]  OBVIOUS
  <2>3. task' = [task EXCEPT ![t] = e] /\ task'[t] = e  BY <1>2, <2>2 DEF Lost, TypeOK
  <2>4. /\ e \in Local /\ e.pc = "recover" /\ e.sent = task[t].sent /\ ~e.second /\ e.g = task[t].g
        /\ e.op = task[t].op /\ e.kind = task[t].kind
    BY <1>2, <2>1, <2>2 DEF Local
  <2>5. bind' = bind /\ last' = last /\ pending' = pending  BY <1>2 DEF Lost
  <2>. QED  BY <1>2, <2>3, <2>4, <2>5 DEF TypeOK, HeartOK, Moves
<1>. QED  BY <1>1, <1>2

\* The end of a recovery: the request is sent again on the new session, or given up.
LEMMA RecoveredEffect ==
    ASSUME TypeOK, HeartOK, NEW t \in Task, NEW ok \in BOOLEAN, Recovered(t, ok), cur' = cur, gen' = gen
    PROVE  /\ Moves(t)
           /\ \/ Ended(task'[t])
              \/ /\ task'[t].pc = "check" /\ ok /\ task'[t].s = cur /\ task'[t].g = gen
                 /\ task'[t].second /\ task'[t].sent = task[t].sent
                 /\ task'[t].op = "startup" \/ task'[t].kind \notin Effects
           /\ t = Heart => task'[t].op = "main" /\ task'[t].kind = "beat"
           /\ bind' \in Call \cup {None} /\ last' = last /\ pending' \in {Cwd, None}
<1>1. CASE ok /\ t # Heart /\ Retried(t)
  <2>1. task[t] \in Local /\ cur \in Nat /\ gen \in Nat  BY SMT, Types
  <2>2. PICK e : e = [task[t] EXCEPT !.pc = "check", !.s = cur, !.g = gen, !.second = TRUE,
                                     !.saved = None, !.res = "none"]
    OBVIOUS
  <2>3. task' = [task EXCEPT ![t] = e] /\ task'[t] = e
    <3>1. task' = [task EXCEPT ![t].pc = "check", ![t].s = cur, ![t].g = gen, ![t].second = TRUE,
                               ![t].saved = None, ![t].res = "none"]
      BY <1>1 DEF Recovered
    <3>. QED  BY <2>2, <3>1 DEF TypeOK
  <2>4. /\ e \in Local /\ e.pc = "check" /\ e.s = cur /\ e.g = gen /\ e.second /\ e.sent = task[t].sent
        /\ e.op = task[t].op /\ e.kind = task[t].kind
    BY <2>1, <2>2 DEF Local, Path
  <2>5. bind' = bind /\ last' = last /\ pending' = pending  BY <1>1 DEF Recovered
  <2>. QED  BY <1>1, <2>3, <2>4, <2>5 DEF Retried, TypeOK, Moves
<1>2. CASE ~(ok /\ t # Heart /\ Retried(t))
  <2>1. PICK r \in {"uncertain", "error"} : Return(t, r)  BY <1>2 DEF Recovered
  <2>. QED  BY <2>1, ReturnEffect
<1>. QED  BY <1>1, <1>2
-----------------------------------------------------------------------------
(* Steps of one task that leave the sessions alone.                        *)

LEMMA TaskMoves ==
    ASSUME Inv, NEW t \in Task, NEW e \in Local, task' = [task EXCEPT ![t] = e],
           UNCHANGED <<published, sess, cur, gen, closed, faults>>,
           \A u \in Task \ {t} : life' = u <=> life = u,
           e.pc \in Recovering <=> life' = t, life' \in Task \cup {None},
           task[t].pc \notin {"opened", "retire"}, e.pc \notin {"opened", "retire"},
           Placed(e), Sent(e), t = Heart => e.op = "main" /\ e.kind = "beat",
           bind' \in Call \cup {None}, last' \in Path, pending' \in {Cwd, None},
           {closing', doubt'} \subseteq BOOLEAN, calls' \in 0..MaxCalls,
           ~doubt' => Known'
    PROVE  Inv'
<1>1. /\ task'[t] = e /\ \A u \in Task \ {t} : task'[u] = task[u]
      /\ task' \in [Task -> Local]
  BY DEF Inv, TypeOK
<1>2. TypeOK'  BY <1>1 DEF Inv, TypeOK
<1>3. Locked'  BY <1>1 DEF Inv, Locked
<1>4. HeartOK'  BY <1>1 DEF Inv, HeartOK, Task
<1>5. \A u \in Task : Placed(task[u])' /\ Sent(task[u])'
  <2>. TAKE u \in Task
  <2>1. task'[u] = IF u = t THEN e ELSE task[u]  BY <1>1
  <2>2. Placed(task[u]) /\ Sent(task[u])  BY DEF Inv
  <2>. QED  BY SMT, <2>1, <2>2 DEF Placed, Sent, IsLost
<1>6. Losses'
  <2>1. \A u \in Task : task'[u].pc = "opened" => task[u].pc = "opened" /\ task'[u] = task[u]  BY <1>1
  <2>. QED  BY <2>1 DEF Inv, Losses, IsLost
<1>7. Owned'
  <2>. SUFFICES ASSUME NEW s \in 1..Len(sess), s # cur, Held(sess[s])
                PROVE  life' \in Task /\ task'[life'].pc \in {"opened", "retire"} /\ task'[life'].s = s
    BY DEF Owned
  <2>1. life \in Task /\ task[life].pc \in {"opened", "retire"} /\ task[life].s = s  BY DEF Inv, Owned
  <2>2. life # t  BY <2>1
  <2>3. life' = life  BY <2>1, <2>2
  <2>. QED  BY <1>1, <2>1, <2>2, <2>3
<1>. QED  BY <1>2, <1>3, <1>4, <1>5, <1>6, <1>7 DEF Inv

\* A task that binds nothing afterwards, and had nothing bound that is not remembered.
LEMMA KnownMoves ==
    ASSUME Inv, ~doubt, NEW t \in Task, NEW e \in Local, task' = [task EXCEPT ![t] = e],
           UNCHANGED <<sess, cur, gen>>, last' = last,
           e.pc \notin {"flight", "back", "open", "opened"},
           Bound(t) /\ cur # 0 => ~sess[cur].open
    PROVE  Known'
<1>1. /\ task'[t] = e /\ \A u \in Task \ {t} : task'[u] = task[u]
  BY DEF Inv, TypeOK
<1>2. Known  BY DEF Inv
<1>3. ~Binding(t)' /\ ~Bound(t)'  BY <1>1 DEF Binding, Bound
<1>4. \A u \in Task \ {t} : (Binding(u)' <=> Binding(u)) /\ (Bound(u)' <=> Bound(u))
  BY <1>1 DEF Binding, Bound, Binds
<1>5. \A u, v \in Task : Binding(u)' /\ Binding(v)' => u = v  BY <1>2, <1>3, <1>4 DEF Known
<1>6. \A u \in Task : task'[u].pc \in {"flight", "back"} /\ Binds(u)' => task'[u].g = gen
  BY <1>1, <1>2 DEF Known, Binds
<1>7. \A u \in Task : task'[u].pc \in {"open", "opened"} => task'[u].saved = last
  BY <1>1, <1>2 DEF Known
<1>8. \A u \in Task : task'[u].pc = "opened" /\ task'[u].res = "ok" /\ Held(sess[task'[u].s]) =>
          sess[task'[u].s].bound = last
  BY SMT, <1>1, <1>2 DEF Known
<1>9. ASSUME cur # 0, Held(sess[cur])
      PROVE  /\ \A u \in Task : Bound(u)' => sess[cur].bound = Target(task'[u])
             /\ (\A u \in Task : ~Bound(u)') => sess[cur].bound = last
  <2>1. ~Bound(t)  BY <1>9 DEF Held
  <2>2. \A u \in Task : Bound(u)' <=> Bound(u)  BY <1>3, <1>4, <2>1
  <2>3. \A u \in Task : Bound(u) => task'[u] = task[u]  BY <1>1, <2>1
  <2>. QED  BY <1>2, <1>9, <2>2, <2>3 DEF Known
<1>. QED  BY <1>5, <1>6, <1>7, <1>8, <1>9 DEF Known

\* Something outside goes wrong with a session or a daemon.
LEMMA FaultKeeps ==
    ASSUME Inv, UNCHANGED <<core, life, bind, task, calls, doubt>>,
           faults' = faults + 1, faults' \in 0..MaxFaults, published' \in Nat,
           sess' \in Seq(Session), Len(sess') = Len(sess),
           \A s \in 1..Len(sess) :
              /\ sess'[s].daemon <= published'
              /\ IsLost(s) => IsLost(s)'
              /\ Held(sess'[s]) => Held(sess[s]) /\ sess'[s].bound = sess[s].bound
    PROVE  Inv'
<1>. USE DEF core
<1>1. TypeOK'  BY DEF Inv, TypeOK
<1>2. Locked' /\ HeartOK'  BY DEF Inv, Locked, HeartOK
<1>3. ASSUME NEW t \in Task PROVE Placed(task[t])' /\ Sent(task[t])'
  <2>1. Placed(task[t]) /\ Sent(task[t])  BY DEF Inv
  <2>2. ~closed => cur \in 1..Len(sess)  BY SMT, Types DEF Inv
  <2>3. ~closed /\ IsLost(cur) => IsLost(cur)'  BY <2>2
  <2>4. Sent(task[t])'  BY <2>1 DEF Sent
  <2>5. Placed(task[t])'  BY <2>1, <2>3 DEF Placed, Recovering
  <2>. QED  BY <2>4, <2>5
<1>4. Losses'
  <2>1. gen \in Nat /\ faults \in Nat  BY Types DEF Inv
  <2>2. \A t \in Task : task[t].pc = "opened" => ~closed /\ IsLost(cur)
    BY DEF Inv, Placed, Recovering
  <2>3. \A t \in Task : task[t].pc = "opened" => gen <= faults  BY <2>2 DEF Inv, Losses
  <2>4. gen <= 1 + faults  BY DEF Inv, Losses
  <2>. QED  BY SMT, <2>1, <2>3, <2>4 DEF Losses
<1>5. Owned'  BY DEF Inv, Owned
<1>6. ASSUME ~doubt PROVE Known'
  <2>1. Known  BY <1>6 DEF Inv
  <2>2. \A t \in Task : (Binding(t)' <=> Binding(t)) /\ (Bound(t)' <=> Bound(t)) /\ (Binds(t)' <=> Binds(t))
    BY DEF Binding, Bound, Binds
  <2>3. cur # 0 => cur \in 1..Len(sess)  BY SMT, Types DEF Inv
  <2>4. \A t \in Task : task[t].pc = "opened" => task[t].s \in 1..Len(sess)  BY DEF Inv, Placed
  <2>5. /\ \A t, u \in Task : Binding(t)' /\ Binding(u)' => t = u
        /\ \A t \in Task : task'[t].pc \in {"flight", "back"} /\ Binds(t)' => task'[t].g = gen'
        /\ \A t \in Task : task'[t].pc \in {"open", "opened"} => task'[t].saved = last'
    BY <2>1, <2>2 DEF Known
  <2>6. \A t \in Task : task'[t].pc = "opened" /\ task'[t].res = "ok" /\ Held(sess'[task'[t].s]) =>
          sess'[task'[t].s].bound = last'
    BY <2>1, <2>4 DEF Known
  <2>7. ASSUME cur' # 0, Held(sess'[cur'])
        PROVE  /\ \A t \in Task : Bound(t)' => sess'[cur'].bound = Target(task'[t])
               /\ (\A t \in Task : ~Bound(t)') => sess'[cur'].bound = last'
    <3>1. cur # 0 /\ Held(sess[cur]) /\ sess'[cur'].bound = sess[cur].bound  BY <2>3, <2>7
    <3>. QED  BY <2>1, <2>2, <3>1 DEF Known
  <2>. QED  BY <2>5, <2>6, <2>7 DEF Known
<1>. QED  BY <1>1, <1>2, <1>3, <1>4, <1>5, <1>6 DEF Inv

\* A task whose request has ended knows nothing.
LEMMA EndedOK ==
    ASSUME TypeOK, NEW c \in Local, Ended(c)
    PROVE  Placed(c) /\ Sent(c) /\ c.pc \notin Recovering /\ c.pc \notin Snapshot
<1>1. gen \in Nat  BY Types
<1>2. c.pc \in {"idle", "enter"} /\ c.g <= gen  BY SMT, <1>1 DEF Ended
<1>3. c.second = FALSE  BY DEF Ended, Local
<1>. QED  BY <1>2, <1>3 DEF Ended, Placed, Sent, Recovering, Snapshot

\* A request whose session is lost.
LEMMA LostInv ==
    ASSUME Inv, NEW t \in Task, task[t].pc \in Snapshot, Lost(t),
           UNCHANGED <<published, sess, cur, gen, closing, closed, life, calls, faults, doubt>>,
           task[t].g = gen /\ ~closed => IsLost(cur),
           ~doubt /\ Bound(t) /\ cur # 0 => ~sess[cur].open
    PROVE  Inv'
<1>1. TypeOK /\ HeartOK /\ Placed(task[t]) /\ Sent(task[t]) /\ task[t] \in Local  BY Types DEF Inv
<1>2. PICK e : e = task'[t]  OBVIOUS
<1>3. /\ e \in Local /\ task' = [task EXCEPT ![t] = e]
      /\ \/ Ended(e)
         \/ e.pc = "recover" /\ ~task[t].second /\ ~e.second /\ e.sent = task[t].sent /\ e.g = task[t].g
      /\ t = Heart => e.op = "main" /\ e.kind = "beat"
      /\ bind' \in Call \cup {None} /\ last' = last /\ pending' \in {Cwd, None}
  BY <1>1, <1>2, LostEffect DEF Moves
<1>4. e.pc \in {"idle", "enter", "recover"}  BY <1>3 DEF Ended
<1>5. Placed(e) /\ Sent(e)
  <2>1. CASE Ended(e)  BY <1>1, <1>3, <2>1, EndedOK
  <2>2. CASE e.pc = "recover" /\ ~task[t].second /\ ~e.second /\ e.sent = task[t].sent /\ e.g = task[t].g
    <3>1. e.sent <= 1  BY SMT, <1>1, <2>2 DEF Sent, Snapshot, Local
    <3>2. Sent(e)  BY <2>2, <3>1 DEF Sent, Recovering
    <3>3. Placed(e)  BY <1>1, <2>2 DEF Placed, Recovering, Snapshot
    <3>. QED  BY <3>2, <3>3
  <2>. QED  BY <1>3, <2>1, <2>2
<1>6. ~doubt => Known'  BY <1>3, <1>4, KnownMoves
<1>7. life # t  BY DEF Inv, Locked, Recovering, Snapshot
<1>8. last' \in Path /\ {closing', doubt'} \subseteq BOOLEAN /\ calls' \in 0..MaxCalls /\ life' \in Task \cup {None}
  BY <1>1, <1>3 DEF TypeOK
<1>9. e.pc \notin Recovering /\ task[t].pc \notin {"opened", "retire"}  BY <1>4 DEF Recovering, Snapshot
<1>. QED  BY <1>3, <1>5, <1>6, <1>7, <1>8, <1>9, TaskMoves DEF Recovering

\* A request that ends.
LEMMA ReturnInv ==
    ASSUME Inv, NEW t \in Task, task[t].pc \notin Recovering, NEW r, Return(t, r),
           UNCHANGED <<published, sess, cur, gen, closing, closed, life, calls, faults, doubt>>,
           ~doubt => Known'
    PROVE  Inv'
<1>1. TypeOK /\ HeartOK  BY DEF Inv
<1>2. PICK e : e = task'[t]  OBVIOUS
<1>3. /\ e \in Local /\ task' = [task EXCEPT ![t] = e] /\ Ended(e)
      /\ t = Heart => e.op = "main" /\ e.kind = "beat"
      /\ bind' \in Call \cup {None} /\ last' \in Path /\ pending' \in {Cwd, None}
  BY <1>1, <1>2, ReturnEffect DEF Moves
<1>4. Placed(e) /\ Sent(e) /\ e.pc \notin Recovering  BY <1>1, <1>3, EndedOK
<1>5. life # t  BY DEF Inv, Locked
<1>6. {closing', doubt'} \subseteq BOOLEAN /\ calls' \in 0..MaxCalls /\ life' \in Task \cup {None}
  BY <1>1 DEF TypeOK
<1>. QED  BY <1>3, <1>4, <1>5, <1>6, TaskMoves DEF Recovering
-----------------------------------------------------------------------------
(* The actions that leave the sessions alone.                              *)

\* A call arrives.
LEMMA CallToolInv ==
    ASSUME Inv, NEW t \in Call, NEW k \in Kinds \ {"beat"}, NEW w \in Workspace \cup {None}, CallTool(t, k, w)
    PROVE  Inv'
<1>1. t \in Task /\ t # Heart /\ TypeOK  BY TaskAssumption DEF Inv, Task
<1>2. PICK p \in {"enter", "bind"} : p = IF k = "activate" THEN "enter" ELSE "bind"  OBVIOUS
<1>3. PICK e : e = [Idle EXCEPT !.kind = k, !.arg = w, !.pc = p]  OBVIOUS
<1>4. /\ e \in Local /\ e.pc \in {"enter", "bind"} /\ e.sent = 0 /\ ~e.second /\ e.g = 0
      /\ task' = [task EXCEPT ![t] = e]
  <2>1. k \in Kinds /\ w \in Path  BY DEF Path
  <2>2. e = [pc |-> p, kind |-> k, arg |-> w, op |-> "main", s |-> 0, g |-> 0,
             second |-> FALSE, res |-> "none", sent |-> 0, saved |-> None]
    BY <1>3 DEF Idle
  <2>3. e \in Local /\ e.pc = p /\ e.sent = 0 /\ ~e.second /\ e.g = 0  BY <2>1, <2>2 DEF Local, Path
  <2>. QED  BY <1>2, <1>3, <2>3 DEF CallTool
<1>5. /\ UNCHANGED <<published, sess, cur, gen, closed, faults, life, bind, last, pending, closing, doubt>>
      /\ task[t].pc = "idle" /\ calls' = calls + 1 /\ calls < MaxCalls
  BY DEF CallTool, core
<1>6. gen \in Nat  BY <1>1, Types
<1>7. Placed(e) /\ Sent(e)  BY SMT, <1>4, <1>6 DEF Placed, Sent, Recovering, Snapshot
<1>8. ~doubt => Known'  BY <1>1, <1>4, <1>5, KnownMoves DEF Bound
<1>9. /\ {closing', doubt'} \subseteq BOOLEAN /\ calls' \in 0..MaxCalls /\ life' \in Task \cup {None}
      /\ bind' \in Call \cup {None} /\ last' \in Path /\ pending' \in {Cwd, None}
  BY SMT, <1>1, <1>5, BoundsAssumption DEF TypeOK
<1>10. life # t /\ e.pc \notin Recovering  BY <1>1, <1>4, <1>5 DEF Inv, Locked, Recovering
<1>. QED  BY <1>1, <1>4, <1>5, <1>7, <1>8, <1>9, <1>10, TaskMoves DEF Recovering

\* The startup binding is needed, or has been made.
LEMMA EnsureStartupBindingInv == ASSUME Inv, NEW t \in Call, EnsureStartupBinding(t) PROVE Inv'
<1>1. t \in Task /\ t # Heart /\ TypeOK  BY TaskAssumption DEF Inv, Task
<1>2. PICK e : e = [task[t] EXCEPT !.pc = "enter", !.op = IF pending = None THEN "main" ELSE "startup"]
  OBVIOUS
<1>3. task[t] \in Local /\ task[t].pc = "bind" /\ Sent(task[t]) /\ Placed(task[t])
  BY <1>1, Types DEF EnsureStartupBinding, Inv
<1>4. /\ e \in Local /\ e.pc = "enter" /\ e.sent = task[t].sent /\ e.second = task[t].second
      /\ e.g = task[t].g
  BY <1>2, <1>3 DEF Local
<1>5. task' = [task EXCEPT ![t] = e]  BY <1>1, <1>2 DEF EnsureStartupBinding, TypeOK
<1>6. /\ UNCHANGED <<published, sess, cur, gen, closed, faults, life, last, pending, closing, doubt, calls>>
      /\ bind' \in {None, t}
  BY DEF EnsureStartupBinding, core
<1>7. Placed(e) /\ Sent(e)  BY <1>3, <1>4 DEF Placed, Sent, Recovering, Snapshot
<1>8. ~doubt => Known'  BY <1>1, <1>3, <1>4, <1>5, <1>6, KnownMoves DEF Bound
<1>9. /\ {closing', doubt'} \subseteq BOOLEAN /\ calls' \in 0..MaxCalls /\ life' \in Task \cup {None}
      /\ bind' \in Call \cup {None} /\ last' \in Path /\ pending' \in {Cwd, None}
  BY <1>1, <1>6 DEF TypeOK
<1>10. life # t /\ e.pc \notin Recovering  BY <1>1, <1>3, <1>4 DEF Inv, Locked, Recovering
<1>. QED  BY <1>1, <1>3, <1>4, <1>5, <1>6, <1>7, <1>8, <1>9, <1>10, TaskMoves DEF Recovering

\* A task takes its snapshot.
LEMMA SnapshotInv ==
    ASSUME Inv, NEW t \in Task, task[t].pc \in {"enter", "idle"}, ~closed,
           task' = [task EXCEPT ![t].pc = "check", ![t].s = cur, ![t].g = gen],
           UNCHANGED <<published, sess, core, life, bind, calls, faults, doubt>>
    PROVE  Inv'
<1>1. TypeOK /\ task[t] \in Local /\ Sent(task[t]) /\ cur \in 1..Len(sess) /\ gen \in Nat /\ Len(sess) \in Nat
  BY SMT, Types DEF Inv
<1>2. PICK e : e = [task[t] EXCEPT !.pc = "check", !.s = cur, !.g = gen]  OBVIOUS
<1>3. /\ e \in Local /\ e.pc = "check" /\ e.sent = task[t].sent /\ e.second = task[t].second
      /\ e.s = cur /\ e.g = gen /\ e.op = task[t].op /\ e.kind = task[t].kind
  <2>1. task[t] \in Local /\ cur \in Nat /\ gen \in Nat  BY SMT, <1>1
  <2>. QED  BY <1>2, <2>1 DEF Local
<1>4. task' = [task EXCEPT ![t] = e]  BY <1>1, <1>2 DEF TypeOK
<1>5. Placed(e)  BY SMT, <1>1, <1>3 DEF Placed, Recovering
<1>6. Sent(e)  BY SMT, <1>1, <1>3 DEF Sent, Recovering
<1>7. ~doubt => Known'  BY <1>3, <1>4, KnownMoves DEF Bound, core
<1>8. /\ {closing', doubt'} \subseteq BOOLEAN /\ calls' \in 0..MaxCalls /\ life' \in Task \cup {None}
      /\ bind' \in Call \cup {None} /\ last' \in Path /\ pending' \in {Cwd, None}
  BY <1>1 DEF TypeOK, core
<1>9. life # t /\ e.pc \notin Recovering  BY <1>3 DEF Inv, Locked, Recovering
<1>10. t = Heart => e.op = "main" /\ e.kind = "beat"  BY <1>3 DEF Inv, HeartOK
<1>. QED  BY <1>3, <1>4, <1>5, <1>6, <1>7, <1>8, <1>9, <1>10, TaskMoves DEF Recovering, core

\* start() and the snapshot of a call.
LEMMA EnterInv == ASSUME Inv, NEW t \in Call, Enter(t) PROVE Inv'
<1>1. t \in Task /\ task[t].pc = "enter" /\ TypeOK /\ HeartOK  BY DEF Enter, Inv, Task
<1>2. CASE closed
  <2>1. Return(t, "error") /\ UNCHANGED <<published, sess, cur, gen, closing, closed, life, calls, faults, doubt>>
    BY <1>2 DEF Enter
  <2>2. PICK e : e = task'[t]  OBVIOUS
  <2>3. e \in Local /\ task' = [task EXCEPT ![t] = e] /\ last' = last /\ e.pc \in {"idle", "enter"}
    BY SMT, <1>1, <2>1, <2>2, ReturnEffect DEF Moves, Ended
  <2>4. ~doubt => Known'  BY <1>1, <2>1, <2>3, KnownMoves DEF Bound
  <2>. QED  BY <1>1, <2>1, <2>4, ReturnInv DEF Recovering
<1>3. CASE ~closed  BY <1>1, <1>3, SnapshotInv DEF Enter, core
<1>. QED  BY <1>2, <1>3

\* The snapshot of the heartbeat.
LEMMA BeatInv == ASSUME Inv, Beat PROVE Inv'
<1>1. Heart \in Task  BY DEF Task
<1>. QED  BY <1>1, SnapshotInv DEF Beat

\* The request is submitted, or its session is found to be replaced.
LEMMA CheckInv == ASSUME Inv, NEW t \in Task, Check(t) PROVE Inv'
<1>1. TypeOK /\ HeartOK /\ Placed(task[t]) /\ Sent(task[t]) /\ task[t] \in Local /\ task[t].pc = "check"
  BY Types DEF Inv, Check
<1>2. CASE ~Current(t)
  <2>1. Lost(t) /\ UNCHANGED <<published, sess, cur, gen, closing, closed, life, calls, faults, doubt>>
    BY <1>2 DEF Check
  <2>2. task[t].g = gen /\ ~closed => IsLost(cur)  BY <1>2 DEF Current, IsLost, Inv
  <2>. QED  BY <1>1, <2>1, <2>2, LostInv DEF Bound, Snapshot
<1>3. CASE Current(t)
  <2>1. /\ task' = [task EXCEPT ![t].pc = "flight", ![t].sent = @ + 1]
        /\ doubt' = (doubt \/ (Binds(t) /\ Overlapped(t)))
        /\ UNCHANGED <<published, sess, core, life, bind, calls, faults>>
    BY <1>3 DEF Check, core
  <2>2. PICK e : e = [task[t] EXCEPT !.pc = "flight", !.sent = task[t].sent + 1]  OBVIOUS
  <2>3. /\ e \in Local /\ e.pc = "flight" /\ e.sent = task[t].sent + 1 /\ e.second = task[t].second
        /\ e.s = task[t].s /\ e.g = task[t].g /\ e.op = task[t].op /\ e.kind = task[t].kind
    <3>1. PICK n \in Nat : n = task[t].sent + 1  BY SMT, <1>1 DEF Local
    <3>2. e = [task[t] EXCEPT !.pc = "flight", !.sent = n]  BY <2>2, <3>1
    <3>3. task[t] \in Local  BY <1>1
    <3>. QED  BY <3>1, <3>2, <3>3 DEF Local
  <2>4. task' = [task EXCEPT ![t] = e]  BY <1>1, <2>1, <2>2 DEF TypeOK
  <2>5. Placed(e)  BY <1>1, <2>3 DEF Placed, Recovering, Snapshot
  <2>6. Sent(e)  BY SMT, <1>1, <2>3 DEF Sent, Recovering, Local
  <2>7. ASSUME ~doubt' PROVE Known'
    <3>1. ~doubt /\ Known /\ (Binds(t) => ~Overlapped(t))  BY <1>1, <2>1, <2>7 DEF Inv, TypeOK
    <3>2. task'[t] = e /\ \A u \in Task \ {t} : task'[u] = task[u]  BY <1>1, <2>4 DEF TypeOK
    <3>3. /\ \A u \in Task \ {t} : (Binding(u)' <=> Binding(u)) /\ (Bound(u)' <=> Bound(u))
          /\ (Binding(t)' <=> Binds(t)) /\ ~Bound(t)' /\ ~Bound(t) /\ (Binds(t)' <=> Binds(t))
      BY <1>1, <2>3, <3>2 DEF Binding, Bound, Binds
    <3>4. \A u, v \in Task : Binding(u)' /\ Binding(v)' => u = v
      BY <3>1, <3>3 DEF Known, Overlapped
    <3>5. \A u \in Task : task'[u].pc \in {"flight", "back"} /\ Binds(u)' => task'[u].g = gen
      BY <1>3, <2>3, <3>1, <3>2 DEF Known, Binds, Current
    <3>6. \A u \in Task : /\ task'[u].pc \in {"open", "opened"} => task'[u].saved = last
                          /\ task'[u].pc = "opened" /\ task'[u].res = "ok" /\ Held(sess[task'[u].s]) =>
                                sess[task'[u].s].bound = last
      <4>1. \A u \in Task : task'[u].pc \in {"open", "opened"} => task'[u] = task[u]  BY <2>3, <3>2
      <4>. QED  BY <3>1, <4>1 DEF Known
    <3>7. cur # 0 /\ Held(sess[cur]) =>
            /\ \A u \in Task : Bound(u)' => sess[cur].bound = Target(task'[u])
            /\ (\A u \in Task : ~Bound(u)') => sess[cur].bound = last
      <4>1. \A u \in Task : Bound(u)' <=> Bound(u)  BY <3>3
      <4>2. \A u \in Task : Bound(u) => task'[u] = task[u]  BY <3>2, <3>3
      <4>. QED  BY <3>1, <4>1, <4>2 DEF Known
    <3>. QED  BY <2>1, <3>4, <3>5, <3>6, <3>7 DEF Known, core
  <2>8. /\ {closing', doubt'} \subseteq BOOLEAN /\ calls' \in 0..MaxCalls /\ life' \in Task \cup {None}
        /\ bind' \in Call \cup {None} /\ last' \in Path /\ pending' \in {Cwd, None}
    BY <1>1, <2>1 DEF TypeOK, core
  <2>9. life # t /\ e.pc \notin Recovering  BY <1>1, <2>3 DEF Inv, Locked, Recovering
  <2>10. t = Heart => e.op = "main" /\ e.kind = "beat"  BY <2>3 DEF Inv, HeartOK
  <2>. QED
    BY <1>1, <2>1, <2>3, <2>4, <2>5, <2>6, <2>7, <2>8, <2>9, <2>10, TaskMoves DEF Recovering, core
<1>. QED  BY <1>2, <1>3

\* The transport is gone.
LEMMA DropInv == ASSUME Inv, NEW t \in Task, Drop(t) PROVE Inv'
<1>1. /\ Placed(task[t]) /\ task[t].pc \in Snapshot /\ ~sess[task[t].s].open /\ Lost(t)
      /\ task[t].pc \in {"flight", "back"}
      /\ UNCHANGED <<published, sess, cur, gen, closing, closed, life, calls, faults, doubt>>
  BY DEF Inv, Drop, Snapshot, Usable
<1>2. task[t].g = gen /\ ~closed => IsLost(cur)  BY <1>1 DEF Placed, IsLost
<1>3. ASSUME ~doubt, Bound(t), cur # 0 PROVE ~sess[cur].open
  <2>1. task[t].g = gen  BY <1>1, <1>3 DEF Inv, Known, Bound
  <2>2. ~closed  BY <1>3 DEF Inv
  <2>. QED  BY <1>1, <2>1, <2>2 DEF Placed
<1>. QED  BY <1>1, <1>2, <1>3, LostInv

\* The answer arrives.
LEMMA AnswerInv == ASSUME Inv, NEW t \in Call, Answer(t) PROVE Inv'
<1>1. t \in Task /\ task[t].pc = "back" /\ TypeOK /\ HeartOK  BY DEF Answer, Inv, Task
<1>2. UNCHANGED <<published, sess, cur, gen, closing, closed, life, calls, faults, doubt>>  BY DEF Answer
<1>3. CASE task[t].g # gen
  <2>1. Lost(t)  BY <1>3 DEF Answer
  <2>2. ~doubt => ~Bound(t)  BY <1>1, <1>3 DEF Inv, Known, Bound
  <2>. QED  BY <1>1, <1>2, <1>3, <2>1, <2>2, LostInv DEF Snapshot
<1>4. CASE task[t].g = gen
  <2>1. Return(t, task[t].res)  BY <1>4 DEF Answer
  <2>2. PICK e : e = task'[t]  OBVIOUS
  <2>3. /\ e \in Local /\ task' = [task EXCEPT ![t] = e] /\ e.pc \in {"idle", "enter"}
        /\ Bound(t) => last' = Target(task[t])
        /\ ~Bound(t) => last' = last
    BY <1>1, <2>1, <2>2, ReturnEffect DEF Moves, Ended, Bound
  <2>4. ASSUME ~doubt PROVE Known'
    <3>1. CASE ~Bound(t)  BY <1>1, <1>2, <2>3, <2>4, <3>1, KnownMoves
    <3>2. CASE Bound(t)
      <4>1. Known  BY <2>4 DEF Inv
      <4>2. task'[t] = e /\ \A u \in Task \ {t} : task'[u] = task[u]  BY <1>1, <2>3 DEF TypeOK
      <4>3. Binding(t)  BY <3>2 DEF Bound, Binding
      <4>4. \A u \in Task \ {t} : ~Binding(u)  BY <1>1, <4>1, <4>3 DEF Known
      <4>5. \A u \in Task : ~Binding(u)'  BY <2>3, <4>2, <4>4 DEF Binding, Binds
      <4>6. \A u \in Task : ~Bound(u)' /\ task'[u].pc \notin {"open", "opened"}
                            /\ ~(task'[u].pc \in {"flight", "back"} /\ Binds(u)')
        BY <4>5 DEF Binding, Bound
      <4>7. cur # 0 /\ Held(sess[cur]) => sess[cur].bound = last'  BY <1>1, <2>3, <3>2, <4>1 DEF Known
      <4>. QED  BY <1>2, <4>5, <4>6, <4>7 DEF Known
    <3>. QED  BY <3>1, <3>2
  <2>. QED  BY <1>1, <1>2, <2>1, <2>4, ReturnInv DEF Recovering
<1>. QED  BY <1>3, <1>4

\* The heartbeat is answered.
LEMMA ExecBeatInv == ASSUME Inv, ExecBeat PROVE Inv'
<1>1. Heart \in Task /\ task[Heart].pc = "flight" /\ TypeOK  BY DEF ExecBeat, Inv, Task
<1>2. PICK e : e = [Idle EXCEPT !.kind = "beat"]  OBVIOUS
<1>3. e \in Local /\ Ended(e) /\ e.op = "main" /\ e.kind = "beat"
  BY <1>2 DEF Idle, Local, Kinds, Path, Ended
<1>4. task' = [task EXCEPT ![Heart] = e]  BY <1>2 DEF ExecBeat
<1>5. UNCHANGED <<published, sess, cur, gen, last, pending, closing, closed, life, bind, calls, faults, doubt>>
  BY DEF ExecBeat, core
<1>6. Placed(e) /\ Sent(e) /\ e.pc \notin Recovering  BY <1>1, <1>3, EndedOK
<1>7. ~doubt => Known'
  <2>1. e.pc \in {"idle", "enter"}  BY <1>3 DEF Ended
  <2>. QED  BY <1>1, <1>3, <1>4, <1>5, <2>1, KnownMoves DEF Bound
<1>8. /\ {closing', doubt'} \subseteq BOOLEAN /\ calls' \in 0..MaxCalls /\ life' \in Task \cup {None}
      /\ bind' \in Call \cup {None} /\ last' \in Path /\ pending' \in {Cwd, None}
  BY <1>1, <1>5 DEF TypeOK
<1>9. life # Heart  BY <1>1 DEF Inv, Locked, Recovering
<1>. QED  BY <1>1, <1>3, <1>4, <1>5, <1>6, <1>7, <1>8, <1>9, TaskMoves DEF Recovering

\* A task that recovers finds the work done, or takes the lock to do it.
LEMMA RecoverInv == ASSUME Inv, NEW t \in Task, Recover(t) PROVE Inv'
<1>1. /\ TypeOK /\ HeartOK /\ Placed(task[t]) /\ Sent(task[t]) /\ task[t] \in Local
      /\ task[t].pc = "recover" /\ life = None
      /\ gen \in Nat /\ (~closed => cur \in 1..Len(sess))
  BY SMT, Types DEF Inv, Recover
<1>2. UNCHANGED <<published, sess, cur, gen, closing, closed, calls, faults>>  BY DEF Recover, Recovered, Return
<1>3. CASE closed \/ Superseded(t)
  <2>1. Recovered(t, ~closed) /\ UNCHANGED <<life, doubt>>  BY <1>3 DEF Recover
  <2>2. PICK e : e = task'[t]  OBVIOUS
  <2>3. /\ e \in Local /\ task' = [task EXCEPT ![t] = e]
        /\ \/ Ended(e)
           \/ /\ e.pc = "check" /\ ~closed /\ e.s = cur /\ e.g = gen /\ e.second /\ e.sent = task[t].sent
              /\ e.op = "startup" \/ e.kind \notin Effects
        /\ t = Heart => e.op = "main" /\ e.kind = "beat"
        /\ bind' \in Call \cup {None} /\ last' = last /\ pending' \in {Cwd, None}
    BY <1>1, <1>2, <2>1, <2>2, RecoveredEffect DEF Moves
  <2>4. Placed(e) /\ Sent(e) /\ e.pc \in {"idle", "enter", "check"}
    <3>1. CASE Ended(e)  BY <1>1, <2>3, <3>1, EndedOK DEF Ended
    <3>2. CASE /\ e.pc = "check" /\ ~closed /\ e.s = cur /\ e.g = gen /\ e.second /\ e.sent = task[t].sent
               /\ e.op = "startup" \/ e.kind \notin Effects
      BY SMT, <1>1, <3>2 DEF Placed, Sent, Recovering, Snapshot
    <3>. QED  BY <2>3, <3>1, <3>2
  <2>5. ~doubt => Known'  BY <1>1, <1>2, <2>3, <2>4, KnownMoves DEF Bound
  <2>6. /\ {closing', doubt'} \subseteq BOOLEAN /\ calls' \in 0..MaxCalls /\ life' \in Task \cup {None}
        /\ last' \in Path
    BY <1>1, <1>2, <2>1, <2>3 DEF TypeOK
  <2>7. life' # t  BY <1>1, <2>1, TaskAssumption DEF Task
  <2>. QED  BY <1>1, <1>2, <2>1, <2>3, <2>4, <2>5, <2>6, <2>7, TaskMoves DEF Recovering
<1>4. CASE ~(closed \/ Superseded(t))
  <2>1. /\ life' = t /\ task' = [task EXCEPT ![t].pc = "open", ![t].s = 0, ![t].saved = last]
        /\ doubt' = (doubt \/ Overlapped(t)) /\ UNCHANGED <<bind, last, pending>>
        /\ ~closed /\ task[t].g = gen
    BY <1>4 DEF Recover, Remembered, Superseded
  <2>2. PICK e : e = [task[t] EXCEPT !.pc = "open", !.s = 0, !.saved = last]  OBVIOUS
  <2>3. /\ e \in Local /\ e.pc = "open" /\ e.s = 0 /\ e.saved = last /\ e.sent = task[t].sent
        /\ e.second = task[t].second /\ e.g = task[t].g /\ e.op = task[t].op /\ e.kind = task[t].kind
    <3>1. task[t] \in Local /\ last \in Path  BY <1>1 DEF TypeOK
    <3>. QED  BY <2>2, <3>1 DEF Local
  <2>4. task' = [task EXCEPT ![t] = e]  BY <1>1, <2>1, <2>2 DEF TypeOK
  <2>5. Placed(e)  BY <1>1, <2>1, <2>3 DEF Placed, Recovering, Snapshot
  <2>6. Sent(e)  BY <1>1, <2>3 DEF Sent, Recovering
  <2>7. ASSUME ~doubt' PROVE Known'
    <3>1. ~doubt /\ Known /\ ~Overlapped(t)  BY <1>1, <2>1, <2>7 DEF Inv, TypeOK
    <3>2. task'[t] = e /\ \A u \in Task \ {t} : task'[u] = task[u]  BY <1>1, <2>4 DEF TypeOK
    <3>3. \A u \in Task \ {t} : ~Binding(u)  BY <3>1 DEF Overlapped
    <3>4. \A u \in Task \ {t} : ~Binding(u)'  BY <3>2, <3>3 DEF Binding, Binds
    <3>5. \A u \in Task : ~Bound(u)' /\ ~Bound(u)
      BY <1>1, <2>3, <3>2, <3>3, <3>4 DEF Binding, Bound
    <3>6. \A u \in Task : /\ ~(task'[u].pc \in {"flight", "back"} /\ Binds(u)') /\ task'[u].pc # "opened"
                          /\ task'[u].pc = "open" => task'[u].saved = last
      BY <2>3, <3>2, <3>4 DEF Binding
    <3>. QED  BY <1>2, <2>1, <3>1, <3>4, <3>5, <3>6 DEF Known
  <2>8. /\ {closing', doubt'} \subseteq BOOLEAN /\ calls' \in 0..MaxCalls /\ life' \in Task \cup {None}
        /\ bind' \in Call \cup {None} /\ last' \in Path /\ pending' \in {Cwd, None}
    BY <1>1, <1>2, <2>1 DEF TypeOK
  <2>9. \A u \in Task \ {t} : life' = u <=> life = u  BY <1>1, <2>1, TaskAssumption DEF Task
  <2>10. t = Heart => e.op = "main" /\ e.kind = "beat"  BY <1>1, <2>3 DEF HeartOK
  <2>11. e.pc \in Recovering /\ task[t].pc \notin {"opened", "retire"} /\ e.pc \notin {"opened", "retire"}
    BY <1>1, <2>3 DEF Recovering
  <2>. QED
    BY <1>2, <2>1, <2>3, <2>4, <2>5, <2>6, <2>7, <2>8, <2>9, <2>10, <2>11, TaskMoves
<1>. QED  BY <1>3, <1>4
-----------------------------------------------------------------------------
(* The actions that change the sessions.                                   *)

\* A session is released and closed.
LEMMA ReleasedEffect ==
    ASSUME TypeOK, NEW s \in 1..Len(sess), sess[s].daemon <= published
    PROVE  /\ Released(s) \in Seq(Session) /\ Len(Released(s)) = Len(sess)
           /\ \A u \in 1..Len(sess) : u # s => Released(s)[u] = sess[u]
           /\ ~Released(s)[s].open /\ Released(s)[s].daemon <= published
<1>1. sess \in Seq(Session) /\ sess[s] \in Session /\ published \in Nat /\ s \in DOMAIN sess
  BY Types DEF TypeOK
<1>2. PICK x : x = IF Usable(s) THEN Dead ELSE [sess[s] EXCEPT !.open = FALSE]  OBVIOUS
<1>3. x \in Session /\ ~x.open /\ x.daemon <= published
  <2>1. CASE Usable(s)
    <3>1. Dead \in Session /\ ~Dead.open /\ Dead.daemon = 0  BY DEF Dead, Session, Path
    <3>. QED  BY SMT, <1>1, <1>2, <2>1, <3>1
  <2>2. CASE ~Usable(s)
    <3>1. x = [sess[s] EXCEPT !.open = FALSE]  BY <1>2, <2>2
    <3>. QED  BY <1>1, <3>1 DEF Session
  <2>. QED  BY <2>1, <2>2
<1>4. Released(s) = [sess EXCEPT ![s] = x]  BY <1>2 DEF Released
<1>. QED  BY SMT, <1>1, <1>3, <1>4, ExceptSeq

LEMMA MoreFaults ==
    \A g, f, n \in Int : f <= n => (g <= f => g <= n) /\ (g <= 1 + f => g <= 1 + n)
  BY SMT

\* A task leaves its recovery; a session it held besides the installed one is closed.
LEMMA Leaves ==
    ASSUME Inv, NEW t \in Task, task[t].pc \in Recovering, NEW e \in Local, task' = [task EXCEPT ![t] = e],
           e.pc \in {"idle", "enter", "check", "stopped"}, Placed(e), Sent(e),
           t = Heart => e.op = "main" /\ e.kind = "beat",
           life' = None, UNCHANGED <<published, cur, gen, closed>>, last' = last,
           sess' = IF task[t].pc = "open" THEN sess ELSE Released(task[t].s),
           faults' \in 0..MaxFaults, faults' >= faults,
           bind' \in Call \cup {None}, pending' \in {Cwd, None},
           {closing', doubt'} \subseteq BOOLEAN, calls' \in 0..MaxCalls, doubt => doubt'
    PROVE  Inv'
<1>1. /\ task'[t] = e /\ \A u \in Task \ {t} : task'[u] = task[u]
      /\ task' \in [Task -> Local]
  BY DEF Inv, TypeOK
<1>2. /\ TypeOK /\ Len(sess) \in Nat /\ faults \in Nat /\ gen \in Nat
      /\ life = t /\ Placed(task[t]) /\ ~closed /\ cur \in 1..Len(sess)
  BY SMT, Types DEF Inv, Locked, Placed
<1>3. /\ sess' \in Seq(Session) /\ Len(sess') = Len(sess)
      /\ \A s \in 1..Len(sess) : s # task[t].s => sess'[s] = sess[s]
      /\ task[t].pc # "open" => ~sess'[task[t].s].open
      /\ \A s \in 1..Len(sess) : sess'[s].daemon <= published
      /\ task[t].s # cur
  <2>1. CASE task[t].pc = "open"  BY <1>2, <2>1 DEF Inv, TypeOK, Placed
  <2>2. CASE task[t].pc \in {"opened", "retire"}
    <3>1. task[t].s \in 1..Len(sess) /\ task[t].s # cur /\ sess[task[t].s].daemon <= published
      BY <1>2, <2>2 DEF Placed, Inv
    <3>2. sess' = Released(task[t].s)  BY <2>2
    <3>3. /\ sess' \in Seq(Session) /\ Len(sess') = Len(sess)
          /\ \A s \in 1..Len(sess) : s # task[t].s => sess'[s] = sess[s]
          /\ ~sess'[task[t].s].open /\ sess'[task[t].s].daemon <= published
      BY <1>2, <3>1, <3>2, ReleasedEffect
    <3>4. \A s \in 1..Len(sess) : sess[s].daemon <= published  BY DEF Inv
    <3>. QED  BY <3>1, <3>3, <3>4
  <2>. QED  BY <2>1, <2>2 DEF Recovering
<1>4. \A u \in Task \ {t} : task[u].pc \notin Recovering  BY <1>2 DEF Inv, Locked
<1>5. \A u \in Task : task'[u].pc \notin Recovering  BY <1>1, <1>4 DEF Recovering
<1>6. TypeOK'  BY <1>1, <1>2, <1>3 DEF TypeOK
<1>7. Locked'  BY <1>5, TaskAssumption DEF Locked, Task
<1>8. HeartOK'  BY <1>1 DEF Inv, HeartOK, Task
<1>9. ASSUME NEW u \in Task PROVE Placed(task[u])' /\ Sent(task[u])'
  <2>1. Placed(task'[u]) /\ Sent(task'[u])
    <3>1. task'[u] = IF u = t THEN e ELSE task[u]  BY <1>1
    <3>2. Placed(task[u]) /\ Sent(task[u])  BY DEF Inv
    <3>. QED  BY <3>1, <3>2
  <2>2. IsLost(cur)' <=> IsLost(cur)  BY <1>2, <1>3 DEF IsLost
  <2>. QED  BY <1>2, <1>3, <1>5, <2>1, <2>2 DEF Placed, Sent, Recovering
<1>10. Losses'
  <2>1. IsLost(cur)' <=> IsLost(cur)  BY <1>2, <1>3 DEF IsLost
  <2>2. gen <= 1 + faults /\ (~closed /\ IsLost(cur) => gen <= faults)  BY DEF Inv, Losses
  <2>3. faults' \in Int /\ faults <= faults'  BY SMT, <1>2
  <2>4. gen \in Int /\ faults \in Int  BY SMT, <1>2
  <2>5. gen <= 1 + faults' /\ (~closed /\ IsLost(cur) => gen <= faults')  BY <2>2, <2>3, <2>4, MoreFaults
  <2>. QED  BY <1>5, <2>1, <2>5 DEF Losses, Recovering
<1>11. Owned'
  <2>. SUFFICES ASSUME NEW s \in 1..Len(sess), s # cur, Held(sess'[s])
                PROVE  FALSE
    BY <1>3 DEF Owned
  <2>1. s # task[t].s \/ task[t].pc = "open"  BY <1>3 DEF Held
  <2>2. sess[s] = sess'[s]  BY <1>3, <2>1
  <2>. QED  BY <1>2, <2>1, <2>2 DEF Inv, Owned
<1>12. ASSUME ~doubt' PROVE Known'
  <2>1. Known  BY <1>12 DEF Inv
  <2>2. \A u \in Task \ {t} : (Binding(u)' <=> Binding(u)) /\ (Bound(u)' <=> Bound(u))
    BY <1>1 DEF Binding, Bound, Binds
  <2>3. ~Binding(t)' /\ ~Bound(t)' /\ ~Bound(t)  BY <1>1 DEF Binding, Bound, Recovering
  <2>4. \A u, v \in Task : Binding(u)' /\ Binding(v)' => u = v  BY <2>1, <2>2, <2>3 DEF Known
  <2>5. \A u \in Task : task'[u].pc \in {"flight", "back"} /\ Binds(u)' => task'[u].g = gen
    BY <1>1, <2>1 DEF Known, Binds
  <2>6. \A u \in Task : task'[u].pc \notin {"open", "opened"}  BY <1>5 DEF Recovering
  <2>7. sess'[cur] = sess[cur]  BY <1>2, <1>3
  <2>8. \A u \in Task : Bound(u)' <=> Bound(u)  BY <2>2, <2>3
  <2>9. \A u \in Task : Bound(u) => task'[u] = task[u]  BY <1>1, <2>3
  <2>10. Held(sess[cur]) =>
           /\ \A u \in Task : Bound(u)' => sess[cur].bound = Target(task'[u])
           /\ (\A u \in Task : ~Bound(u)') => sess[cur].bound = last
    BY SMT, <1>2, <2>1, <2>8, <2>9 DEF Known
  <2>. QED  BY <2>4, <2>5, <2>6, <2>7, <2>10 DEF Known
<1>. QED  BY <1>2, <1>3, <1>6, <1>7, <1>8, <1>9, <1>10, <1>11, <1>12 DEF Inv

\* The opening of a session fails.
LEMMA OpenFailsInv == ASSUME Inv, NEW t \in Task, OpenFails(t) PROVE Inv'
<1>1. /\ TypeOK /\ HeartOK /\ Placed(task[t]) /\ task[t] \in Local /\ task[t].pc \in {"open", "opened"}
      /\ faults \in Nat
  BY Types DEF Inv, OpenFails
<1>2. /\ UNCHANGED <<published, cur, gen, closing, closed, calls>> /\ life' = None
      /\ doubt' = (doubt \/ Binds(t)) /\ Recovered(t, FALSE)
  BY DEF OpenFails
<1>3. PICK e : e = task'[t]  OBVIOUS
<1>4. /\ e \in Local /\ task' = [task EXCEPT ![t] = e] /\ Ended(e)
      /\ t = Heart => e.op = "main" /\ e.kind = "beat"
      /\ bind' \in Call \cup {None} /\ last' = last /\ pending' \in {Cwd, None}
  BY <1>1, <1>2, <1>3, RecoveredEffect DEF Moves
<1>5. Placed(e) /\ Sent(e) /\ e.pc \in {"idle", "enter", "check", "stopped"}
  BY <1>1, <1>4, EndedOK DEF Ended
<1>6. sess' = IF task[t].pc = "open" THEN sess ELSE Released(task[t].s)
  BY SMT, <1>1 DEF OpenFails, Abandoned, Placed
<1>7. faults' \in 0..MaxFaults /\ faults' >= faults
  <2>1. faults' = faults \/ (faults < MaxFaults /\ faults' = faults + 1)  BY DEF OpenFails, Fault
  <2>. QED  BY SMT, <1>1, <2>1, BoundsAssumption DEF TypeOK
<1>8. {closing', doubt'} \subseteq BOOLEAN /\ calls' \in 0..MaxCalls /\ (doubt => doubt')
  BY <1>1, <1>2 DEF TypeOK, Binds
<1>. QED  BY <1>1, <1>2, <1>4, <1>5, <1>6, <1>7, <1>8, Leaves DEF Recovering

\* The replaced session is retired.
LEMMA RetireInv == ASSUME Inv, NEW t \in Task, Retire(t) PROVE Inv'
<1>1. /\ TypeOK /\ HeartOK /\ Placed(task[t]) /\ Sent(task[t]) /\ task[t] \in Local /\ task[t].pc = "retire"
      /\ gen \in Nat /\ cur \in 1..Len(sess) /\ faults \in Nat /\ ~closed
  BY SMT, Types DEF Inv, Retire, Placed, Recovering
<1>2. /\ UNCHANGED <<published, cur, gen, closing, closed, calls, faults, doubt>> /\ life' = None
      /\ sess' = Released(task[t].s) /\ Recovered(t, TRUE)
  BY DEF Retire
<1>3. PICK e : e = task'[t]  OBVIOUS
<1>4. /\ e \in Local /\ task' = [task EXCEPT ![t] = e]
      /\ \/ Ended(e)
         \/ /\ e.pc = "check" /\ e.s = cur /\ e.g = gen /\ e.second /\ e.sent = task[t].sent
            /\ e.op = "startup" \/ e.kind \notin Effects
      /\ t = Heart => e.op = "main" /\ e.kind = "beat"
      /\ bind' \in Call \cup {None} /\ last' = last /\ pending' \in {Cwd, None}
  BY <1>1, <1>2, <1>3, RecoveredEffect DEF Moves
<1>5. Placed(e) /\ Sent(e) /\ e.pc \in {"idle", "enter", "check", "stopped"}
  <2>1. CASE Ended(e)  BY <1>1, <1>4, <2>1, EndedOK DEF Ended
  <2>2. CASE /\ e.pc = "check" /\ e.s = cur /\ e.g = gen /\ e.second /\ e.sent = task[t].sent
             /\ e.op = "startup" \/ e.kind \notin Effects
    BY SMT, <1>1, <2>2 DEF Placed, Sent, Recovering, Snapshot
  <2>. QED  BY <1>4, <2>1, <2>2
<1>6. faults' \in 0..MaxFaults /\ faults' >= faults  BY SMT, <1>1, <1>2 DEF TypeOK
<1>7. {closing', doubt'} \subseteq BOOLEAN /\ calls' \in 0..MaxCalls  BY <1>1, <1>2 DEF TypeOK
<1>. QED  BY <1>1, <1>2, <1>4, <1>5, <1>6, <1>7, Leaves DEF Recovering

\* aclose cancels the heartbeat.
LEMMA BeginCloseInv == ASSUME Inv, BeginClose PROVE Inv'
<1>1. /\ TypeOK /\ HeartOK /\ Placed(task[Heart]) /\ task[Heart] \in Local /\ Heart \in Task
      /\ gen \in Nat /\ faults \in Nat
  BY Types DEF Inv, Task
<1>2. closing' = TRUE /\ UNCHANGED <<published, cur, gen, last, pending, closed, bind, calls, faults, doubt>>
  BY DEF BeginClose
<1>3. life = Heart <=> task[Heart].pc \in Recovering  BY <1>1 DEF Inv, Locked
<1>4. PICK p : p = IF task[Heart].pc \in Uncancelled THEN "idle" ELSE "stopped"  OBVIOUS
<1>5. PICK e : e = [Idle EXCEPT !.kind = "beat", !.pc = p]  OBVIOUS
<1>6. /\ e \in Local /\ e.pc = p /\ p \in {"idle", "stopped"} /\ e.sent = 0 /\ ~e.second /\ e.g = 0
      /\ e.op = "main" /\ e.kind = "beat"
  BY <1>4, <1>5 DEF Idle, Local, Kinds, Path
<1>7. Placed(e) /\ Sent(e)  BY SMT, <1>1, <1>6 DEF Placed, Sent, Recovering, Snapshot
<1>8. task[Heart].pc # "retire" => task' = [task EXCEPT ![Heart] = e]  BY <1>4, <1>5 DEF BeginClose
<1>9. /\ faults' \in 0..MaxFaults /\ faults' >= faults /\ last' \in Path
      /\ bind' \in Call \cup {None} /\ pending' \in {Cwd, None}
      /\ {closing', doubt'} \subseteq BOOLEAN /\ calls' \in 0..MaxCalls /\ (doubt => doubt')
  BY SMT, <1>1, <1>2 DEF TypeOK
<1>10. CASE task[Heart].pc \in {"open", "opened"}
  <2>1. life' = None /\ sess' = IF task[Heart].pc = "open" THEN sess ELSE Released(task[Heart].s)
    BY <1>3, <1>10 DEF BeginClose, Recovering
  <2>2. e.pc \in {"idle", "enter", "check", "stopped"}  BY <1>6
  <2>. QED  BY <1>1, <1>2, <1>6, <1>7, <1>8, <1>9, <1>10, <2>1, <2>2, Leaves DEF Recovering
<1>11. CASE task[Heart].pc = "retire"
  <2>1. task' = task /\ UNCHANGED <<life, sess>>  BY <1>1, <1>11 DEF BeginClose, TypeOK
  <2>2. TypeOK'  BY <1>1, <1>2, <2>1 DEF TypeOK
  <2>3. Locked' /\ HeartOK' /\ Owned'  BY <1>2, <2>1 DEF Inv, Locked, HeartOK, Owned
  <2>4. Losses'  BY <1>2, <2>1 DEF Inv, Losses, IsLost
  <2>5. \A t \in Task : Placed(task[t])' /\ Sent(task[t])'
    <3>1. \A t \in Task : Placed(task[t])'  BY <1>2, <2>1 DEF Inv, Placed, IsLost
    <3>2. \A t \in Task : Sent(task[t])'  BY <1>2, <2>1 DEF Inv, Sent
    <3>. QED  BY <3>1, <3>2
  <2>6. \A t \in Task : (Binding(t)' <=> Binding(t)) /\ (Bound(t)' <=> Bound(t)) /\ (Binds(t)' <=> Binds(t))
    BY <2>1 DEF Binding, Bound, Binds
  <2>7. ~doubt => Known'  BY <1>2, <2>1, <2>6 DEF Inv, Known
  <2>. QED  BY <1>2, <2>1, <2>2, <2>3, <2>4, <2>5, <2>7 DEF Inv
<1>12. CASE task[Heart].pc \notin Recovering
  <2>1. life' = life /\ sess' = sess /\ task' = [task EXCEPT ![Heart] = e] /\ life # Heart
    BY <1>3, <1>8, <1>12 DEF BeginClose, Recovering
  <2>2. ~doubt => Known'  BY <1>1, <1>2, <1>6, <2>1, KnownMoves DEF Bound, Binds, HeartOK
  <2>3. life' \in Task \cup {None}  BY <1>1, <2>1 DEF TypeOK
  <2>. QED  BY <1>1, <1>2, <1>6, <1>7, <1>9, <1>12, <2>1, <2>2, <2>3, TaskMoves DEF Recovering
<1>. QED  BY <1>10, <1>11, <1>12 DEF Recovering

\* The daemon serves a task: of the sessions, a binding may change.
LEMMA Served ==
    ASSUME Inv, NEW t \in Task, NEW e \in Local, task' = [task EXCEPT ![t] = e],
           \/ task[t].pc = "flight" /\ e.pc = "back"
           \/ task[t].pc = "opened" /\ e.pc = "opened",
           e.s = task[t].s, e.g = task[t].g, e.op = task[t].op, e.kind = task[t].kind,
           e.sent = task[t].sent, e.second = task[t].second,
           UNCHANGED <<published, core, life, bind, calls, doubt>>,
           sess' \in Seq(Session), Len(sess') = Len(sess),
           \A s \in 1..Len(sess) : /\ sess'[s].daemon = sess[s].daemon /\ sess'[s].lease = sess[s].lease
                                   /\ sess'[s].open = sess[s].open,
           faults' \in 0..MaxFaults, faults' >= faults,
           ~doubt => Known'
    PROVE  Inv'
<1>. USE DEF core
<1>1. /\ task'[t] = e /\ \A u \in Task \ {t} : task'[u] = task[u]
      /\ task' \in [Task -> Local]
  BY DEF Inv, TypeOK
<1>2. /\ TypeOK /\ Len(sess) \in Nat /\ faults \in Nat /\ gen \in Nat
      /\ Placed(task[t]) /\ Sent(task[t]) /\ (~closed => cur \in 1..Len(sess))
  BY SMT, Types DEF Inv
<1>3. \A s \in 1..Len(sess) : IsLost(s)' <=> IsLost(s)  BY DEF IsLost
<1>4. TypeOK'  BY <1>1, <1>2 DEF TypeOK
<1>5. Locked'  BY <1>1 DEF Inv, Locked, Recovering
<1>6. HeartOK'  BY <1>1 DEF Inv, HeartOK, Task
<1>7. ASSUME NEW u \in Task PROVE Placed(task[u])' /\ Sent(task[u])'
  <2>1. Placed(e) /\ Sent(e)  BY <1>2 DEF Placed, Sent, Recovering, Snapshot
  <2>2. Placed(task'[u]) /\ Sent(task'[u])
    <3>1. task'[u] = IF u = t THEN e ELSE task[u]  BY <1>1
    <3>2. Placed(task[u]) /\ Sent(task[u])  BY DEF Inv
    <3>. QED  BY <2>1, <3>1, <3>2
  <2>3. ~closed => (IsLost(cur)' <=> IsLost(cur))  BY <1>2, <1>3
  <2>. QED  BY <2>2, <2>3 DEF Placed, Sent, Recovering
<1>8. Losses'
  <2>1. gen \in Int /\ faults \in Int /\ faults' \in Int /\ faults <= faults' /\ gen + 1 \in Int  BY SMT, <1>2
  <2>2. gen <= 1 + faults'  BY <2>1, MoreFaults DEF Inv, Losses
  <2>3. ~closed /\ IsLost(cur) => gen <= faults'  BY <2>1, MoreFaults DEF Inv, Losses
  <2>4. ~closed => (IsLost(cur)' <=> IsLost(cur))  BY <1>2, <1>3
  <2>5. ASSUME NEW u \in Task, task'[u].pc = "opened", IsLost(task[u].s)' PROVE gen + 1 <= faults'
    <3>1. task[u].pc = "opened" /\ task'[u].s = task[u].s  BY <1>1, <2>5
    <3>2. task[u].s \in 1..Len(sess)  BY <3>1 DEF Inv, Placed
    <3>3. IsLost(task[u].s)
      <4>1. PICK s \in 1..Len(sess) : s = task[u].s /\ s = task'[u].s  BY <3>1, <3>2
      <4>2. IsLost(s)'  BY <2>5, <4>1 DEF IsLost
      <4>. QED  BY <1>3, <4>1, <4>2
    <3>4. gen + 1 <= faults  BY <3>1, <3>3 DEF Inv, Losses
    <3>. QED  BY <2>1, <3>4, MoreFaults
  <2>. QED  BY <2>2, <2>3, <2>4, <2>5 DEF Losses
<1>9. Owned'
  <2>1. \A u \in Task : task[u].pc \in {"opened", "retire"} => task'[u].pc = task[u].pc /\ task'[u].s = task[u].s
    BY <1>1
  <2>. QED  BY SMT, <2>1 DEF Inv, Owned, Held
<1>10. \A s \in 1..Len(sess') : sess'[s].daemon <= published'  BY DEF Inv
<1>. QED  BY <1>4, <1>5, <1>6, <1>7, <1>8, <1>9, <1>10 DEF Inv

\* f is what the sessions are when the binding of one changes.
Rebinds(f, s, b) ==
    /\ f \in Seq(Session) /\ Len(f) = Len(sess) /\ f[s].bound = b
    /\ \A u \in 1..Len(sess) : u # s => f[u] = sess[u]
    /\ \A u \in 1..Len(sess) : f[u].daemon = sess[u].daemon /\ f[u].lease = sess[u].lease /\ f[u].open = sess[u].open

LEMMA Rebound ==
    ASSUME TypeOK, NEW s \in 1..Len(sess), NEW b \in Path, NEW f, f = [sess EXCEPT ![s].bound = b]
    PROVE  Rebinds(f, s, b)
<1>1. sess \in Seq(Session) /\ sess[s] \in Session  BY Types DEF TypeOK
<1>2. PICK x : x = [sess[s] EXCEPT !.bound = b]  OBVIOUS
<1>3. /\ x \in Session /\ x.bound = b /\ x.daemon = sess[s].daemon /\ x.lease = sess[s].lease
      /\ x.open = sess[s].open
  BY <1>1, <1>2 DEF Session
<1>4. f = [sess EXCEPT ![s] = x]  BY <1>2
<1>. QED  BY SMT, <1>1, <1>3, <1>4, ExceptSeq DEF Rebinds

\* The remembered binding is restored.
LEMMA RestoreInv == ASSUME Inv, NEW t \in Task, Restore(t) PROVE Inv'
<1>1. /\ TypeOK /\ Placed(task[t]) /\ task[t] \in Local /\ task[t].pc = "opened" /\ faults \in Nat
      /\ task[t].s \in 1..Len(sess) /\ task[t].s # cur
  BY Types DEF Inv, Restore, Placed
<1>2. UNCHANGED <<published, core, life, bind, calls, faults, doubt>>  BY DEF Restore
<1>3. PICK e : e = [task[t] EXCEPT !.res = "ok"]  OBVIOUS
<1>4. /\ e \in Local /\ e.pc = task[t].pc /\ e.s = task[t].s /\ e.g = task[t].g /\ e.op = task[t].op
      /\ e.kind = task[t].kind /\ e.sent = task[t].sent /\ e.second = task[t].second /\ e.saved = task[t].saved
  BY <1>1, <1>3 DEF Local
<1>5. task' = [task EXCEPT ![t] = e]  BY <1>1, <1>3 DEF Restore, TypeOK
<1>6. PICK b \in Path : b = task[t].saved  BY <1>1 DEF Local
<1>7. PICK n \in 1..Len(sess) : n = task[t].s  BY <1>1
<1>8. PICK f : f = sess' /\ f = [sess EXCEPT ![n].bound = b]  BY <1>6, <1>7 DEF Restore
<1>9. Rebinds(f, n, b)  BY <1>1, <1>8, Rebound
<1>10. ASSUME ~doubt PROVE Known'
  <2>1. Known  BY <1>10 DEF Inv
  <2>2. task'[t] = e /\ \A u \in Task \ {t} : task'[u] = task[u]  BY <1>1, <1>5 DEF TypeOK
  <2>3. \A u \in Task : (Binding(u)' <=> Binding(u)) /\ (Binds(u)' <=> Binds(u)) /\ (Bound(u)' <=> Bound(u))
    BY <1>1, <1>4, <2>2 DEF Binding, Binds, Bound
  <2>4. \A u \in Task \ {t} : task[u].pc \notin {"open", "opened"}  BY <1>1, <2>1 DEF Known, Binding
  <2>5. b = last  BY <1>1, <1>6, <2>1 DEF Known
  <2>6. cur # 0 => sess'[cur] = sess[cur]
    <3>1. cur # 0 => cur \in 1..Len(sess)  BY SMT, <1>1, Types
    <3>. QED  BY <1>1, <1>7, <1>8, <1>9, <3>1 DEF Rebinds
  <2>7. \A u, v \in Task : Binding(u)' /\ Binding(v)' => u = v  BY <2>1, <2>3 DEF Known
  <2>8. \A u \in Task : task'[u].pc \in {"flight", "back"} /\ Binds(u)' => task'[u].g = gen
    BY <1>1, <1>4, <2>1, <2>2, <2>3 DEF Known
  <2>9. \A u \in Task : task'[u].pc \in {"open", "opened"} => task'[u].saved = last /\ task'[u].s = n
    BY <1>4, <1>6, <1>7, <2>2, <2>4, <2>5
  <2>10. cur # 0 /\ Held(sess[cur]) =>
           /\ \A u \in Task : Bound(u)' => sess[cur].bound = Target(task'[u])
           /\ (\A u \in Task : ~Bound(u)') => sess[cur].bound = last
    <3>1. \A u \in Task : Bound(u) => task'[u] = task[u]  BY <1>1, <2>2 DEF Bound
    <3>. QED  BY <2>1, <2>3, <3>1 DEF Known
  <2>11. \A u \in Task : task'[u].pc = "opened" => sess'[task'[u].s].bound = last
    BY <1>8, <1>9, <2>5, <2>9 DEF Rebinds
  <2>12. UNCHANGED <<cur, gen, last>>  BY <1>2 DEF core
  <2>13. cur' # 0 /\ Held(sess'[cur']) =>
           /\ \A u \in Task : Bound(u)' => sess'[cur'].bound = Target(task'[u])
           /\ (\A u \in Task : ~Bound(u)') => sess'[cur'].bound = last'
    BY <2>6, <2>10, <2>12
  <2>. QED  BY <2>7, <2>8, <2>9, <2>11, <2>12, <2>13 DEF Known
<1>11. faults' \in 0..MaxFaults /\ faults' >= faults  BY SMT, <1>1, <1>2 DEF TypeOK
<1>12. /\ sess' \in Seq(Session) /\ Len(sess') = Len(sess)
       /\ \A s \in 1..Len(sess) : /\ sess'[s].daemon = sess[s].daemon /\ sess'[s].lease = sess[s].lease
                                  /\ sess'[s].open = sess[s].open
  BY <1>8, <1>9 DEF Rebinds
<1>13. task[t].pc = "opened" /\ e.pc = "opened"  BY <1>1, <1>4
<1>. QED  BY <1>2, <1>4, <1>5, <1>10, <1>11, <1>12, <1>13, Served

\* The daemon serves a request.
LEMMA ExecInv == ASSUME Inv, NEW t \in Call, Exec(t) PROVE Inv'
<1>1. /\ t \in Task /\ TypeOK /\ Placed(task[t]) /\ task[t] \in Local /\ task[t].pc = "flight" /\ faults \in Nat
      /\ task[t].s \in 1..Len(sess)
  BY Types DEF Inv, Exec, Placed, Snapshot, Task
<1>2. UNCHANGED <<published, core, life, bind, calls, doubt>>  BY DEF Exec
<1>3. PICK r \in {"ok", "refused"} :
        /\ IF sess[task[t].s].lease = "active" /\ r = "refused" THEN Binds(t) /\ Fault ELSE UNCHANGED faults
        /\ sess' = IF Binds(t) /\ r = "ok" THEN [sess EXCEPT ![task[t].s].bound = Target(task[t])] ELSE sess
        /\ task' = [task EXCEPT ![t].pc = "back", ![t].res = r]
  BY DEF Exec, Target
<1>4. PICK e : e = [task[t] EXCEPT !.pc = "back", !.res = r]  OBVIOUS
<1>5. /\ e \in Local /\ e.pc = "back" /\ e.res = r /\ e.s = task[t].s /\ e.g = task[t].g /\ e.op = task[t].op
      /\ e.kind = task[t].kind /\ e.sent = task[t].sent /\ e.second = task[t].second /\ e.arg = task[t].arg
  BY <1>1, <1>4 DEF Local
<1>6. task' = [task EXCEPT ![t] = e]  BY <1>1, <1>3, <1>4 DEF TypeOK
<1>7. PICK b \in Path : b = Target(task[t])  BY <1>1 DEF Local, Target, Path
<1>8. PICK n \in 1..Len(sess) : n = task[t].s  BY <1>1
<1>9. PICK f : f = sess'  OBVIOUS
<1>10. \/ Binds(t) /\ r = "ok" /\ Rebinds(f, n, b)
       \/ ~(Binds(t) /\ r = "ok") /\ sess' = sess
  <2>1. CASE Binds(t) /\ r = "ok"
    <3>1. f = [sess EXCEPT ![n].bound = b]  BY <1>3, <1>7, <1>8, <1>9, <2>1
    <3>. QED  BY <1>1, <2>1, <3>1, Rebound
  <2>2. CASE ~(Binds(t) /\ r = "ok")  BY <1>3, <2>2
  <2>. QED  BY <2>1, <2>2
<1>11. /\ sess' \in Seq(Session) /\ Len(sess') = Len(sess)
       /\ \A s \in 1..Len(sess) : /\ sess'[s].daemon = sess[s].daemon /\ sess'[s].lease = sess[s].lease
                                  /\ sess'[s].open = sess[s].open
  <2>1. CASE Rebinds(f, n, b)  BY <1>9, <2>1 DEF Rebinds
  <2>2. CASE sess' = sess  BY <1>1, <2>2 DEF TypeOK
  <2>. QED  BY <1>10, <2>1, <2>2
<1>12. faults' \in 0..MaxFaults /\ faults' >= faults
  <2>1. faults' = faults \/ (faults < MaxFaults /\ faults' = faults + 1)  BY <1>3 DEF Fault
  <2>. QED  BY SMT, <1>1, <2>1, BoundsAssumption DEF TypeOK
<1>13. ASSUME ~doubt PROVE Known'
  <2>1. Known  BY <1>13 DEF Inv
  <2>2. task'[t] = e /\ \A u \in Task \ {t} : task'[u] = task[u]  BY <1>1, <1>6 DEF TypeOK
  <2>3. \A u \in Task : (Binding(u)' <=> Binding(u)) /\ (Binds(u)' <=> Binds(u))
    BY <1>1, <1>5, <2>2 DEF Binding, Binds
  <2>4. UNCHANGED <<cur, gen, last>>  BY <1>2 DEF core
  <2>5. \A u, v \in Task : Binding(u)' /\ Binding(v)' => u = v  BY <2>1, <2>3 DEF Known
  <2>6. \A u \in Task : task'[u].pc \in {"flight", "back"} /\ Binds(u)' => task'[u].g = gen
    BY <1>1, <1>5, <2>1, <2>2, <2>3 DEF Known
  <2>7. \A u \in Task : task'[u].pc \in {"open", "opened"} => task'[u].saved = last /\ task'[u] = task[u] /\ u # t
    BY <1>5, <2>1, <2>2 DEF Known
  <2>8. CASE Binds(t)
    <3>1. Binding(t)  BY <1>1, <2>8 DEF Binding
    <3>2. \A u \in Task \ {t} : ~Binding(u)  BY <1>1, <2>1, <3>1 DEF Known
    <3>3. \A u \in Task : task'[u].pc \notin {"open", "opened"}  BY <1>5, <2>2, <3>2 DEF Binding
    <3>4. \A u \in Task \ {t} : ~Bound(u)' /\ ~Bound(u)  BY <2>3, <3>2 DEF Binding, Bound
    <3>5. ~Bound(t) /\ (Bound(t)' <=> r = "ok")  BY <1>1, <1>5, <2>2, <2>3, <2>8 DEF Bound
    <3>6. task[t].g = gen  BY <1>1, <2>1, <2>8 DEF Known
    <3>7. cur # 0 => n = cur  BY <1>1, <1>8, <3>6 DEF Placed, Snapshot, Inv
    <3>8. ASSUME cur # 0, Held(sess'[cur])
          PROVE  /\ \A u \in Task : Bound(u)' => sess'[cur].bound = Target(task'[u])
                 /\ (\A u \in Task : ~Bound(u)') => sess'[cur].bound = last
      <4>1. CASE r = "ok"
        <5>1. sess'[cur].bound = b  BY <1>9, <1>10, <2>8, <3>7, <3>8, <4>1 DEF Rebinds
        <5>2. Target(e) = b  BY <1>5, <1>7 DEF Target
        <5>. QED  BY <1>1, <2>2, <3>4, <3>5, <4>1, <5>1, <5>2
      <4>2. CASE r # "ok"
        <5>1. sess' = sess  BY <1>10, <4>2
        <5>2. \A u \in Task : ~Bound(u)' /\ ~Bound(u)  BY <3>4, <3>5, <4>2
        <5>. QED  BY <2>1, <3>8, <5>1, <5>2 DEF Known
      <4>. QED  BY <4>1, <4>2
    <3>. QED  BY <2>4, <2>5, <2>6, <3>3, <3>8 DEF Known
  <2>9. CASE ~Binds(t)
    <3>1. sess' = sess  BY <1>10, <2>9
    <3>2. \A u \in Task : Bound(u)' <=> Bound(u)
      <4>1. ~Bound(t) /\ ~Bound(t)'  BY <1>1, <2>3, <2>9 DEF Bound
      <4>2. \A u \in Task \ {t} : Bound(u)' <=> Bound(u)  BY <2>2, <2>3 DEF Bound
      <4>. QED  BY <4>1, <4>2
    <3>3. \A u \in Task : Bound(u) => task'[u] = task[u]  BY <2>2, <2>9 DEF Bound
    <3>4. \A u \in Task : task'[u].pc = "opened" /\ task'[u].res = "ok" /\ Held(sess[task'[u].s]) =>
            sess[task'[u].s].bound = last
      BY <2>1, <2>7 DEF Known
    <3>5. cur # 0 /\ Held(sess[cur]) =>
            /\ \A u \in Task : Bound(u)' => sess[cur].bound = Target(task'[u])
            /\ (\A u \in Task : ~Bound(u)') => sess[cur].bound = last
      BY <2>1, <3>2, <3>3 DEF Known
    <3>. QED  BY <2>4, <2>5, <2>6, <2>7, <3>1, <3>4, <3>5 DEF Known
  <2>. QED  BY <2>8, <2>9
<1>14. task[t].pc = "flight" /\ e.pc = "back"  BY <1>1, <1>5
<1>. QED  BY <1>1, <1>2, <1>5, <1>6, <1>11, <1>12, <1>13, <1>14, Served

\* A session is opened at the published daemon.
LEMMA OpenSessionInv == ASSUME Inv, NEW t \in Task, OpenSession(t) PROVE Inv'
<1>1. /\ TypeOK /\ Placed(task[t]) /\ Sent(task[t]) /\ task[t] \in Local /\ task[t].pc = "open" /\ life = t
      /\ ~closed /\ Len(sess) \in Nat /\ cur \in 1..Len(sess) /\ gen \in Nat /\ gen <= Len(sess)
      /\ published \in Nat
  BY SMT, Types DEF Inv, TypeOK, OpenSession, Placed, Recovering, Locked
<1>2. UNCHANGED <<published, cur, gen, last, pending, closing, closed, life, bind, calls, faults, doubt>>
  BY DEF OpenSession, core
<1>3. PICK x : x = [daemon |-> published, lease |-> "active", bound |-> None, open |-> TRUE]  OBVIOUS
<1>4. x \in Session /\ x.daemon = published /\ x.open  BY <1>1, <1>3 DEF Session, Path
<1>5. PICK n \in Nat : n = Len(sess) + 1  BY SMT, <1>1
<1>6. /\ sess' \in Seq(Session) /\ Len(sess') = n /\ sess'[n] = x
      /\ \A s \in 1..Len(sess) : sess'[s] = sess[s]
  <2>1. sess' = Append(sess, x) /\ sess \in Seq(Session)  BY <1>1, <1>3 DEF OpenSession, TypeOK
  <2>. QED  BY SMT, <1>4, <1>5, <2>1, AppendProperties
<1>7. PICK e : e = [task[t] EXCEPT !.pc = "opened", !.s = n, !.res = "none"]  OBVIOUS
<1>8. /\ e \in Local /\ e.pc = "opened" /\ e.s = n /\ e.res = "none" /\ e.g = task[t].g /\ e.op = task[t].op
      /\ e.kind = task[t].kind /\ e.sent = task[t].sent /\ e.second = task[t].second /\ e.saved = task[t].saved
  BY <1>1, <1>7 DEF Local
<1>9. task' = [task EXCEPT ![t] = e]
  <2>1. task' = [task EXCEPT ![t].pc = "opened", ![t].s = n, ![t].res = "none"]  BY <1>6 DEF OpenSession
  <2>. QED  BY <1>1, <1>7, <2>1 DEF TypeOK
<1>10. /\ task'[t] = e /\ \A u \in Task \ {t} : task'[u] = task[u]
       /\ task' \in [Task -> Local]
  BY <1>1, <1>8, <1>9 DEF TypeOK
<1>11. \A u \in Task \ {t} : task[u].pc \notin Recovering  BY <1>1 DEF Inv, Locked
<1>12. n > Len(sess) /\ cur # n /\ sess'[cur] = sess[cur] /\ (IsLost(cur)' <=> IsLost(cur))
  <2>1. n > Len(sess) /\ cur # n /\ sess'[cur] = sess[cur]  BY SMT, <1>1, <1>5, <1>6
  <2>. QED  BY <1>2, <2>1 DEF IsLost
<1>13. TypeOK'
  <2>1. cur' \in 0..Len(sess') /\ gen' \in 1..Len(sess')  BY SMT, <1>1, <1>2, <1>5, <1>6 DEF TypeOK
  <2>. QED  BY <1>1, <1>2, <1>6, <1>10, <2>1 DEF TypeOK
<1>14. Locked'  BY <1>1, <1>2, <1>8, <1>10 DEF Inv, Locked, Recovering
<1>15. HeartOK'  BY <1>2, <1>8, <1>10 DEF Inv, HeartOK, Task
<1>16. ASSUME NEW u \in Task PROVE Placed(task[u])' /\ Sent(task[u])'
  <2>1. CASE u = t
    <3>1. Sent(e)  BY <1>1, <1>8 DEF Sent, Recovering
    <3>2. IsLost(cur)' /\ e.g <= gen /\ gen < n /\ n \in 1..n
      BY SMT, <1>1, <1>5, <1>8, <1>12 DEF Placed
    <3>3. Placed(task[u])'  BY <1>1, <1>2, <1>6, <1>8, <1>10, <1>12, <2>1, <3>2 DEF Placed, Recovering, Snapshot
    <3>. QED  BY <1>10, <2>1, <3>1, <3>3 DEF Sent
  <2>2. CASE u # t
    <3>1. task'[u] = task[u] /\ Placed(task[u]) /\ Sent(task[u]) /\ task[u].pc \notin Recovering
      BY <1>10, <1>11, <2>2 DEF Inv
    <3>2. Sent(task[u])'  BY <3>1 DEF Sent
    <3>3. \A s \in 1..Len(sess) : s \in 1..Len(sess')  BY SMT, <1>1, <1>5, <1>6
    <3>4. Placed(task[u])'  BY <1>2, <1>12, <3>1, <3>3 DEF Placed, Recovering
    <3>. QED  BY <3>2, <3>4
  <2>. QED  BY <2>1, <2>2
<1>17. Losses'
  <2>1. \A u \in Task : task'[u].pc = "opened" => u = t  BY <1>10, <1>11 DEF Recovering
  <2>2. ~(sess'[task'[t].s].open # TRUE \/ sess'[task'[t].s].daemon # published')
    BY <1>2, <1>4, <1>6, <1>8, <1>10, <1>3
  <2>3. ~IsLost(task[t].s)'  BY <2>2 DEF IsLost
  <2>. QED  BY <1>2, <1>12, <2>1, <2>3 DEF Inv, Losses
<1>18. Owned'
  <2>. SUFFICES ASSUME NEW s \in 1..Len(sess'), s # cur, Held(sess'[s])
                PROVE  s = n
    BY <1>1, <1>2, <1>8, <1>10 DEF Owned
  <2>1. s \in 1..Len(sess) \/ s = n  BY SMT, <1>1, <1>5, <1>6
  <2>2. ASSUME s \in 1..Len(sess) PROVE FALSE  BY <1>1, <1>6, <2>2 DEF Inv, Owned
  <2>. QED  BY <2>1, <2>2
<1>19. ASSUME ~doubt PROVE Known'
  <2>1. Known  BY <1>19 DEF Inv
  <2>2. \A u \in Task : (Binding(u)' <=> Binding(u)) /\ (Binds(u)' <=> Binds(u)) /\ (Bound(u)' <=> Bound(u))
    BY <1>1, <1>8, <1>10 DEF Binding, Binds, Bound
  <2>3. \A u, v \in Task : Binding(u)' /\ Binding(v)' => u = v  BY <2>1, <2>2 DEF Known
  <2>4. \A u \in Task : task'[u].pc \in {"flight", "back"} /\ Binds(u)' => task'[u].g = gen
    BY <1>8, <1>10, <2>1, <2>2 DEF Known
  <2>5. \A u \in Task : task'[u].pc \in {"open", "opened"} => u = t  BY <1>10, <1>11 DEF Recovering
  <2>6. e.saved = last  BY <1>1, <1>8, <2>1 DEF Known
  <2>7. \A u \in Task : Bound(u) => task'[u] = task[u]  BY <1>1, <1>10 DEF Bound
  <2>8. Held(sess[cur]) =>
          /\ \A u \in Task : Bound(u)' => sess[cur].bound = Target(task'[u])
          /\ (\A u \in Task : ~Bound(u)') => sess[cur].bound = last
    BY SMT, <1>1, <2>1, <2>2, <2>7 DEF Known
  <2>9. \A u \in Task : /\ task'[u].pc \in {"open", "opened"} => task'[u].saved = last
                        /\ task'[u].pc = "opened" => task'[u].res # "ok"
    BY <1>8, <1>10, <2>5, <2>6
  <2>. QED  BY <1>2, <1>12, <2>3, <2>4, <2>8, <2>9 DEF Known
<1>20. \A s \in 1..Len(sess') : sess'[s].daemon <= published
  <2>1. \A s \in 1..Len(sess') : s \in 1..Len(sess) \/ s = n  BY SMT, <1>1, <1>5, <1>6
  <2>2. \A s \in 1..Len(sess) : sess'[s].daemon <= published  BY <1>6 DEF Inv
  <2>. QED  BY SMT, <1>1, <1>4, <1>6, <2>1, <2>2
<1>. QED  BY <1>1, <1>2, <1>13, <1>14, <1>15, <1>16, <1>17, <1>18, <1>19, <1>20 DEF Inv

\* The new session is installed in place of the lost one.
LEMMA InstallInv == ASSUME Inv, NEW t \in Task, Install(t) PROVE Inv'
<1>1. /\ TypeOK /\ Placed(task[t]) /\ Sent(task[t]) /\ task[t] \in Local /\ task[t].pc = "opened" /\ life = t
      /\ ~closed /\ Len(sess) \in Nat /\ cur \in 1..Len(sess) /\ gen \in Nat /\ gen >= 1 /\ gen < Len(sess)
      /\ task[t].s \in 1..Len(sess) /\ task[t].s # cur /\ IsLost(cur) /\ task[t].res = "ok" /\ faults \in Nat
  BY SMT, Types DEF Inv, Install, Placed, Recovering, Locked
<1>2. /\ UNCHANGED <<published, sess, last, pending, closing, closed, life, bind, calls, faults, doubt>>
      /\ cur' = task[t].s /\ gen' = gen + 1
  BY DEF Install
<1>3. PICK e : e = [task[t] EXCEPT !.pc = "retire", !.s = cur]  OBVIOUS
<1>4. /\ e \in Local /\ e.pc = "retire" /\ e.s = cur /\ e.g = task[t].g /\ e.op = task[t].op
      /\ e.kind = task[t].kind /\ e.sent = task[t].sent /\ e.second = task[t].second
  <2>1. task[t] \in Local /\ cur \in Nat  BY SMT, <1>1
  <2>. QED  BY <1>3, <2>1 DEF Local
<1>5. task' = [task EXCEPT ![t] = e]  BY <1>1, <1>3 DEF Install, TypeOK
<1>6. /\ task'[t] = e /\ \A u \in Task \ {t} : task'[u] = task[u]
      /\ task' \in [Task -> Local]
  BY <1>1, <1>4, <1>5 DEF TypeOK
<1>7. \A u \in Task \ {t} : task[u].pc \notin Recovering  BY <1>1 DEF Inv, Locked
<1>8. TypeOK'
  <2>1. cur' \in 0..Len(sess') /\ gen' \in 1..Len(sess')  BY SMT, <1>1, <1>2
  <2>. QED  BY <1>1, <1>2, <1>6, <2>1 DEF TypeOK
<1>9. Locked'  BY <1>1, <1>2, <1>4, <1>6 DEF Inv, Locked, Recovering
<1>10. HeartOK'  BY <1>2, <1>4, <1>6 DEF Inv, HeartOK, Task
<1>11. ASSUME NEW u \in Task PROVE Placed(task[u])' /\ Sent(task[u])'
  <2>1. task[u] \in Local /\ task[u].g \in Nat /\ task[u].g <= gen  BY <1>1, Types DEF Inv, Placed, Local
  <2>2. task[u].g <= gen' /\ task[u].g # gen'  BY SMT, <1>1, <1>2, <2>1
  <2>3. CASE u = t
    <3>1. Sent(e)  BY <1>1, <1>4 DEF Sent, Recovering
    <3>2. Placed(task[u])'  BY <1>1, <1>2, <1>4, <1>6, <2>2, <2>3 DEF Placed, Recovering, Snapshot
    <3>. QED  BY <1>6, <2>3, <3>1, <3>2 DEF Sent
  <2>4. CASE u # t
    <3>1. task'[u] = task[u] /\ Placed(task[u]) /\ Sent(task[u]) /\ task[u].pc \notin Recovering
      BY <1>6, <1>7, <2>4 DEF Inv
    <3>2. Sent(task[u])'  BY <3>1 DEF Sent
    <3>3. Placed(task[u])'  BY <1>2, <2>2, <3>1 DEF Placed, Recovering
    <3>. QED  BY <3>2, <3>3
  <2>. QED  BY <2>3, <2>4
<1>12. Losses'
  <2>1. \A u \in Task : task'[u].pc # "opened"  BY <1>4, <1>6, <1>7 DEF Recovering
  <2>2. gen <= faults  BY <1>1 DEF Inv, Losses
  <2>3. IsLost(task[t].s) => gen + 1 <= faults  BY <1>1 DEF Inv, Losses
  <2>4. gen' <= 1 + faults' /\ (IsLost(task[t].s) => gen' <= faults')  BY SMT, <1>1, <1>2, <2>2, <2>3
  <2>5. IsLost(cur)' <=> IsLost(task[t].s)  BY <1>2 DEF IsLost
  <2>. QED  BY <2>1, <2>4, <2>5 DEF Losses
<1>13. Owned'
  <2>. SUFFICES ASSUME NEW s \in 1..Len(sess), s # task[t].s, Held(sess[s])
                PROVE  s = cur
    BY <1>1, <1>2, <1>4, <1>6 DEF Owned
  <2>. QED  BY <1>1 DEF Inv, Owned
<1>14. ASSUME ~doubt PROVE Known'
  <2>1. Known  BY <1>14 DEF Inv
  <2>2. Binding(t)  BY <1>1 DEF Binding
  <2>3. \A u \in Task \ {t} : ~Binding(u)  BY <2>1, <2>2 DEF Known
  <2>4. \A u \in Task : ~Binding(u)'  BY <1>4, <1>6, <2>3 DEF Binding, Binds
  <2>5. \A u \in Task : /\ ~Bound(u)' /\ task'[u].pc \notin {"open", "opened"}
                        /\ ~(task'[u].pc \in {"flight", "back"} /\ Binds(u)')
    BY <2>4 DEF Binding, Bound
  <2>6. Held(sess[task[t].s]) => sess[task[t].s].bound = last  BY <1>1, <2>1 DEF Known
  <2>. QED  BY <1>2, <2>4, <2>5, <2>6 DEF Known
<1>15. closed' <=> cur' = 0  BY SMT, <1>1, <1>2
<1>. QED  BY <1>2, <1>8, <1>9, <1>10, <1>11, <1>12, <1>13, <1>14, <1>15 DEF Inv

\* aclose releases the installed session.
LEMMA FinishCloseInv == ASSUME Inv, FinishClose PROVE Inv'
<1>1. /\ TypeOK /\ ~closed /\ life = None /\ Len(sess) \in Nat /\ cur \in 1..Len(sess) /\ gen \in Nat
      /\ sess[cur].daemon <= published
  BY SMT, Types DEF Inv, FinishClose
<1>2. /\ UNCHANGED <<published, gen, last, pending, closing, life, bind, task, calls, faults, doubt>>
      /\ closed' = TRUE /\ cur' = 0 /\ sess' = Released(cur)
  BY DEF FinishClose
<1>3. /\ sess' \in Seq(Session) /\ Len(sess') = Len(sess)
      /\ \A u \in 1..Len(sess) : u # cur => sess'[u] = sess[u]
      /\ ~sess'[cur].open /\ sess'[cur].daemon <= published
  BY <1>1, <1>2, ReleasedEffect
<1>4. \A t \in Task : task[t].pc \notin Recovering  BY <1>1, TaskAssumption DEF Inv, Locked, Task
<1>5. TypeOK'  BY SMT, <1>1, <1>2, <1>3 DEF TypeOK
<1>6. Locked' /\ HeartOK'  BY <1>2 DEF Inv, Locked, HeartOK
<1>7. \A t \in Task : Placed(task[t])' /\ Sent(task[t])'
  BY <1>2, <1>3, <1>4 DEF Inv, Placed, Sent, Recovering
<1>8. Losses'  BY <1>2, <1>4 DEF Inv, Losses, Recovering
<1>9. Owned'
  <2>. SUFFICES ASSUME NEW s \in 1..Len(sess), Held(sess'[s]) PROVE FALSE
    BY <1>3 DEF Owned
  <2>1. s # cur /\ sess'[s] = sess[s]  BY <1>3 DEF Held
  <2>2. life \in Task  BY <2>1 DEF Inv, Owned
  <2>. QED  BY <1>1, <2>2, TaskAssumption DEF Task
<1>10. ASSUME ~doubt PROVE Known'
  <2>1. Known  BY <1>10 DEF Inv
  <2>2. \A t \in Task : (Binding(t)' <=> Binding(t)) /\ (Binds(t)' <=> Binds(t))  BY <1>2 DEF Binding, Binds
  <2>. QED  BY <1>2, <1>4, <2>1, <2>2 DEF Known, Recovering
<1>11. \A s \in 1..Len(sess') : sess'[s].daemon <= published'
  BY <1>1, <1>2, <1>3 DEF Inv
<1>. QED  BY <1>2, <1>5, <1>6, <1>7, <1>8, <1>9, <1>10, <1>11 DEF Inv
-----------------------------------------------------------------------------
(* The daemon and the network.                                             *)

\* One session changes for the worse.
LEMMA SessionFault ==
    ASSUME Inv, NEW s \in 1..Len(sess), NEW x \in Session, sess' = [sess EXCEPT ![s] = x], Fault,
           x.daemon = sess[s].daemon, x.open => sess[s].open, ~Held(x),
           UNCHANGED <<published, core, life, bind, task, calls, doubt>>
    PROVE  Inv'
<1>1. /\ TypeOK /\ faults \in Nat /\ sess \in Seq(Session) /\ published \in Nat
      /\ \A u \in 1..Len(sess) : sess[u].daemon <= published
  BY Types DEF Inv, TypeOK
<1>2. PICK f : f = sess'  OBVIOUS
<1>3. f \in Seq(Session) /\ Len(f) = Len(sess) /\ \A u \in 1..Len(sess) : f[u] = IF u = s THEN x ELSE sess[u]
  BY SMT, <1>1, <1>2, ExceptSeq
<1>4. faults' = faults + 1 /\ faults' \in 0..MaxFaults  BY SMT, <1>1, BoundsAssumption DEF Fault
<1>5. \A u \in 1..Len(sess) :
        /\ sess'[u].daemon <= published'
        /\ IsLost(u) => IsLost(u)'
        /\ Held(sess'[u]) => Held(sess[u]) /\ sess'[u].bound = sess[u].bound
  <2>. TAKE u \in 1..Len(sess)
  <2>1. sess'[u] = IF u = s THEN x ELSE sess[u]  BY <1>2, <1>3
  <2>2. published' = published /\ sess[u].daemon <= published  BY <1>1
  <2>3. CASE u = s  BY <2>1, <2>2, <2>3 DEF IsLost
  <2>4. CASE u # s  BY <2>1, <2>2, <2>4 DEF IsLost
  <2>. QED  BY <2>3, <2>4
<1>6. published' \in Nat  BY <1>1
<1>. QED  BY <1>2, <1>3, <1>4, <1>5, <1>6, FaultKeeps

LEMMA BreakInv == ASSUME Inv, NEW s \in DOMAIN sess, Break(s) PROVE Inv'
<1>1. s \in 1..Len(sess) /\ sess[s] \in Session  BY Types DEF Inv
<1>2. PICK x : x = [sess[s] EXCEPT !.open = FALSE]  OBVIOUS
<1>3. x \in Session /\ x.daemon = sess[s].daemon /\ ~x.open /\ ~Held(x)
  BY <1>1, <1>2 DEF Session, Held
<1>4. sess' = [sess EXCEPT ![s] = x]  BY <1>2 DEF Break
<1>. QED  BY <1>1, <1>3, <1>4, SessionFault DEF Break

LEMMA ExpireLeaseInv == ASSUME Inv, NEW s \in DOMAIN sess, ExpireLease(s) PROVE Inv'
<1>1. s \in 1..Len(sess) /\ sess[s] \in Session  BY Types DEF Inv
<1>2. PICK x : x = [sess[s] EXCEPT !.lease = "ended", !.bound = None]  OBVIOUS
<1>3. /\ x \in Session /\ x.daemon = sess[s].daemon /\ x.open = sess[s].open /\ x.lease = "ended"
  BY <1>1, <1>2 DEF Session, Path
<1>4. sess' = [sess EXCEPT ![s] = x]  BY <1>2 DEF ExpireLease
<1>5. Fault /\ UNCHANGED <<published, core, life, bind, task, calls, doubt>>  BY DEF ExpireLease
<1>6. (x.open => sess[s].open) /\ ~Held(x)  BY <1>3 DEF Held
<1>. QED  BY <1>1, <1>3, <1>4, <1>5, <1>6, SessionFault

LEMMA DaemonChangesInv == ASSUME Inv, DaemonChanges PROVE Inv'
<1>1. /\ TypeOK /\ faults \in Nat /\ sess \in Seq(Session) /\ published \in Nat
      /\ Len(sess) \in Nat /\ DOMAIN sess = 1..Len(sess)
      /\ \A u \in 1..Len(sess) : sess[u] \in Session /\ sess[u].daemon \in Nat /\ sess[u].daemon <= published
  BY Types DEF Inv, TypeOK, Session
<1>2. PICK f : f = sess'  OBVIOUS
<1>3. Dead \in Session /\ ~Dead.open /\ Dead.daemon = 0  BY DEF Dead, Session, Path
<1>4. f \in Seq(Session) /\ Len(f) = Len(sess) /\ \A u \in 1..Len(sess) : f[u] \in {sess[u], Dead}
  <2>1. CASE f = sess  BY <1>1, <2>1
  <2>2. CASE f = [s \in 1..Len(sess) |-> IF sess[s].daemon = published THEN Dead ELSE sess[s]]
    <3>1. \A u \in 1..Len(sess) : f[u] \in {sess[u], Dead} /\ f[u] \in Session  BY <1>1, <1>3, <2>2
    <3>2. f \in [1..Len(sess) -> Session]  BY <2>2, <3>1
    <3>3. f \in Seq(Session) /\ DOMAIN f = 1..Len(sess)  BY <1>1, <3>2, SeqDef
    <3>. QED  BY SMT, <1>1, <3>1, <3>3, LenProperties
  <2>. QED  BY <1>1, <1>2, <2>1, <2>2 DEF DaemonChanges
<1>5. faults' = faults + 1 /\ faults' \in 0..MaxFaults  BY SMT, <1>1, BoundsAssumption DEF DaemonChanges, Fault
<1>6. published' = published + 1 /\ UNCHANGED <<core, life, bind, task, calls, doubt>>  BY DEF DaemonChanges
<1>7. \A u \in 1..Len(sess) :
        /\ sess'[u].daemon <= published'
        /\ IsLost(u) => IsLost(u)'
        /\ Held(sess'[u]) => Held(sess[u]) /\ sess'[u].bound = sess[u].bound
  <2>. TAKE u \in 1..Len(sess)
  <2>1. CASE f[u] = Dead  BY SMT, <1>1, <1>2, <1>3, <1>6, <2>1 DEF IsLost, Held
  <2>2. CASE f[u] = sess[u]
    <3>1. sess[u].daemon <= published' /\ sess[u].daemon # published'  BY SMT, <1>1, <1>6
    <3>. QED  BY SMT, <1>2, <2>2, <3>1 DEF IsLost
  <2>. QED  BY <1>4, <2>1, <2>2
<1>8. published' \in Nat  BY SMT, <1>1, <1>6
<1>. QED  BY <1>2, <1>4, <1>5, <1>6, <1>7, <1>8, FaultKeeps
-----------------------------------------------------------------------------
(* The theorems.                                                           *)

LEMMA InitInv == ASSUME Init PROVE Inv
<1>1. PICK x : x = [daemon |-> 1, lease |-> "active", bound |-> None, open |-> TRUE]  OBVIOUS
<1>2. x \in Session /\ x.daemon = 1 /\ x.open /\ x.bound = None  BY <1>1 DEF Session, Path
<1>3. sess = <<x>> /\ sess \in Seq(Session) /\ Len(sess) = 1 /\ sess[1] = x  BY SMT, <1>1, <1>2 DEF Init
<1>4. \A t \in Task : /\ task[t] = IF t = Heart THEN [Idle EXCEPT !.kind = "beat"] ELSE Idle
                      /\ task[t] \in Local /\ Ended(task[t]) /\ task[t].pc = "idle"
  BY IdleType DEF Init, Idle, Ended, Kinds
<1>5. TypeOK
  <2>1. task \in [Task -> Local]  BY <1>4 DEF Init
  <2>2. cur \in 0..Len(sess) /\ gen \in 1..Len(sess)  BY SMT, <1>3 DEF Init
  <2>3. published \in Nat /\ last \in Path /\ pending \in {Cwd, None} /\ life = None /\ bind = None
    BY DEF Init, Path
  <2>4. {closing, closed, doubt} \subseteq BOOLEAN  BY DEF Init
  <2>5. calls \in 0..MaxCalls /\ faults \in 0..MaxFaults  BY SMT, BoundsAssumption DEF Init
  <2>. QED  BY <1>3, <2>1, <2>2, <2>3, <2>4, <2>5 DEF TypeOK
<1>6. Locked  BY <1>4, TaskAssumption DEF Init, Locked, Recovering, Task
<1>7. HeartOK  BY <1>4 DEF HeartOK, Idle, Task
<1>8. \A t \in Task : Placed(task[t]) /\ Sent(task[t])  BY <1>4, <1>5, EndedOK
<1>9. Losses
  <2>1. ~IsLost(cur)  BY <1>2, <1>3 DEF Init, IsLost
  <2>. QED  BY SMT, <1>4, <2>1 DEF Init, Losses
<1>10. Owned  BY SMT, <1>3 DEF Init, Owned
<1>11. Known
  <2>1. \A t \in Task : ~Binding(t) /\ ~Bound(t)  BY <1>4 DEF Binding, Bound
  <2>. QED  BY <1>2, <1>3, <1>4, <2>1 DEF Init, Known
<1>12. \A s \in 1..Len(sess) : sess[s].daemon <= published  BY SMT, <1>2, <1>3 DEF Init
<1>. QED  BY SMT, <1>5, <1>6, <1>7, <1>8, <1>9, <1>10, <1>11, <1>12 DEF Init, Inv

LEMMA StutterInv == ASSUME Inv, UNCHANGED vars PROVE Inv'
<1>. USE DEF vars, core
<1>1. TypeOK' /\ Locked' /\ HeartOK' /\ Losses' /\ Owned'
  BY DEF Inv, TypeOK, Locked, HeartOK, Losses, Owned, IsLost
<1>2. \A t \in Task : Placed(task[t])' /\ Sent(task[t])'  BY DEF Inv, Placed, Sent, IsLost
<1>3. ~doubt => Known'  BY DEF Inv, Known, Binding, Bound, Binds
<1>. QED  BY <1>1, <1>2, <1>3 DEF Inv

LEMMA NextInv == ASSUME Inv, [Next]_vars PROVE Inv'
<1>1. ASSUME NEW t \in Call, NEW k \in Kinds \ {"beat"}, NEW w \in Workspace \cup {None}, CallTool(t, k, w)
      PROVE  Inv'
  BY <1>1, CallToolInv
<1>2. ASSUME NEW t \in Call, EnsureStartupBinding(t) \/ Enter(t) \/ Exec(t) \/ Answer(t) PROVE Inv'
  BY <1>2, EnsureStartupBindingInv, EnterInv, ExecInv, AnswerInv
<1>3. ASSUME NEW t \in Task, Check(t) \/ Drop(t) \/ Recover(t) \/ OpenSession(t) PROVE Inv'
  BY <1>3, CheckInv, DropInv, RecoverInv, OpenSessionInv
<1>4. ASSUME NEW t \in Task, Restore(t) \/ Install(t) \/ OpenFails(t) \/ Retire(t) PROVE Inv'
  BY <1>4, RestoreInv, InstallInv, OpenFailsInv, RetireInv
<1>5. ASSUME Beat \/ ExecBeat \/ BeginClose \/ FinishClose \/ DaemonChanges PROVE Inv'
  BY <1>5, BeatInv, ExecBeatInv, BeginCloseInv, FinishCloseInv, DaemonChangesInv
<1>6. ASSUME NEW s \in DOMAIN sess, Break(s) \/ ExpireLease(s) PROVE Inv'
  BY <1>6, BreakInv, ExpireLeaseInv
<1>7. CASE Next  BY <1>1, <1>2, <1>3, <1>4, <1>5, <1>6, <1>7 DEF Next
<1>. QED  BY <1>7, StutterInv

LEMMA InvAlways == Spec => []Inv
<1>1. Init => Inv  BY InitInv
<1>2. Inv /\ [Next]_vars => Inv'  BY NextInv
<1>. QED  BY <1>1, <1>2, PTL DEF Spec

\* Type correctness, for any calls, workspaces and bounds.
THEOREM TypeCorrect == Spec => []TypeOK
<1>1. Inv => TypeOK  BY DEF Inv
<1>. QED  BY <1>1, InvAlways, PTL

\* However many tasks lose a session, and however often, _recover_generation installs
\* one session for the loss, and _invoke_with_recovery sends no effect twice.
THEOREM RecoveredOnceAlways == Spec => []RecoveredOnce
<1>1. ASSUME Inv PROVE RecoveredOnce
  <2>1. OneRecoveryPerLoss  BY <1>1 DEF Inv, Losses, OneRecoveryPerLoss
  <2>2. ASSUME NEW t \in Call, task[t].op = "main"
        PROVE  task[t].sent <= IF task[t].kind \in {"edit", "activate"} THEN 1 ELSE 2
    <3>1. Sent(task[t]) /\ task[t] \in Local  BY <1>1, Types DEF Inv, Task
    <3>2. task[t].sent \in Nat /\ task[t].second \in BOOLEAN /\ task[t].pc \in
            {"idle", "enter", "bind", "stopped", "check", "flight", "back", "recover"} \cup Recovering
      BY <3>1 DEF Local, Recovering
    <3>3. task[t].sent <= 2 /\ (~task[t].second => task[t].sent <= 1)  BY SMT, <3>1, <3>2 DEF Sent
    <3>4. task[t].second => task[t].kind \notin {"edit", "activate"}  BY <2>2, <3>1 DEF Sent, Effects
    <3>. QED  BY <3>2, <3>3, <3>4
  <2>. QED  BY <2>1, <2>2 DEF RecoveredOnce, NeverReplayed
<1>. QED  BY <1>1, InvAlways, PTL

\* Outside _recover the connector owns no lease but that of the installed session, and
\* while that lease is active and the client not in doubt it is bound to _last_binding.
THEOREM OneBoundLeaseAlways == Spec => []OneBoundLease
<1>1. ASSUME Inv PROVE OneBoundLease
  <2>1. NoLeakedLease
    <3>. SUFFICES ASSUME life = None, NEW s \in DOMAIN sess, Holds(s) PROVE s = cur
      BY DEF NoLeakedLease
    <3>1. s \in 1..Len(sess) /\ Held(sess[s])  BY <1>1, Types DEF Inv, Holds, Usable, Held
    <3>2. life \notin Task  BY TaskAssumption DEF Task
    <3>. QED  BY <1>1, <3>1, <3>2 DEF Inv, Owned
  <2>2. BindingRestored
    <3>. SUFFICES ASSUME ~doubt, cur # 0, Holds(cur), \A t \in Task : ~Binding(t)
                  PROVE  sess[cur].bound = last
      BY DEF BindingRestored
    <3>1. \A t \in Task : ~Bound(t)  BY DEF Binding, Bound
    <3>2. Held(sess[cur])  BY DEF Holds, Usable, Held
    <3>. QED  BY <1>1, <3>1, <3>2 DEF Inv, Known
  <2>. QED  BY <2>1, <2>2 DEF OneBoundLease
<1>. QED  BY <1>1, InvAlways, PTL
=============================================================================

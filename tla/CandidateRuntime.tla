---------------------------- MODULE CandidateRuntime ----------------------------
(***************************************************************************)
(* prepare_candidate_runtime: the service-owned runtime of one candidate   *)
(* lock, in a directory named by the lock's digest.  Under an exclusive    *)
(* lock a call verifies a published runtime, or purges what is there and   *)
(* builds one, the manifest last; a failed build is purged.                *)
(*                                                                         *)
(* The parts of the root are its directories, the snapshot of the lock,    *)
(* the venv, the installed packages and the candidate executables in it,   *)
(* the service configuration, the file modes and the manifest.  The tools  *)
(* (uv, the base interpreter, the declared interpreters) live outside it   *)
(* and change on their own.                                                *)
(***************************************************************************)
EXTENDS EvaluationHost

VARIABLES
    root,      \* the parts of the runtime root
    prep,      \* one call of prepare_candidate_runtime per evaluator
    tools,     \* version of the external tools
    foreign,   \* whether anything but the holder of the lock wrote below the root:
               \* "no", "running" (an installer whose evaluator was killed) or "yes"
    touched    \* history: per call, the parts written so since the call began

runtimeVars == <<root, prep, tools, foreign, touched>>

Parts == {"directories", "snapshot", "venv", "packages", "executables", "configs", "modes"}
Installed == {"venv", "packages", "executables"}   \* written by uv, never fsynced
Verified == Parts \ {"packages"}                   \* what a reuse looks at

NoManifest == [tools |-> 0, environments |-> 0]
Bare == [parts |-> [p \in Parts |-> "none"], manifest |-> NoManifest, durable |-> TRUE]

NoPrep == [stage |-> "idle"]
Holding == {"open", "clear", "build", "verify", "purge"}

BuildSteps == <<"directories", "tools", "snapshot", "venv", "sync", "executables", "environments",
                "configs", "production", "manifest", "barrier", "modes">>
ReuseSteps_Unhashed == <<"directories", "modes", "snapshot", "venv", "tools", "environments", "configs">>
ReuseSteps == <<"directories", "modes", "snapshot", "venv", "executables", "tools", "environments", "configs">>

RuntimeInit ==
    /\ root = Bare
    /\ prep = [e \in Evaluators |-> NoPrep]
    /\ tools = 1
    /\ foreign = "no"
    /\ touched = [e \in Evaluators |-> {}]

Advance(e, stage, todo) == prep' = [prep EXCEPT ![e].stage = stage, ![e].todo = todo]
Moves(e, stage, todo, why) == prep' = [prep EXCEPT ![e].stage = stage, ![e].todo = todo, ![e].why = why]
SetPart(p, value) == root' = [root EXCEPT !.parts[p] = value]
Occupied == {p \in Parts : root.parts[p] # "none"} \cup (IF root.manifest = NoManifest THEN {} ELSE {"manifest"})

Prepare(e) ==
    /\ prep[e].stage = "idle"
    /\ prep' = [prep EXCEPT ![e] = [stage |-> "waiting", todo |-> <<>>, before |-> production,
                                    measured |-> NoManifest, why |-> "none"]]
    /\ touched' = [touched EXCEPT ![e] = {}]
    /\ UNCHANGED <<root, tools, foreign>>

\* the per-digest flock; the root is opened, and its manifest read, under it
LockRuntime(e) ==
    /\ prep[e].stage = "waiting"
    /\ \A other \in Evaluators : prep[other].stage \notin Holding
    /\ Advance(e, "open", <<>>)
    /\ UNCHANGED <<root, tools, foreign, touched>>

RuntimeLockExpires(e) ==
    /\ prep[e].stage = "waiting"
    /\ CollectExpired(e) /\ \E other \in Evaluators : prep[other].stage \in Holding
    /\ Moves(e, "bracket", <<>>, "deadline")
    /\ UNCHANGED <<root, tools, foreign, touched>>

ReadManifest(e) ==
    /\ prep[e].stage = "open"
    /\ IF root.manifest # NoManifest THEN Advance(e, "verify", ReuseSteps) ELSE Advance(e, "clear", <<>>)
    /\ UNCHANGED <<root, tools, foreign, touched>>

\* one entry of the root goes; the directory is listed in no particular order
Removes(p) ==
    root' = IF p = "manifest" THEN [root EXCEPT !.manifest = NoManifest, !.durable = TRUE]
            ELSE [root EXCEPT !.parts[p] = "none"]

PurgeEntry(e) ==
    /\ prep[e].stage \in {"clear", "purge"}
    /\ \E p \in Occupied : Removes(p)
    /\ UNCHANGED <<prep, tools, foreign, touched>>

Purged(e) ==
    /\ prep[e].stage \in {"clear", "purge"} /\ Occupied = {}
    /\ IF prep[e].stage = "clear" THEN Advance(e, "build", BuildSteps) ELSE Advance(e, "bracket", <<>>)
    /\ UNCHANGED <<root, tools, foreign, touched>>

-----------------------------------------------------------------------------
\* A build.

Next_(e) == Advance(e, "build", Tail(prep[e].todo))
Fails(e, why) == Moves(e, "purge", <<>>, why)

Measures(e, what) ==
    /\ prep' = [prep EXCEPT ![e].todo = Tail(@), ![e].measured[what] = tools]
    /\ UNCHANGED root

Writes(e, ps) ==
    /\ root' = [root EXCEPT !.parts = [p \in Parts |-> IF p \in ps THEN "right" ELSE @[p]]]
    /\ Next_(e)

\* the commands are bounded by the time left; the other steps are not
Bounded(step) == step \in {"tools", "venv", "sync", "executables", "environments", "production"}

BuildStep(e) ==
    /\ prep[e].stage = "build" /\ prep[e].todo # <<>>
    /\ LET step == Head(prep[e].todo) IN
       /\ ~(Bounded(step) /\ CollectExpired(e))
       /\ CASE step \in {"tools", "environments"} -> Measures(e, step)
            [] step \in {"directories", "snapshot", "venv", "configs", "modes"} -> Writes(e, {step})
            [] step = "sync" -> Writes(e, {"packages", "executables"})
            [] step = "executables" -> UNCHANGED root /\ IF root.parts.executables = "right" THEN Next_(e) ELSE Fails(e, "failed")
            [] step = "production" -> UNCHANGED root /\ IF production = prep[e].before THEN Next_(e) ELSE Fails(e, "drift")
            [] step = "manifest" -> root' = [root EXCEPT !.manifest = prep[e].measured, !.durable = FALSE] /\ Next_(e)
            [] step = "barrier" -> root' = [root EXCEPT !.durable = TRUE] /\ Next_(e)
    /\ UNCHANGED <<tools, foreign, touched>>

BuildExpires(e) ==
    /\ prep[e].stage = "build" /\ prep[e].todo # <<>>
    /\ Bounded(Head(prep[e].todo)) /\ CollectExpired(e)
    /\ Fails(e, "deadline")
    /\ UNCHANGED <<root, tools, foreign, touched>>

\* a step fails, an installer half way
BuildStepFails(e) ==
    /\ prep[e].stage = "build" /\ prep[e].todo # <<>>
    /\ IF Head(prep[e].todo) = "sync" THEN SetPart("packages", "partial") ELSE UNCHANGED root
    /\ Fails(e, "failed")
    /\ UNCHANGED <<tools, foreign, touched>>

\* the purge itself fails: the rest of the root stays as it is
PurgeFails(e) ==
    /\ prep[e].stage \in {"clear", "purge"} /\ Occupied # {}
    /\ Moves(e, "bracket", <<>>, "failed")
    /\ UNCHANGED <<root, tools, foreign, touched>>

Built(e) ==
    /\ prep[e].stage = "build" /\ prep[e].todo = <<>>
    /\ Moves(e, "bracket", <<>>, "ok")
    /\ UNCHANGED <<root, tools, foreign, touched>>

-----------------------------------------------------------------------------
\* A reuse: every part is looked at, the tools are measured again, nothing is purged.

Agrees(e, step) ==
    IF step \in {"tools", "environments"} THEN root.manifest[step] = tools ELSE root.parts[step] = "right"

ReuseRefused_Purges(e) == Moves(e, "purge", <<>>, "failed")
ReuseRefused(e) == Moves(e, "bracket", <<>>, "failed")

\* the tools and the interpreters are asked for their versions, within the time left
Asks(step) == step \in {"tools", "environments"}

\* a file mode widened since is repaired, the rest is refused
ReuseStep(e) ==
    /\ prep[e].stage = "verify" /\ prep[e].todo # <<>>
    /\ LET step == Head(prep[e].todo) IN
       /\ ~(Asks(step) /\ CollectExpired(e))
       /\ IF step = "modes" /\ root.parts.modes = "changed"
          THEN SetPart("modes", "right") /\ Advance(e, "verify", Tail(prep[e].todo))
          ELSE /\ UNCHANGED root
               /\ IF Agrees(e, step) THEN Advance(e, "verify", Tail(prep[e].todo))
                                     ELSE ReuseRefused(e)
    /\ UNCHANGED <<tools, foreign, touched>>

\* a command that is out of time or fails, a file that cannot be read or repaired
ReuseExpires(e) ==
    /\ prep[e].stage = "verify" /\ prep[e].todo # <<>>
    /\ Asks(Head(prep[e].todo)) /\ CollectExpired(e)
    /\ ReuseRefused(e)
    /\ UNCHANGED <<root, tools, foreign, touched>>

ReuseStepFails(e) ==
    /\ prep[e].stage = "verify" /\ prep[e].todo # <<>>
    /\ ReuseRefused(e)
    /\ UNCHANGED <<root, tools, foreign, touched>>

Reused(e) ==
    /\ prep[e].stage = "verify" /\ prep[e].todo = <<>>
    /\ prep' = [prep EXCEPT ![e].stage = "bracket", ![e].measured = root.manifest, ![e].why = "ok"]
    /\ UNCHANGED <<root, tools, foreign, touched>>

\* production is measured again on every way out; a change, or no time to measure it,
\* outranks any other failure
Bracket(e) ==
    /\ prep[e].stage = "bracket"
    /\ prep' = [prep EXCEPT ![e] =
                  IF production # prep[e].before \/ CollectExpired(e) THEN [stage |-> "failed", why |-> "drift"]
                  ELSE IF prep[e].why = "ok" THEN [stage |-> "done", manifest |-> prep[e].measured]
                  ELSE [stage |-> "failed", why |-> prep[e].why]]
    /\ UNCHANGED <<root, tools, foreign, touched>>

-----------------------------------------------------------------------------
\* load_prepared_candidate_runtime: the same runtime, read without the lock and without a
\* repair, what was observed before the verification compared with what is there after it.

Observed == [parts |-> [p \in Verified |-> root.parts[p]], manifest |-> root.manifest, tools |-> tools]

Load(e, manifest) ==
    /\ prep[e].stage = "idle"
    /\ prep' = [prep EXCEPT ![e] = IF root.manifest = manifest
                                   THEN [stage |-> "loading", seen |-> Observed]
                                   ELSE [stage |-> "failed", why |-> "failed"]]
    /\ touched' = [touched EXCEPT ![e] = {}]
    /\ UNCHANGED <<root, tools, foreign>>

LoadVerifies(e) ==
    /\ prep[e].stage = "loading"
    /\ prep' = [prep EXCEPT ![e] =
                  IF \A step \in Verified \cup {"tools", "environments"} : Agrees(e, step)
                  THEN [stage |-> "loaded", seen |-> prep[e].seen] ELSE [stage |-> "failed", why |-> "failed"]]
    /\ UNCHANGED <<root, tools, foreign, touched>>

LoadReturns(e) ==
    /\ prep[e].stage = "loaded"
    /\ prep' = [prep EXCEPT ![e] = IF Observed = prep[e].seen
                                   THEN [stage |-> "done", manifest |-> prep[e].seen.manifest]
                                   ELSE [stage |-> "failed", why |-> "failed"]]
    /\ UNCHANGED <<root, tools, foreign, touched>>

RuntimeStep(e) ==
    \/ LockRuntime(e) \/ RuntimeLockExpires(e) \/ ReadManifest(e) \/ PurgeEntry(e) \/ Purged(e) \/ BuildStep(e)
    \/ BuildExpires(e) \/ Built(e) \/ ReuseStep(e) \/ ReuseExpires(e) \/ Reused(e) \/ Bracket(e)
    \/ LoadVerifies(e) \/ LoadReturns(e)
RuntimeFails(e) == BuildStepFails(e) \/ PurgeFails(e) \/ ReuseStepFails(e)

-----------------------------------------------------------------------------
\* What happens to the root from outside.

\* the tools are upgraded, or something under the root is changed by hand
Touches(p) == touched' = [e \in Evaluators |-> touched[e] \cup {p}]
ToolsChange == tools' = tools + 1 /\ UNCHANGED <<root, prep, foreign, touched>>
RootEdited ==
    /\ \E p \in Parts : root.parts[p] = "right" /\ SetPart(p, "changed") /\ Touches(p)
    /\ foreign' = "yes"
    /\ UNCHANGED <<prep, tools>>

\* an installer, in a session of its own, goes on after its evaluator was killed
InstallerOutlives(e) ==
    foreign' = IF prep[e].stage = "build" /\ prep[e].todo # <<>> /\ Head(prep[e].todo) \in {"venv", "sync"} /\ foreign = "no"
               THEN "running" ELSE foreign
InstallerWrites ==
    /\ foreign = "running"
    /\ \E p \in {"packages", "executables"} : SetPart(p, "changed") /\ Touches(p)
    /\ foreign' = "yes"
    /\ UNCHANGED <<prep, tools>>

\* a power loss tears what was never fsynced, and undoes a manifest without its barrier
RootLosesPower ==
    \E torn \in SUBSET {p \in Installed : root.parts[p] = "right"},
       manifest \in {root.manifest} \cup (IF root.durable THEN {} ELSE {NoManifest}) :
        /\ root' = [parts |-> [p \in Parts |-> IF p \in torn THEN "changed" ELSE root.parts[p]],
                    manifest |-> manifest, durable |-> TRUE]
        /\ foreign' = IF foreign = "running" THEN "no" ELSE foreign
        /\ UNCHANGED touched

-----------------------------------------------------------------------------
\* A runtime handed to a caller is, and stays, what its manifest says.  Its manifest is the
\* one that was handed over; every part a reuse or a load verifies is in place, whatever
\* failed, was killed or lost power before the call, unless something other than a call
\* wrote that part since the call began; and no failed build, no later verification and no
\* other caller purges or rebuilds it.  The installed packages are not verified again: they
\* are complete unless they were edited from outside, lost power before they reached the
\* disk, or two things went wrong (a purge of a published runtime that was cut short).
HandedRuntimeStays ==
    \A e \in Evaluators : prep[e].stage = "done" =>
        /\ root.manifest = prep[e].manifest
        /\ \A p \in Verified \ touched[e] : root.parts[p] = "right"
        /\ foreign # "yes" /\ ~power /\ faults + crashes <= 1 => root.parts.packages = "right"
=============================================================================

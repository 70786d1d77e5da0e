---------------------------- MODULE EvaluationHost ----------------------------
(***************************************************************************)
(* What the evaluation scripts share with the machine they run on: the     *)
(* directories they keep their artifacts in, the production checkout they  *)
(* must leave alone, and a budget of things that go wrong.                 *)
(*                                                                         *)
(* A directory has a live image and a durable one.  An operation changes   *)
(* the live image; fsync of the directory makes the live image durable.    *)
(* After a power loss the directory is in its durable image or in any      *)
(* image it went through since: operations reach the disk in order.  A     *)
(* file the scripts write themselves is fsynced before it is renamed into  *)
(* place; a file another program wrote is "soft" until it is fsynced, and  *)
(* may be torn by a power loss.                                            *)
(***************************************************************************)
EXTENDS Naturals, Sequences, FiniteSets

CONSTANTS
    Evaluators,   \* processes that run the evaluation commands
    MaxFaults,    \* bound: operating-system calls that fail
    MaxCrashes,   \* bound: processes killed, plus power losses
    MaxDrift      \* bound: changes made to production, corpus or tools from outside

VARIABLES
    faults,       \* calls that failed so far
    crashes,      \* kills and power losses so far
    power,        \* whether one of them was a power loss
    clock,        \* per evaluator: how far its monotonic deadline has run
    drift,        \* outside changes so far
    production    \* version of the production locks, build and runtime paths

hostVars == <<faults, crashes, power, clock, drift, production>>

\* Deadline: 0, then 1 once the work before the reserved window is out of time, 2 once less
\* than the publication reserve is left, 3 once the ceiling has passed
CollectExpired(e) == clock[e] >= 1
WindowClosed(e) == clock[e] >= 2
Expired(e) == clock[e] >= 3

NoFile == [absent |-> TRUE]
Torn == <<>>   \* an empty file stands for a torn one
File(data) == [data |-> data, soft |-> FALSE]
SoftFile(data) == [data |-> data, soft |-> TRUE]
Present(node) == node # NoFile

Directory(image) == [live |-> image, durable |-> image, maybe |-> {}]
Changed(dir, image) == [dir EXCEPT !.live = image, !.maybe = @ \cup {image}]
Put(dir, name, node) == Changed(dir, [dir.live EXCEPT ![name] = node])
Synced(dir) == Directory(dir.live)

IsSoft(node) == Present(node) /\ node.soft

\* fsync of one file, in every image that has it (a directory has one soft file at a time)
Hardened(dir, name) ==
    LET hard(image) == [n \in DOMAIN image |-> IF IsSoft(image[n]) /\ IsSoft(dir.live[name])
                                               THEN File(image[n].data) ELSE image[n]]
    IN  [live |-> hard(dir.live), durable |-> hard(dir.durable), maybe |-> {hard(i) : i \in dir.maybe}]

\* the directories a power loss may leave
AfterPowerLoss(dir) ==
    LET soft(image) == {n \in DOMAIN image : IsSoft(image[n])}
        settled(image, torn) == [n \in DOMAIN image |->
            IF n \in soft(image) THEN File(IF n \in torn THEN Torn ELSE image[n].data) ELSE image[n]]
    IN  UNION {{Directory(settled(image, torn)) : torn \in SUBSET soft(image)}
                 : image \in {dir.durable} \cup dir.maybe}

HostInit == faults = 0 /\ crashes = 0 /\ power = FALSE /\ clock = [e \in Evaluators |-> 0] /\ drift = 0 /\ production = 0

\* nothing went wrong but one power loss, or no power was lost
SingleFailure == power => faults + crashes = 1

Tick(e) == clock[e] < 3 /\ clock' = [clock EXCEPT ![e] = @ + 1]

CallFails == faults < MaxFaults /\ faults' = faults + 1
=============================================================================

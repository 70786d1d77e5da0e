----------------------------- MODULE MCEvaluation -----------------------------
\* The evaluation with two evaluators.
EXTENDS Evaluation, TLC

Line(n, h) == [name |-> n, pinned |-> TRUE, hashes |-> h]
\* two good resolutions and one that does not name the candidate
MCOutputs == {<<Line("ty", <<1>>)>>, <<Line("ty", <<2>>)>>, <<Line("x", <<1>>)>>}
MCTrouble == [f \in Foci |-> IF f \in {"probe", "phase"} THEN 1 ELSE 2]
Symmetry == Permutations(Evaluators)

\* Every call of compile_candidate_lock that returns returns the same resolution, after a
\* recovery the directory holds a complete freeze or none, and no reusable freeze stems
\* from a resolution during which production changed.  The first is stated
\* for a power loss that is the only trouble (SingleFailure); the first two until a resolver
\* that outlived its killed caller writes.  The directory itself, made by a mkdir that
\* is not synced, is taken to survive a power loss.
FreezeSound == Freezing!FrozenOnce /\ Freezing!RecoveryComplete /\ Freezing!NoDriftedFreeze
\* A runtime handed to a caller stays what its manifest says (runtime.py).
HandedRuntimeStays == Runtimes!HandedRuntimeStays
\* What publish_immutable_record reports is what the disk says after any power loss.
ReportMatchesRecord == Admitting!ReportMatchesRecord
\* A passing admission receipt is true of the whole run (admission.py), and the hashed
\* files of each of its manifests are one instant of the corpus (manifests.py).
AdmissionSound == Admitting!PassTruthful /\ Admitting!CaptureIsAnInstant
\* No candidate process is left behind unnoticed (protocol.py, protocol_lifecycle.py).
NoBackendLeft == Probing!NoBackendLeft
\* A decision rests on a passing protocol receipt and a complete ledger, and a protocol
\* receipt on durable witnesses and the parent's versions.
EvidenceBacked == Closing!DecisionBacked /\ Closing!ReceiptBacked
=============================================================================

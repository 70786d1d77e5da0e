------------------------------- MODULE Closeout -------------------------------
(***************************************************************************)
(* backend_eval_closeout: read a published protocol receipt and the ledger *)
(* of attempts, and publish a decision in a directory of its own.          *)
(***************************************************************************)
EXTENDS ProtocolPhase

VARIABLES
    decisions,   \* the directory the decision receipts are published in
    deciding,    \* one call of publish_immutable_record per evaluator
    closeout     \* one closeout per evaluator

closeoutVars == <<decisions, deciding, closeout>>

D == INSTANCE Publication WITH records <- decisions, pub <- deciding

CloseoutInit ==
    /\ D!PubInit
    /\ closeout = [e \in Evaluators |-> [stage |-> "idle"]]

\* CloseoutInput: the decision the caller asks for, whether they say the ledger is complete,
\* whether it holds the passing parent and protocol attempts, and whether its upper bounds
\* stay below the two ceilings
Inputs == [decision : {"retain_pyright", "inconclusive_retain_pyright", "promote"},
           complete : BOOLEAN, bound : BOOLEAN, within : BOOLEAN]

\* _verify_protocol_binding, _candidate_dispositions
StopGate == [c \in CandidateNames |-> CASE c = "pyright" -> "pass"
                                        [] c = "ty" -> "seam_incompatible_pull_only"
                                        [] c = "pyrefly" -> "fail"]
ProtocolBound_Dispositions(receipt) == receipt[3] = StopGate
ProtocolBound(receipt) == receipt[1] = "pass" /\ receipt[2] = "stop" /\ receipt[3] = StopGate

\* _verify_complete_ledger_bindings
LedgerBound(input) == input.complete => input.bound

\* DecisionReceipt.__post_init__
Decisive(input) == input.decision # "inconclusive_retain_pyright"
Supported(input) == input.decision # "promote" /\ (Decisive(input) => input.complete /\ input.within)

\* the reviews bind the receipt's bytes, so its phase is over
StartCloseout(e, of) ==
    /\ closeout[e].stage = "idle" /\ phase[e].stage = "idle"
    /\ phase[of].stage \in {"ended", "dead"} /\ HasRecord(of)
    /\ \E input \in Inputs :
         IF ProtocolBound(Recorded_(of).data) /\ LedgerBound(input) /\ Supported(input)
         THEN /\ D!StartPublication(e, <<of, input.decision, input.complete, input.within>>)
              /\ closeout' = [closeout EXCEPT ![e] = [stage |-> "publish"]]
         ELSE /\ closeout' = [closeout EXCEPT ![e] = [stage |-> "refused"]]
              /\ UNCHANGED <<decisions, deciding>>
    /\ UNCHANGED phaseVars

CloseoutStep(e) ==
    /\ closeout[e].stage = "publish"
    /\ IF deciding[e].stage = "ended"
       THEN closeout' = [closeout EXCEPT ![e] = [stage |-> "ended"]] /\ UNCHANGED <<decisions, deciding>>
       ELSE D!PubStep(e) /\ UNCHANGED closeout
    /\ UNCHANGED phaseVars

CloseoutFails(e) == closeout[e].stage = "publish" /\ D!PubFails(e) /\ UNCHANGED <<closeout, phaseVars>>

-----------------------------------------------------------------------------
\* A decision on disk rests on a protocol receipt that is still there after any single
\* failure: a pass that stops at the gate, every fact of it measured on the parent's
\* versions, and a decisive outcome only from a complete ledger within both ceilings.
DecisionBacked ==
    \A e \in Evaluators :
        LET decision == decisions.live[Final(e)] IN
        Present(decision) /\ decision.data # Torn /\ SingleFailure =>
            LET of == decision.data[1] IN
            /\ HasRecord(of) /\ Recorded_(of).data[1] = "pass" /\ Recorded_(of).data[2] = "stop"
            /\ In(of, "ended") => phase[of].onParent
            /\ decision.data[2] # "inconclusive_retain_pyright" => decision.data[3] /\ decision.data[4]
=============================================================================

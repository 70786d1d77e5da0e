------------------------------- MODULE Answers -------------------------------
(* The client-visible answer of a navigation or diagnostics call and its       *)
(* character budget (tools/compact.py, compact_adapter.py, presentation.py,    *)
(* diagnostics_adapter.py).  What JSON text is long for is kept as numbers: a  *)
(* record, a file group, a hash, an error field has a length, and the omitted  *)
(* count has the length of its digits.                                         *)
EXTENDS Integers, Sequences, FiniteSets, FiniteSetsExt, SequencesExt

CONSTANTS MinBudget, MaxBudget,   \* MIN_MAX_ANSWER_CHARS, MAX_MAX_ANSWER_CHARS
          Frame,                  \* a success without files, and without its omitted count
          PathChars, HashChars,   \* a file group, and the hash of one that shows a body
          ErrorFrame,             \* an error with only its fixed fields
          DetailChars,            \* the details of an operational error, of any length
          WitnessChars            \* the length-and-digest witness of a target

(* The fixed error texts fit the smallest budget a caller may ask for.         *)
ASSUME BudgetAssumption ==
  /\ {MinBudget, MaxBudget, Frame, PathChars, HashChars, ErrorFrame, DetailChars, WitnessChars} \subseteq Nat
  /\ ErrorFrame + WitnessChars <= MinBudget /\ MinBudget <= MaxBudget

Digits(n) == IF n < 10 THEN 1 ELSE IF n < 100 THEN 2 ELSE 3
ValidBudget(b) == b \in MinBudget..MaxBudget
Total(s) == FoldSeq(+, 0, s)

(* render_error_result bounds the text of these errors only; any other, the     *)
(* operational ones, is rendered whole.                                         *)
CompactErrors == {"INVALID_INPUT", "INVALID_PATH", "SYMBOL_NOT_FOUND", "AMBIGUOUS_SYMBOL"}
Operational(code) == [ok |-> FALSE, code |-> code, chars |-> ErrorFrame + DetailChars]

Success(kept, omitted, chars) == [ok |-> TRUE, kept |-> kept, omitted |-> omitted, chars |-> chars]

(* minimum_required_chars_result: optional fields are shed in order, then the  *)
(* exact target is replaced by its witness and the action by one without it.   *)
Shed(fields, n) == Total([k \in 1..Len(fields) - n |-> fields[n + k]])

MinimumRequired_Unbounded(minimum, action, fields, target, budget) ==
  [ok |-> FALSE, code |-> "INVALID_INPUT", minimum |-> minimum, action |-> action,
   chars |-> ErrorFrame + Shed(fields, 0) + target]

MinimumRequired(minimum, action, fields, target, budget) ==
  LET size(n) == ErrorFrame + Shed(fields, n) + target
      fitting == {n \in 0..Len(fields) : size(n) <= budget}
  IN  IF fitting # {}
      THEN [ok |-> FALSE, code |-> "INVALID_INPUT", minimum |-> minimum, action |-> action, chars |-> size(Min(fitting))]
      ELSE [ok |-> FALSE, code |-> "INVALID_INPUT", minimum |-> minimum,
            action |-> "find_symbol_location_then_exact_file_read",
            chars |-> ErrorFrame + WitnessChars]

(* The loops drop trailing records until the text fits.                        *)
Longest(n, Chars(_), budget) == {k \in 1..n : Chars(k) <= budget}

------------------------------------------------------------------------------
(* Flat records: [path, at, chars, body].                                      *)

RecordBefore(a, b) ==
  \/ a.path < b.path
  \/ a.path = b.path /\ (\/ a.at < b.at
                         \/ a.at = b.at /\ a.chars < b.chars
                         \/ a.at = b.at /\ a.chars = b.chars /\ a.body /\ ~b.body)

(* The elements of a finite set in a strict total order.                       *)
InOrder(S, Less(_, _)) ==
  [k \in 1..Cardinality(S) |-> CHOOSE x \in S : Cardinality({y \in S : Less(y, x)}) = k - 1]

(* _unique_sorted_records *)
UniqueSorted(records) == InOrder(records, RecordBefore)

GroupChars(ordered, k, path) ==
  PathChars + (IF \E i \in 1..k : ordered[i].path = path /\ ordered[i].body THEN HashChars ELSE 0)

FlatChars(ordered, k, omitted, coverage) ==
  Frame + coverage + Digits(omitted) + Total([i \in 1..k |-> ordered[i].chars])
    + MapThenSumSet(LAMBDA p : GroupChars(ordered, k, p), {ordered[i].path : i \in 1..k})

(* _exact_body_recovery_action; "none" when the call showed no single body.    *)
RecoveryAction(recovery, minimum) ==
  CASE recovery = "none"     -> "none"
    [] recovery = "children" -> "overview_then_find_child_symbol"
    [] OTHER -> IF minimum <= MaxBudget THEN "retry_with_minimum_answer_chars"
                ELSE "find_symbol_location_then_exact_file_read"

MinimumFlat_LastRecord(ordered, upstream, coverage) ==
  FlatChars(<<ordered[Len(ordered)]>>, 1, upstream + Len(ordered) - 1, coverage)

(* _minimum_flat_success_chars *)
MinimumFlat(ordered, upstream, coverage) ==
  FlatChars(<<ordered[1]>>, 1, upstream + Len(ordered) - 1, coverage)

(* render_bounded_records *)
BoundedRecords(ordered, upstream, coverage, recovery, fields, target, budget) ==
  LET n == Len(ordered)
      omitted(k) == upstream + n - k
      chars(k) == FlatChars(ordered, k, omitted(k), coverage)
      fitting == Longest(n, chars, budget)
      minimum == MinimumFlat(ordered, upstream, coverage)
  IN  CASE n = 0 /\ chars(0) <= budget -> Success(0, upstream, chars(0))
        [] n = 0 /\ chars(0) > budget -> MinimumRequired(chars(0), "none", fields, 0, budget)
        [] n > 0 /\ fitting # {} -> Success(Max(fitting), omitted(Max(fitting)), chars(Max(fitting)))
        [] OTHER -> MinimumRequired(minimum, RecoveryAction(recovery, minimum), fields,
                                    IF recovery = "children" THEN target ELSE 0, budget)

OverLimit(n, limit) == IF n > limit THEN n - limit ELSE 0

(* compact_navigation_result for find_symbol: max_matches before the budget.   *)
CompactRecords(records, limit, upstream, coverage, recovery, fields, target, budget) ==
  LET ordered == UniqueSorted(records)
      kept    == SubSeq(ordered, 1, IF Len(ordered) < limit THEN Len(ordered) ELSE limit)
  IN  BoundedRecords(kept, upstream + OverLimit(Len(ordered), limit), coverage, recovery,
                     fields, target, budget)

------------------------------------------------------------------------------
(* get_symbols_overview: nodes [file, parent, match, chars] in depth-first      *)
(* order.  A node without match (not CompactOverviewSymbol.intrinsic_match)     *)
(* is shown only as the ancestor of one that has it.                            *)

Above(nodes, i) == LET p == nodes[i].parent
                   IN  IF p = 0 THEN {} ELSE {p} \cup (IF nodes[p].parent = 0 THEN {} ELSE {nodes[p].parent})
Below(nodes, i) == {j \in DOMAIN nodes : i \in Above(nodes, j)}

RemoveLast_LeavesBare(nodes, kept) == kept \ {Max(kept)}

(* _remove_last_overview_node, _remove_last_symbol *)
RemoveLast(nodes, kept) ==
  LET last == Max(kept)
      bare == {a \in Above(nodes, last) : ~nodes[a].match}
      gone == {a \in bare : (Below(nodes, a) \cap kept) \ {last} \subseteq bare}
  IN  kept \ (gone \cup {last})

OverviewChars(nodes, kept, omitted) ==
  Frame + Digits(omitted) + PathChars * Cardinality({nodes[i].file : i \in kept})
    + MapThenSumSet(LAMBDA i : nodes[i].chars, kept)

(* _minimum_overview_symbol_prefix: down the first children to the first match *)
MinimumPrefix(nodes) ==
  LET first == Min({i \in DOMAIN nodes : nodes[i].match}) IN Above(nodes, first) \cup {first}

(* render_bounded_overview; "shown" is the set of nodes of the answer.          *)
BoundedOverview(nodes, upstream, fields, budget) ==
  LET n == Len(nodes)
      after[k \in 0..n] == IF k = 0 THEN 1..n
                           ELSE IF after[k - 1] = {} THEN {} ELSE RemoveLast(nodes, after[k - 1])
      omitted(kept) == upstream + n - Cardinality(kept)
      chars(kept) == OverviewChars(nodes, kept, omitted(kept))
      fitting == {k \in 0..n : after[k] # {} /\ chars(after[k]) <= budget}
      shown == IF n = 0 THEN {} ELSE after[Min(fitting)]
  IN  IF (n = 0 /\ chars({}) <= budget) \/ fitting # {}
      THEN Success(Cardinality(shown), omitted(shown), chars(shown)) @@ [shown |-> shown]
      ELSE MinimumRequired(IF n = 0 THEN chars({}) ELSE chars(MinimumPrefix(nodes)),
                           "none", fields, 0, budget)

------------------------------------------------------------------------------
(* compact_diagnostics_result: the groups flattened, then a bounded prefix.     *)

DiagnosticsChars(findings, k, omitted) ==
  Frame + PathChars + Digits(omitted) + Total(SubSeq(findings, 1, k))

BoundedDiagnostics(groups, upstream, budget) ==
  LET findings == FlattenSeq(groups)
      n == Len(findings)
      omitted(k) == upstream + n - k
      chars(k) == DiagnosticsChars(findings, k, omitted(k))
      fitting == {k \in (IF n = 0 THEN {0} ELSE 1..n) : chars(k) <= budget}
  IN  IF fitting # {}
      THEN Success(Max(fitting), omitted(Max(fitting)), chars(Max(fitting)))
      ELSE MinimumRequired(chars(IF n = 0 THEN 0 ELSE 1), "none", <<>>, 0, budget)

------------------------------------------------------------------------------
(* AMBIGUOUS_SYMBOL: candidates [rich, chars], with the length before and after *)
(* _compact_ambiguity_candidate.                                                *)

(* _bounded_candidates: the longest prefix whose every prefix fits.             *)
BoundedCandidates(candidates, budget) ==
  LET rich(k) == Total([i \in 1..k |-> candidates[i].rich])
  IN  SubSeq(candidates, 1, Max({k \in 0..Len(candidates) : \A i \in 1..k : rich(i) <= budget}))

CandidateTotal_KeptOnly(kept, upstream) == Len(kept)
CandidateTotal(kept, upstream) == Len(kept) + upstream

(* _compact_ambiguity, _bound_ambiguity: trailing candidates, then the query    *)
(* echoes, then the workspace.                                                  *)
AmbiguityError(candidates, upstream, echoes, workspace, budget) ==
  LET original == CandidateTotal(candidates, upstream)
      chars(k, e, w) == ErrorFrame + Total([i \in 1..k |-> candidates[i].chars]) + Shed(echoes, e) + w
                          + (IF original > k THEN Digits(original - k) ELSE 0)
      some == {k \in 0..Len(candidates) : chars(k, 0, workspace) <= budget}
      bare == {e \in 1..Len(echoes) : chars(0, e, workspace) <= budget}
      shown == IF some # {} THEN Max(some) ELSE 0
  IN  [ok |-> FALSE, code |-> "AMBIGUOUS_SYMBOL", kept |-> shown, omitted |-> original - shown,
       chars |-> CASE some # {} -> chars(shown, 0, workspace)
                   [] some = {} /\ bare # {} -> chars(0, Min(bare), workspace)
                   [] OTHER -> chars(0, Len(echoes), 0)]

(* _bound_deterministic: echoes in their fixed order, the other details from    *)
(* the largest down, then the workspace; the recovery action is never dropped.  *)
DeterministicError(code, echoes, others, workspace, action, budget) ==
  LET optional == echoes \o SortSeq(others, >)
      chars(n, w) == ErrorFrame + action + Shed(optional, n) + w
      fitting == {n \in 0..Len(optional) : chars(n, workspace) <= budget}
  IN  [ok |-> FALSE, code |-> code,
       chars |-> IF fitting # {} THEN chars(Min(fitting), workspace) ELSE chars(Len(optional), 0)]
==============================================================================

------------------------------- MODULE MCReads -------------------------------
(* What a read answers: a behaviour follows either one tool call over fixed    *)
(* documents (Navigation) or the freshness check around one read of changing   *)
(* files (FreshRead).  The other one's variables rest.                         *)
EXTENDS Navigation

CONSTANTS MaxVal, MaxWrites, MaxOuter, MaxFaults, MaxReads

Node(name, kind, start, end, parent, text) ==
  [name |-> name, kind |-> kind, start |-> start, end |-> end, parent |-> parent,
   chars |-> 2 + (end[1] - start[1]), text |-> text, incomplete |-> FALSE]

(* An overloaded method pair inside a class, a variable inside a method, and a  *)
(* symbol on the same range as its parent.                                      *)
Overloads == << Node("A", "class", <<0, 0>>, <<4, 0>>, 0, 9),
                Node("f", "function", <<1, 0>>, <<2, 4>>, 1, 4),
                Node("v", "variable", <<1, 1>>, <<1, 3>>, 2, 1),
                Node("f", "function", <<3, 0>>, <<3, 4>>, 1, 25),
                Node("ff", "function", <<5, 0>>, <<6, 0>>, 0, 2) >>
Nested    == << Node("A", "class", <<0, 0>>, <<1, 0>>, 0, 3),
                Node("f", "function", <<0, 0>>, <<1, 0>>, 1, 3),
                Node("f", "variable", <<0, 2>>, <<0, 3>>, 2, 1),
                [Node("v", "variable", <<2, 0>>, <<2, 3>>, 0, 2) EXCEPT !.incomplete = TRUE] >>
Moved     == << Node("f", "function", <<0, 0>>, <<1, 0>>, 0, 3),
                Node("A", "class", <<2, 0>>, <<3, 0>>, 0, 3) >>

MCDocuments == <<Overloads, Nested>>
MCPrograms == << << <<Nested, Moved>>, <<Moved, Nested>> >>, << <<Overloads>>, <<Nested>> >> >>

Name(n, i) == [name |-> n, index |-> i]
Paths == { <<Name("f", Unindexed)>>, <<Name("f", 1)>>, <<Name("ff", Unindexed)>>, <<Name("v", Unindexed)>>,
           <<Name("z", Unindexed)>>, <<Name("A", Unindexed)>>,
           <<Name("A", Unindexed), Name("f", Unindexed)>>, <<Name("A", Unindexed), Name("f", 0)>> }
Patterns == [components : Paths, absolute : BOOLEAN]
Budgets == {MinBudget, MinBudget + 2, MinBudget + 5, MinBudget + 9, MaxBudget}

Base == [file : {1, 2}, pattern : Patterns, budget : Budgets, echo : {1, 9}]

FindCalls == {b @@ [tool |-> t, substring |-> s, body |-> y, limit |-> l] :
                b \in Base, t \in {"find_symbol", "find_in_directory"}, s \in BOOLEAN, y \in BOOLEAN, l \in {1, 3}}
GlobalCalls == {[tool |-> "find_global", pattern |-> p, substring |-> s, body |-> y, limit |-> l,
                 budget |-> b, echo |-> 1]
                  : p \in Patterns, s \in BOOLEAN, y \in BOOLEAN, l \in {1, 3}, b \in Budgets}
KindSets == {{}, {"function"}, {"variable"}}
OverviewCalls == {[tool |-> "get_symbols_overview", file |-> f, depth |-> d, include |-> i, exclude |-> x, budget |-> b]
                    : f \in {1, 2}, d \in 0..2, i \in KindSets, x \in KindSets, b \in MinBudget..MaxBudget}
Place(p, a, c, k) == [path |-> p, at |-> a, chars |-> c, kind |-> k]
Locations == {<<>>, <<Place(1, 1, 9, "function")>>,
              <<Place(2, 1, 3, "class"), Place(1, 4, 3, "unknown"), Place(1, 2, 8, "function")>>,
              [k \in 1..12 |-> Place(1, k, 2, IF k > 6 THEN "function" ELSE "class")]}
LocationCalls == {b @@ [tool |-> t, capable |-> c, include |-> i, exclude |-> x, locations |-> l,
                        captures |-> n, contained |-> c]
                    : b \in [file : {1}, pattern : Patterns, budget : Budgets, echo : {9}],
                      t \in {"find_implementations", "find_declaration"}, c \in BOOLEAN,
                      i \in {{}, {"function"}}, x \in {{}, {"class"}}, l \in Locations, n \in 0..2}
Target(f, s, m, e, l) == [file |-> f, start |-> s, mapped |-> m, external |-> e, line |-> l]
Targets == { <<Target(1, <<1, 1>>, TRUE, FALSE, 4), Target(1, <<3, 3>>, TRUE, FALSE, 4)>>,
             <<Target(2, <<0, 2>>, TRUE, FALSE, 6), Target(2, <<0, 2>>, TRUE, FALSE, 6)>>,
             <<Target(2, <<0, 5>>, TRUE, FALSE, 6), Target(3, <<0, 2>>, FALSE, TRUE, 6)>>,
             <<Target(1, <<5, 0>>, TRUE, FALSE, 6), Target(1, <<4, 0>>, FALSE, FALSE, 6)>>,
             <<Target(1, <<5, 3>>, TRUE, FALSE, 3), Target(1, <<4, 0>>, TRUE, FALSE, 0)>> }
ReferenceCalls == {[tool |-> "find_referencing_symbols", targets |-> t, snippet |-> s, budget |-> b]
                     : t \in Targets, s \in 0..5, b \in MinBudget..MaxBudget}
Finding(s, e, v, c) == [start |-> s, end |-> e, severity |-> v, chars |-> c]
FindingSets == {<<>>, <<Finding(<<1, 1>>, <<1, 2>>, 1, 9), Finding(<<1, 2>>, <<3, 1>>, 2, 3), Finding(<<4, 1>>, <<4, 2>>, 3, 2)>>,
                [k \in 1..11 |-> Finding(<<0, k>>, <<0, k>>, 1, 1)]}
DiagnosticCalls == {[tool |-> "get_diagnostics", file |-> 1, symbol |-> y, pattern |-> p, severity |-> v,
                     findings |-> f, readiness |-> r, publication |-> u, requested |-> q, budget |-> b, echo |-> 9]
                      : y \in BOOLEAN, p \in Patterns, v \in {1, 3}, f \in FindingSets,
                        r \in {"ready", "not_ready"}, u \in {"current", "stale"}, q \in BOOLEAN, b \in Budgets}
Texts == UNION {[1..n -> {"a", "G", "CR", "LF"}] : n \in 0..3}
Spots == [line : 0..2, character : 0..4]
EditCalls == {[tool |-> "replace_symbol_body", content |-> t, encoding |-> e, bom |-> m, lsp |-> <<p, q>>, replacement |-> r]
                : t \in Texts, e \in {"utf-8", "utf-16"}, m \in {0, 3},
                  p \in Spots, q \in {s \in Spots : s.line < 2},
                  r \in {<<"a", "CR", "LF", "G">>, <<"CR">>}}

MCCalls == <<FindCalls, GlobalCalls, OverviewCalls, LocationCalls, ReferenceCalls, DiagnosticCalls, EditCalls>>

-------------------------------------------------------------------------------
VARIABLES focus, disk, outer, seen, version, whole, buffer, ident, read, reads, faults, writes, coarse

Fresh == INSTANCE FreshRead
freshVars == <<disk, outer, seen, version, whole, buffer, ident, read, reads, faults, writes, coarse>>

MCInit ==
  /\ Fresh!Init
  /\ \/ focus = "call" /\ Init /\ ~ whole
     \/ /\ focus = "read"
        /\ call = [tool |-> "none"] /\ answer = NoAnswer /\ retried = FALSE /\ search = Idle
        /\ world = FirstWorld

MCNext ==
  /\ UNCHANGED focus
  /\ \/ focus = "call" /\ Next /\ UNCHANGED freshVars
     \/ focus = "read" /\ Fresh!Next /\ UNCHANGED vars

MCSpec == MCInit /\ [][MCNext]_<<focus, vars, freshVars>>

\* A returned answer shows every file as the last guarded scan found it and its locations
\* were computed over those texts; a wholly scanned workspace refuses a read only for a
\* change during its second attempt (_run_fresh_read).
ReadTruthful == Fresh!ReturnedIsFinal /\ Fresh!RangesMatchText /\ Fresh!RefusalJustified

\* Nothing that was found is lost without being counted, and a pruned overview is still
\* a forest of usable symbols (compact.py, presentation.py).
AnswerComplete == NothingLost /\ OverviewUsable

\* Every success and every correction error fits the budget of its call, and a call
\* repeated with the minimum that an error reported succeeds (compact.py); operational
\* errors are rendered whole and exempt (presentation.py).
AnswerFits == WithinBudget /\ MinimumSuffices

\* Edits replace exactly the addressed bytes, and a reference's snippet shows the
\* reference (positions.py, editing.py, references.py).
PlacedExactly == EditExact /\ ReferencesPlaced
=============================================================================

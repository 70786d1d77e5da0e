------------------------------ MODULE Navigation ------------------------------
(* The navigation, diagnostics and editing tools behind the daemon's bound_call *)
(* (daemon/server.py, tools/): one call of a client, the answer of each tool    *)
(* from a current document, the client's retry with the reported minimum, and   *)
(* the configured-program search, which takes several requests to its adapters. *)
EXTENDS Positions, Symbols, Answers

CONSTANTS Documents,     \* a sequence of symbol forests, one per file of the workspace
          Calls,         \* the calls a client makes, by tool
          Programs,      \* Programs[a][g]: adapter a's files (as Documents) in generation g
          MaxCandidates  \* max_candidates_per_adapter

VARIABLES call, answer, retried, world, search

vars == <<call, answer, retried, world, search>>

Adapters == DOMAIN Programs
NoAnswer == [ok |-> FALSE, code |-> "none", chars |-> 0]
NotReady == Operational("NOT_READY")
Unsupported == Operational("UNSUPPORTED")

(* Symbols of a document and their records; a node also has the lengths chars   *)
(* and text (of its body) and the flag incomplete (body_incomplete_reason).     *)
SymbolRecord(file, doc, i, body) ==
  [path |-> file, at |-> i, chars |-> doc[i].chars + (IF body THEN doc[i].text ELSE 0), body |-> body]

HasChildren(doc, i) == \E j \in DOMAIN doc : doc[j].parent = i
Recovery(doc, i, body) ==
  IF ~body THEN "none" ELSE IF HasChildren(doc, i) THEN "children" ELSE "leaf"

Matches(doc, c) == {i \in DOMAIN doc : MatchesNamePath(NamePath(doc, i), c.pattern, c.substring)}
LooseMatches(doc, c) == {i \in DOMAIN doc : MatchesLoosely(NamePath(doc, i), c.pattern)}
Candidates(doc, matches) ==
  [k \in 1..Cardinality(matches) |->
     LET i == InOrder(matches, <)[k] IN [rich |-> 2 * doc[i].chars, chars |-> doc[i].chars]]

Authority == <<2, 1, 1>>   \* the lengths of workspace, adapter and generations in an error
NotFound(c) == DeterministicError("SYMBOL_NOT_FOUND", <<c.echo>>, <<>>, 2, 1, c.budget)

(* NavigationService.find_symbol on one file, then compact_navigation_result.   *)
FindSymbolAnswer(c) ==
  LET doc == Documents[c.file]
      matches == Matches(doc, c)
      i == Min(matches)
  IN  CASE matches = {} -> NotFound(c)
        [] Cardinality(matches) > 1 ->
             LET kept == BoundedCandidates(Candidates(doc, matches), c.budget)
             IN  AmbiguityError(kept, Cardinality(matches) - Len(kept), <<c.echo>>, 2, c.budget)
        [] Cardinality(matches) = 1 /\ c.body /\ doc[i].incomplete -> Unsupported
        [] OTHER -> CompactRecords({SymbolRecord(c.file, doc, i, c.body)}, c.limit, 0, 0,
                                   Recovery(doc, i, c.body), Authority, c.echo, c.budget)

DirectoryMatches(c) == UNION {{<<f, i>> : i \in Matches(Documents[f], c)} : f \in DOMAIN Documents}

(* find_symbol_in_documents: several matches are an answer, not an ambiguity.   *)
FindInDirectoryAnswer(c) ==
  LET matches == DirectoryMatches(c)
      records == {SymbolRecord(m[1], Documents[m[1]], m[2], c.body) : m \in matches}
      only    == CHOOSE m \in matches : TRUE
  IN  CASE matches = {} -> NotFound(c)
        [] matches # {} /\ c.body /\ \E m \in matches : Documents[m[1]][m[2]].incomplete -> Unsupported
        [] OTHER -> CompactRecords(records, c.limit, 0, 0,
                      IF Cardinality(matches) = 1 THEN Recovery(Documents[only[1]], only[2], c.body)
                      ELSE "none", Authority, c.echo, c.budget)

(* get_symbols_overview, its depth cut and kind filter, then the pruning.       *)
OverviewNodes(c) ==
  LET doc   == Documents[c.file]
      order == InOrder(OverviewSymbols(doc, c.depth, c.include, c.exclude), <)
      at(i) == Cardinality({j \in ToSet(order) : j <= i})
  IN  [k \in DOMAIN order |->
         [file |-> c.file, symbol |-> order[k], chars |-> doc[order[k]].chars,
          parent |-> IF doc[order[k]].parent = 0 THEN 0 ELSE at(doc[order[k]].parent),
          match |-> IntrinsicMatch(doc, order[k], c.depth, c.include, c.exclude)]]

OverviewAnswer(c) == BoundedOverview(OverviewNodes(c), 0, Authority, c.budget)

(* _target_records *)
TargetRecords(locations) ==
  {[path |-> l.path, at |-> l.at, chars |-> l.chars, body |-> FALSE] : l \in ToSet(locations)}

(* find_implementations: the kinds filter counts what it drops as omitted; a    *)
(* location without a kind passes only when no kind is asked for.               *)
KindKept(c, k) == IF k = "unknown" THEN c.include = {}
                  ELSE (c.include = {} \/ k \in c.include) /\ k \notin c.exclude

ImplementationsAnswer(c) ==
  LET doc    == Documents[c.file]
      source == ResolveSymbol(doc, c.pattern)
      kept   == SelectSeq(c.locations, LAMBDA l : KindKept(c, l.kind))
  IN  CASE ~c.capable -> Unsupported
        [] c.capable /\ source = NoSymbol -> NotFound(c)
        [] c.capable /\ source = Ambiguous ->
             AmbiguityError(Candidates(doc, LooseMatches(doc, c)), 0, <<c.echo>>, 2, c.budget)
        [] OTHER -> BoundedRecords(UniqueSorted(TargetRecords(kept)), Len(c.locations) - Len(kept), 0, "none",
                                   Authority, 0, c.budget)

(* find_declaration: one occurrence of the captured text, one position, then    *)
(* the definition locations; none is SYMBOL_NOT_FOUND.                          *)
DeclarationAnswer(c) ==
  LET doc == Documents[c.file]
      container == IF c.contained THEN ResolveSymbol(doc, c.pattern) ELSE 1
  IN  CASE ~c.capable -> Unsupported
        [] c.capable /\ container = NoSymbol -> NotFound(c)
        [] c.capable /\ container = Ambiguous ->
             AmbiguityError(Candidates(doc, LooseMatches(doc, c)), 0, <<c.echo>>, 2, c.budget)
        [] c.capable /\ container > 0 /\ c.captures > 1 -> AmbiguityError(<<>>, 0, <<c.echo>>, 2, c.budget)
        [] c.capable /\ container > 0 /\ c.captures = 0 -> NotFound(c)
        [] c.capable /\ container > 0 /\ c.captures = 1 /\ c.locations = <<>> -> NotFound(c)
        [] OTHER -> BoundedRecords(UniqueSorted(TargetRecords(c.locations)), 0, 0, "none", Authority, 0, c.budget)

(* find_referencing_symbols: targets [file, start, mapped, external, line]      *)
(* deduplicated by place; one file's failure refuses the whole answer.          *)
Container(t) == IF t.mapped THEN ContainingSymbol(Documents[t.file], t.start) ELSE NoSymbol
Window(c, t) == Snippet(t.line, t.start[2], c.snippet)

ReferenceRecord(c, t) ==
  [path |-> t.file, at |-> 10 * t.start[1] + t.start[2], body |-> FALSE,
   chars |-> 2 + (IF Container(t) = NoSymbol THEN 0 ELSE Documents[t.file][Container(t)].chars)
               + (IF t.mapped /\ c.snippet > 0 THEN Window(c, t).chars ELSE 0)]

UniqueTargets(c) == ToSet(c.targets)
Unavailable(c) == \E t \in UniqueTargets(c) : ~t.mapped /\ ~t.external
ReferenceRecords(c) == {ReferenceRecord(c, t) : t \in UniqueTargets(c)}

ReferencesAnswer(c) ==
  IF Unavailable(c) THEN NotReady
  ELSE BoundedRecords(UniqueSorted(ReferenceRecords(c)), 0, 1, "none", Authority, 0, c.budget)

(* get_diagnostics_for_file and _for_symbol: findings [start, end, severity,    *)
(* chars] of the current publication, grouped by their container.               *)
TerminalState(c) == c.readiness # "ready" \/ c.publication # "current" \/ ~c.requested

Selected(c, selected, finding) == ~c.symbol \/ Within(finding, selected)

Findings(c, selected) ==
  SelectSeq(c.findings, LAMBDA f : f.severity <= c.severity /\ Selected(c, selected, f))

(* The file's own group first, then the symbols' in document order.             *)
Groups(doc, findings) ==
  [i \in 1..Len(doc) + 1 |->
     LET mine == SelectSeq(findings, LAMBDA f : ContainingSymbol(doc, f.start) = i - 1)
     IN  [k \in DOMAIN mine |-> mine[k].chars]]

DiagnosticsAnswer(c) ==
  LET doc == Documents[c.file]
      found == IF c.symbol THEN ResolveSymbol(doc, c.pattern) ELSE 1
  IN  CASE TerminalState(c) -> NotReady
        [] ~TerminalState(c) /\ found = NoSymbol -> NotFound(c)
        [] ~TerminalState(c) /\ found = Ambiguous ->
             AmbiguityError(Candidates(doc, LooseMatches(doc, c)), 0, <<c.echo>>, 2, c.budget)
        [] OTHER -> BoundedDiagnostics(Groups(doc, Findings(c, doc[found])), 0, c.budget)

(* replace_symbol_body: a range from the language server that ends before it    *)
(* starts is refused, its positions are exact or refused, then the bytes are    *)
(* installed; c.lsp holds the symbol's two LSP positions.                       *)
Reversed(range) ==
  \/ range[2].line < range[1].line
  \/ range[2].line = range[1].line /\ range[2].character < range[1].character

EditAnswer(c) ==
  LET start == LspToText(c.encoding, c.content, c.lsp[1])
      end   == LspToText(c.encoding, c.content, c.lsp[2])
  IN  IF Reversed(c.lsp) \/ start = Refused \/ end = Refused \/ NewlineContract(c.content) = NotEditable
      THEN [ok |-> FALSE, code |-> "INVALID_INPUT", chars |-> 0]
      ELSE [ok |-> TRUE, chars |-> 0,
            raw |-> ReplacementBytes(c.content, c.bom, c.replacement,
                                     TextToByte(c.content, c.bom, start), TextToByte(c.content, c.bom, end))]

------------------------------------------------------------------------------
(* Each tool call is one step from a current document (FreshRead models how it  *)
(* stays current); bound_call renders its result under the caller's budget.     *)

Serve(tool, Result(_)) ==
  /\ call.tool = tool /\ answer = NoAnswer
  /\ answer' = Result(call)
  /\ UNCHANGED <<call, retried, world, search>>

FindSymbolCall == Serve("find_symbol", FindSymbolAnswer)
FindInDirectoryCall == Serve("find_in_directory", FindInDirectoryAnswer)
OverviewCall == Serve("get_symbols_overview", OverviewAnswer)
ImplementationsCall == Serve("find_implementations", ImplementationsAnswer)
DeclarationCall == Serve("find_declaration", DeclarationAnswer)
ReferencesCall == Serve("find_referencing_symbols", ReferencesAnswer)
DiagnosticsCall == Serve("get_diagnostics", DiagnosticsAnswer)
ReplaceSymbolBodyCall == Serve("replace_symbol_body", EditAnswer)

HasMinimum == answer # NoAnswer /\ ~answer.ok /\ "minimum" \in DOMAIN answer

(* The client asks again with the budget the error reports, if it may.          *)
RetryWithMinimum ==
  /\ HasMinimum /\ ValidBudget(answer.minimum)
  /\ call' = [call EXCEPT !.budget = answer.minimum]
  /\ answer' = NoAnswer /\ retried' = TRUE
  /\ UNCHANGED <<world, search>>

------------------------------------------------------------------------------
(* find_symbol over the configured program.  world[a] is adapter a's generation *)
(* and state; search follows the loop of GlobalSymbolService.find_symbol.       *)

AdapterStates == {"ready", "not_ready", "no_workspace_symbols"}
FirstWorld == [a \in Adapters |-> [gen |-> 1, state |-> "ready"]]

Files(a, g) == Programs[a][g]
Idle == [step |-> "idle", a |-> 0, seen |-> <<>>, batch |-> {}, files |-> {}, loaded |-> 0,
         found |-> {}, omitted |-> 0]

Finish(result) == answer' = result /\ search' = Idle

GlobalStart ==
  /\ call.tool = "find_global" /\ answer = NoAnswer /\ search = Idle
  /\ LET states == {world[a].state : a \in Adapters} IN
     CASE "no_workspace_symbols" \in states -> Finish(Unsupported)
       [] states = {"ready"} ->
            search' = [Idle EXCEPT !.step = "ask", !.a = 1, !.seen = world] /\ UNCHANGED answer
       [] OTHER -> Finish(NotReady)
  /\ UNCHANGED <<call, retried, world>>

(* workspace/symbol: the places whose name contains the query, and the first    *)
(* MaxCandidates of them as candidates.                                         *)
Named(a, g, query) ==
  UNION {{<<f, i>> : i \in {j \in DOMAIN Files(a, g)[f] :
             Occurs(query, [name |-> Files(a, g)[f][j].name, index |-> Unindexed])}}
         : f \in DOMAIN Files(a, g)}

Query == FromEnd(call.pattern.components, 0)
EarlierPlace(p, q) == p[1] < q[1] \/ (p[1] = q[1] /\ p[2] < q[2])
Candidate(file, node) == [file |-> file, name |-> node.name, kind |-> node.kind, start |-> node.start]

GlobalAsk ==
  LET a == search.a
      g == world[a].gen
      named == InOrder(Named(a, g, Query), EarlierPlace)
      batch == SubSeq(named, 1, Lesser(MaxCandidates, Len(named)))
  IN  /\ search.step = "ask"
      /\ search' = [search EXCEPT !.step = "batch",
                      !.batch = {Candidate(p[1], Files(a, g)[p[1]][p[2]]) : p \in ToSet(batch)},
                      !.omitted = @ + Len(named) - Len(batch)]
      /\ UNCHANGED <<call, answer, retried, world>>

SameGlobalGeneration_Unchecked(seen, now) == TRUE
SameGlobalGeneration(seen, now) == seen.gen = now.gen

(* _candidate_files: an exact query drops candidates with another name.         *)
Accepted(candidate) == call.substring \/ Query = [name |-> candidate.name, index |-> Unindexed]

GlobalBatch ==
  LET accepted == {p \in search.batch : Accepted(p)}
  IN  /\ search.step = "batch"
      /\ IF SameGlobalGeneration(search.seen[search.a], world[search.a])
         THEN /\ search' = [search EXCEPT !.step = "load", !.batch = accepted,
                                          !.files = {p.file : p \in accepted}]
              /\ UNCHANGED answer
         ELSE Finish(NotReady)
      /\ UNCHANGED <<call, retried, world>>

(* documentSymbol of the next candidate file, read now and checked on return.   *)
GlobalLoad ==
  /\ search.step = "load" /\ search.files # {}
  /\ search' = [search EXCEPT !.step = "document", !.loaded = world[search.a].gen]
  /\ UNCHANGED <<call, answer, retried, world>>

(* _candidate_verifies_symbol *)
Verifies(candidate, file, node) ==
  /\ candidate.file = file /\ candidate.name = node.name /\ candidate.kind = node.kind
  /\ Covers(node, candidate.start) \/ candidate.start = node.start

Verified(doc, file, batch) ==
  {i \in DOMAIN doc : /\ MatchesNamePath(NamePath(doc, i), call.pattern, call.substring)
                      /\ \E candidate \in batch : Verifies(candidate, file, doc[i])}

(* In document order, a body that is not whole refuses the answer, and so does  *)
(* a symbol whose range the file's text does not have (PositionError).          *)
GlobalDocument ==
  LET a == search.a
      file == Min(search.files)
      doc == Files(a, search.loaded)[file]
      found == Verified(doc, file, search.batch)
      same == SameGlobalGeneration(search.seen[a], world[a])
      broken == {i \in found : call.body /\ doc[i].incomplete}
  IN  /\ search.step = "document"
      /\ \/ same /\ broken = {} /\ UNCHANGED answer
            /\ search' = [search EXCEPT !.step = "load", !.files = @ \ {file}, !.loaded = 0,
                             !.found = @ \cup {<<a, search.loaded, file, i>> : i \in found}]
         \/ same /\ broken # {} /\ Finish(Unsupported)
         \/ (~same \/ (found # {} /\ Min(found) \notin broken)) /\ Finish(NotReady)
      /\ UNCHANGED <<call, retried, world>>

GlobalRecords(found) ==
  {[SymbolRecord(p[3], Files(p[1], p[2])[p[3]], p[4], call.body) EXCEPT !.path = 10 * p[1] + p[3]] : p \in found}

GlobalResult ==
  LET only == CHOOSE p \in search.found : TRUE
  IN  IF search.found = {} /\ search.omitted = 0 THEN NotFound(call)
      ELSE CompactRecords(GlobalRecords(search.found), call.limit, search.omitted, 0,
                          IF Cardinality(search.found) = 1
                          THEN Recovery(Files(only[1], only[2])[only[3]], only[4], call.body) ELSE "none",
                          Authority, call.echo, call.budget)

(* The adapter's state is read again before the next adapter or the answer.     *)
GlobalRecheck ==
  LET a == search.a
      same == world[a].state = "ready" /\ SameGlobalGeneration(search.seen[a], world[a])
  IN  /\ search.step = "load" /\ search.files = {}
      /\ CASE ~same -> Finish(NotReady)
           [] same /\ a < Len(Programs) ->
                search' = [search EXCEPT !.step = "ask", !.a = a + 1, !.batch = {}] /\ UNCHANGED answer
           [] OTHER -> Finish(GlobalResult @@ [found |-> search.found, seen |-> search.seen])
      /\ UNCHANGED <<call, retried, world>>

(* The adapters' programs change underneath (Freshness, Adapter).               *)
ProgramChanges(a) ==
  /\ call.tool = "find_global" /\ answer = NoAnswer /\ world[a].gen + 1 \in DOMAIN Programs[a]
  /\ \E state \in AdapterStates : world' = [world EXCEPT ![a] = [gen |-> @.gen + 1, state |-> state]]
  /\ UNCHANGED <<call, answer, retried, search>>

Init ==
  /\ \E tool \in DOMAIN Calls : call \in Calls[tool]
  /\ answer = NoAnswer /\ retried = FALSE /\ search = Idle
  /\ world = FirstWorld

Next ==
  \/ FindSymbolCall \/ FindInDirectoryCall \/ OverviewCall \/ ImplementationsCall \/ DeclarationCall
  \/ ReferencesCall \/ DiagnosticsCall \/ ReplaceSymbolBodyCall \/ RetryWithMinimum
  \/ GlobalStart \/ GlobalAsk \/ GlobalBatch \/ GlobalLoad \/ GlobalDocument \/ GlobalRecheck
  \/ \E a \in Adapters : ProgramChanges(a)

Spec == Init /\ [][Next]_vars

------------------------------------------------------------------------------
Answered == answer # NoAnswer

(* What the call would list with no bound at all.                               *)
ListedCount ==
  CASE call.tool = "find_symbol" -> 1
    [] call.tool = "find_in_directory" -> Cardinality(DirectoryMatches(call))
    [] call.tool = "get_symbols_overview" -> Len(OverviewNodes(call))
    [] call.tool \in {"find_implementations", "find_declaration"} -> Cardinality(ToSet(call.locations))
    [] call.tool = "find_referencing_symbols" ->
         Cardinality({<<t.file, t.start, t.mapped>> : t \in ToSet(call.targets)})
    [] call.tool = "get_diagnostics" ->
         LET resolved == IF call.symbol THEN Documents[call.file][ResolveSymbol(Documents[call.file], call.pattern)]
                         ELSE Documents[call.file][1]
         IN  Cardinality({k \in DOMAIN call.findings :
               /\ call.findings[k].severity <= call.severity
               /\ call.symbol => Within(call.findings[k], resolved)})
    [] OTHER -> answer.kept + answer.omitted

(* Whatever the pruning did, what an answer keeps and what it says it omitted   *)
(* add up to what the call found: no record is lost between max_matches, the    *)
(* kind filter, _bounded_candidates and the budget loops.                       *)
NothingLost ==
  Answered =>
    /\ answer.ok /\ "kept" \in DOMAIN answer => answer.kept + answer.omitted = ListedCount
    /\ ~answer.ok /\ answer.code = "AMBIGUOUS_SYMBOL" /\ call.tool = "find_symbol" =>
         answer.kept + answer.omitted = Cardinality(Matches(Documents[call.file], call))

(* Every success and every correction error fits the budget the caller asked    *)
(* for: the bounded renderers never fall through to their ValueError.  An       *)
(* operational error (NOT_READY, UNSUPPORTED) is rendered whole and may not fit. *)
WithinBudget ==
  Answered /\ call.tool # "replace_symbol_body" /\ (answer.ok \/ answer.code \in CompactErrors) =>
    answer.chars <= call.budget

(* A budget error reports a budget that works: the retry it advertises, on the  *)
(* same document or program, is not refused for its budget again.               *)
MinimumSuffices ==
  /\ retried /\ Answered => answer.ok \/ (call.tool = "find_global" /\ ~(HasMinimum /\ world = FirstWorld))
  /\ HasMinimum => answer.minimum > call.budget
  /\ HasMinimum /\ answer.action = "retry_with_minimum_answer_chars" => ValidBudget(answer.minimum)

(* An overview under pruning never shows a symbol without its parent, nor a     *)
(* structural ancestor without a match below it, and the absolute name path of  *)
(* each symbol it shows addresses that symbol and no other in every resolver.   *)
OverviewUsable ==
  Answered /\ call.tool = "get_symbols_overview" /\ answer.ok =>
    LET nodes == OverviewNodes(call)
        doc == Documents[call.file]
        whole(i) == [components |-> NamePath(doc, i), absolute |-> TRUE]
    IN  \A k \in answer.shown :
          /\ nodes[k].parent \in answer.shown \cup {0}
          /\ nodes[k].match \/ \E j \in answer.shown : nodes[j].match /\ k \in Above(nodes, j)
          /\ FindSymbol(doc, whole(nodes[k].symbol), FALSE) = nodes[k].symbol
          /\ ResolveSymbol(doc, whole(nodes[k].symbol)) = nodes[k].symbol

(* A reference is attributed to the narrowest symbol around it, and the window  *)
(* its snippet shows contains the reference's own column.                       *)
ReferencesPlaced ==
  Answered /\ call.tool = "find_referencing_symbols" =>
    \A t \in {u \in ToSet(call.targets) : u.mapped} :
      LET doc == Documents[t.file]
          around == {i \in DOMAIN doc : Covers(doc[i], t.start)}
      IN  /\ IF around = {} THEN Container(t) = NoSymbol
             ELSE /\ Container(t) \in around
                  /\ \A i \in around : Within(doc[i], doc[Container(t)]) =>
                       Within(doc[Container(t)], doc[i])
          /\ call.snippet > 0 =>
               LET w == Window(call, t)
               IN  0 <= w.left /\ w.left <= t.start[2] /\ t.start[2] <= w.right /\ w.right <= t.line

(* An installed edit is the old text with exactly the symbol's characters       *)
(* replaced, its byte-order mark kept and its line endings still uniform; a     *)
(* position inside a character is refused, never rounded.                       *)
EditExact ==
  Answered /\ call.tool = "replace_symbol_body" /\ answer.ok =>
    \E start, end \in 0..Len(call.content) :
      /\ start <= end
      /\ TextToLsp(call.encoding, call.content, start) = call.lsp[1]
      /\ TextToLsp(call.encoding, call.content, end) = call.lsp[2]
      /\ LET text == Slice(call.content, 0, start)
                       \o NormalizedBody(call.replacement, NewlineContract(call.content))
                       \o Slice(call.content, end, Len(call.content))
         IN  /\ answer.raw = RawBytes(text, call.bom)
             /\ LineEndings(text) \subseteq {NewlineContract(call.content)}

(* A configured-program search answers for one generation of each adapter:      *)
(* every symbol it lists matches there, and SYMBOL_NOT_FOUND means that nothing *)
(* does.  (An indexed last segment is never found: candidates carry bare names.) *)
SearchOfOneGeneration ==
  Answered /\ call.tool = "find_global" /\ "found" \in DOMAIN answer =>
    LET there(a) == UNION {{<<a, answer.seen[a].gen, f, i>> :
                              i \in {j \in DOMAIN Files(a, answer.seen[a].gen)[f] :
                                MatchesNamePath(NamePath(Files(a, answer.seen[a].gen)[f], j),
                                                call.pattern, call.substring)}}
                           : f \in DOMAIN Files(a, answer.seen[a].gen)}
        all == UNION {there(a) : a \in Adapters}
    IN  /\ answer.found \subseteq all
        /\ ~answer.ok /\ answer.code = "SYMBOL_NOT_FOUND" /\ Query.index = Unindexed => all = {}
==============================================================================

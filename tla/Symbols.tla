------------------------------- MODULE Symbols -------------------------------
(* Document symbols and the name paths that address them (lsp/normalize.py and *)
(* the resolvers of tools/navigation.py, declarations.py, diagnostics.py and   *)
(* global_symbols.py).  A document's symbol forest is a sequence of nodes in   *)
(* depth-first order; a node is [name, kind, start, end, parent], a root has   *)
(* parent 0, and a position is a pair <<line, character>>.                     *)
EXTENDS Integers, Sequences, FiniteSets, FiniteSetsExt

Before(p, q) == p[1] < q[1] \/ (p[1] = q[1] /\ p[2] < q[2])
AtOrBefore(p, q) == p = q \/ Before(p, q)

(* Range.contains: half open.                                                  *)
Covers(node, p) == AtOrBefore(node.start, p) /\ Before(p, node.end)
Within(inner, outer) == AtOrBefore(outer.start, inner.start) /\ AtOrBefore(inner.end, outer.end)

------------------------------------------------------------------------------
(* _normalize_siblings: a name that several siblings bear gets its index.      *)

Unindexed == -1
Siblings(doc, i) == {j \in DOMAIN doc : doc[j].parent = doc[i].parent /\ doc[j].name = doc[i].name}

Segment(doc, i) ==
  [name  |-> doc[i].name,
   index |-> IF Cardinality(Siblings(doc, i)) > 1
             THEN Cardinality({j \in Siblings(doc, i) : j < i}) ELSE Unindexed]

Depth(doc, i) ==
  IF doc[i].parent = 0 THEN 0 ELSE IF doc[doc[i].parent].parent = 0 THEN 1 ELSE 2

Ancestor(doc, i, up) ==
  CASE up = 0 -> i [] up = 1 -> doc[i].parent [] up = 2 -> doc[doc[i].parent].parent

Ancestors(doc, i) == {Ancestor(doc, i, up) : up \in 1..Depth(doc, i)}
Descendants(doc, i) == {j \in DOMAIN doc : i \in Ancestors(doc, j)}

NamePath(doc, i) ==
  [k \in 1..Depth(doc, i) + 1 |-> Segment(doc, Ancestor(doc, i, Depth(doc, i) + 1 - k))]

------------------------------------------------------------------------------
(* containing_symbol: the narrowest symbol around a location's start.          *)

RangeSizeKey(node) ==
  <<node.end[1] - node.start[1],
    IF node.end[1] = node.start[1] THEN node.end[2] - node.start[2] ELSE node.end[2],
    -node.start[1], -node.start[2]>>

KeyBefore(a, b) ==
  \E k \in 1..4 : a[k] < b[k] /\ \A j \in 1..k - 1 : a[j] = b[j]

NoSymbol == 0

ContainingSymbol(doc, p) ==
  LET around == {i \in DOMAIN doc : Covers(doc[i], p)}
      least  == {i \in around : \A j \in around : ~KeyBefore(RangeSizeKey(doc[j]), RangeSizeKey(doc[i]))}
  IN  IF around = {} THEN NoSymbol ELSE Min(least)

------------------------------------------------------------------------------
(* Name-path patterns: [components, absolute].  find_symbol compares segments  *)
(* exactly (or the last one by substring); declarations and diagnostics let an *)
(* unindexed segment stand for every indexed one.                              *)

(* "f" occurs in "ff"; an indexed segment occurs only at the end of its text.  *)
Occurs(expected, actual) ==
  /\ expected.name = actual.name \/ (expected.name = "f" /\ actual.name = "ff")
  /\ expected.index \in {Unindexed, actual.index}

SegmentMatches(actual, expected) ==
  actual = expected \/ (expected.index = Unindexed /\ actual.name = expected.name)

FitsLength(path, pattern) ==
  /\ Len(path) >= Len(pattern.components)
  /\ pattern.absolute => Len(path) = Len(pattern.components)

FromEnd(s, k) == s[Len(s) - k]

MatchesNamePath(path, pattern, substring) ==
  /\ FitsLength(path, pattern)
  /\ \A k \in 0..Len(pattern.components) - 1 :
       IF substring /\ k = 0 THEN Occurs(FromEnd(pattern.components, k), FromEnd(path, k))
       ELSE FromEnd(pattern.components, k) = FromEnd(path, k)

MatchesLoosely(path, pattern) ==
  /\ FitsLength(path, pattern)
  /\ \A k \in 0..Len(pattern.components) - 1 :
       SegmentMatches(FromEnd(path, k), FromEnd(pattern.components, k))

Ambiguous == -1

One(matches) ==
  CASE matches = {} -> NoSymbol [] Cardinality(matches) = 1 -> Min(matches) [] OTHER -> Ambiguous

(* navigation.find_symbol on one document.                                     *)
FindSymbol(doc, pattern, substring) ==
  One({i \in DOMAIN doc : MatchesNamePath(NamePath(doc, i), pattern, substring)})

(* _resolve_symbol of the declaration and the diagnostics services.            *)
ResolveSymbol(doc, pattern) ==
  One({i \in DOMAIN doc : MatchesLoosely(NamePath(doc, i), pattern)})

------------------------------------------------------------------------------
(* get_symbols_overview: depth is cut first, then kinds are filtered post-     *)
(* order, so that a symbol that does not match stays above one that does.      *)

Suppressed(doc, i, depth, included) ==
  /\ depth > 0 /\ doc[i].parent # 0
  /\ doc[i].kind = "variable" /\ doc[i].kind \notin included

IntrinsicMatch(doc, i, depth, included, excluded) ==
  /\ ~Suppressed(doc, i, depth, included)
  /\ included = {} \/ doc[i].kind \in included
  /\ doc[i].kind \notin excluded

Shown(doc, depth) == {i \in DOMAIN doc : Depth(doc, i) <= depth}

OverviewSymbols(doc, depth, included, excluded) ==
  LET matching == {i \in Shown(doc, depth) : IntrinsicMatch(doc, i, depth, included, excluded)}
  IN  {i \in Shown(doc, depth) : i \in matching \/ Descendants(doc, i) \cap matching # {}}
==============================================================================

------------------------------ MODULE Positions ------------------------------
(* Source positions (lsp/positions.py) and the two places that cut source text *)
(* by them: the guarded edit (tools/editing.py) and the reference snippet      *)
(* (tools/references.py).  A text is a sequence of character classes: an ASCII *)
(* letter "a", a two-byte "e", an astral "G" (four bytes, two UTF-16 units),   *)
(* "CR" and "LF".  Offsets count from 0, as in the code.                       *)
EXTENDS Integers, Sequences, FiniteSets, FiniteSetsExt, SequencesExt

Refused == -1

Bytes(c) == CASE c = "e" -> 2 [] c = "G" -> 4 [] OTHER -> 1

Units(encoding, c) ==
  CASE encoding = "utf-8"  -> Bytes(c)
    [] encoding = "utf-16" -> IF c = "G" THEN 2 ELSE 1
    [] encoding = "utf-32" -> 1

Slice(text, from, to) == SubSeq(text, from + 1, to)

------------------------------------------------------------------------------
(* FileSnapshot: where each line starts, where its content ends, how it ends.  *)

Terminators(text) ==
  {i \in 0..Len(text) - 1 :
     \/ text[i + 1] = "CR"
     \/ text[i + 1] = "LF" /\ (i = 0 \/ text[i] # "CR")}

EndingAt(text, i) ==
  IF text[i + 1] = "CR" /\ i + 1 < Len(text) /\ text[i + 2] = "LF"
  THEN <<"CR", "LF">> ELSE <<text[i + 1]>>

LineEndings(text) == {EndingAt(text, i) : i \in Terminators(text)}

LineStarts(text) ==
  SetToSortSeq({0} \cup {i + Len(EndingAt(text, i)) : i \in Terminators(text)}, <)

LineContentEnds(text) == Append(SetToSortSeq(Terminators(text), <), Len(text))

UnitsBetween(encoding, text, from, to) ==
  MapThenSumSet(LAMBDA i : Units(encoding, text[i + 1]), from..(to - 1))

TextToByte(text, bom, offset) ==
  bom + MapThenSumSet(LAMBDA i : Bytes(text[i + 1]), 0..(offset - 1))

------------------------------------------------------------------------------
(* PositionMapper: conversions at exact boundaries; anything else is refused.  *)

LspToText_Rounding(encoding, text, p) ==
  IF p.line \notin 0..Len(LineStarts(text)) - 1 THEN Refused
  ELSE LET start == LineStarts(text)[p.line + 1]
           end   == LineContentEnds(text)[p.line + 1]
           hits  == {o \in start..end : UnitsBetween(encoding, text, start, o) >= p.character}
       IN  IF hits = {} THEN Refused ELSE Min(hits)

LspToText(encoding, text, p) ==
  IF p.line \notin 0..Len(LineStarts(text)) - 1 THEN Refused
  ELSE LET start == LineStarts(text)[p.line + 1]
           end   == LineContentEnds(text)[p.line + 1]
           hits  == {o \in start..end : UnitsBetween(encoding, text, start, o) = p.character}
       IN  IF hits = {} THEN Refused ELSE Min(hits)

NoPosition == [line |-> Refused, character |-> Refused]

TextToLsp(encoding, text, offset) ==
  LET line  == Max({l \in 1..Len(LineStarts(text)) : LineStarts(text)[l] <= offset})
      start == LineStarts(text)[line]
  IN  IF offset > LineContentEnds(text)[line] THEN NoPosition
      ELSE [line |-> line - 1, character |-> UnitsBetween(encoding, text, start, offset)]

------------------------------------------------------------------------------
(* The guarded edit splices encoded bytes; a byte is a character and its index *)
(* in that character's encoding, and a BOM is a leading run of "BOM" bytes.    *)

Encode(text) ==
  FlattenSeq([i \in 1..Len(text) |-> [k \in 1..Bytes(text[i]) |-> <<text[i], k>>]])

RawBytes(text, bom) == [k \in 1..bom |-> <<"BOM", k>>] \o Encode(text)

NotEditable == <<"mixed">>

NewlineContract(text) ==
  CASE LineEndings(text) \subseteq {<<"LF">>} -> <<"LF">>
    [] LineEndings(text) = {<<"CR", "LF">>}   -> <<"CR", "LF">>
    [] OTHER -> NotEditable

NormalizedBody(body, newline) ==
  FlattenSeq([i \in 1..Len(body) |->
    CASE body[i] = "CR" -> newline
      [] body[i] = "LF" -> IF i > 1 /\ body[i - 1] = "CR" THEN <<>> ELSE newline
      [] OTHER -> <<body[i]>>])

ReplacementBytes(text, bom, body, start, end) ==
  LET raw == RawBytes(text, bom)
  IN  Slice(raw, 0, start) \o Encode(NormalizedBody(body, NewlineContract(text)))
        \o Slice(raw, end, Len(raw))

------------------------------------------------------------------------------
(* The snippet of a reference: the window of its line kept under the limit.    *)

Clamp(low, x) == IF x < low THEN low ELSE x
Lesser(x, y) == IF x < y THEN x ELSE y
Lead(left) == IF left > 0 THEN 1 ELSE 0
Trail(right, length) == IF right < length THEN 1 ELSE 0
WindowStart_Centred(at, width, length) == at - width \div 2
WindowStart(at, width, length) == Clamp(0, Lesser(at - width \div 2, length - width))

(* The line's length, the reference's column in it and the limit give the kept *)
(* window [left, right) and the length of the snippet with its ellipses.       *)
Snippet(length, at, limit) ==
  LET left  == WindowStart(at, limit, length)
      inner == limit - Lead(left) - Trail(left + limit, length)
      start == WindowStart(at, inner, length)
  IN  IF length <= limit THEN [left |-> 0, right |-> length, chars |-> length]
      ELSE IF inner <= 0 THEN [left |-> at, right |-> at, chars |-> Lesser(1, limit)]
      ELSE [left  |-> start, right |-> start + inner,
            chars |-> inner + Lead(start) + Trail(start + inner, length)]
==============================================================================

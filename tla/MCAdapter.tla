------------------------------- MODULE MCAdapter -------------------------------
(* Instances of Adapter for TLC: which calls are made, and of what kind. *)
EXTENDS Adapter

CONSTANTS r1, e1, p1, w1, s1

KindOf == [c \in {r1, e1, p1, w1, s1} |->
    CASE c = r1 -> "read" [] c = e1 -> "edit" [] c = p1 -> "probe" [] c = w1 -> "warm" [] c = s1 -> "stop"]

MCKind == [c \in Call |-> KindOf[c]]
===============================================================================

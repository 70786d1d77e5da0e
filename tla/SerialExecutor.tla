---------------------------- MODULE SerialExecutor ----------------------------
(* What an executor promises its callers: work is admitted until the executor  *)
(* is closed, runs one item at a time in the order of admission, and each item *)
(* either runs to its end or is cancelled before it starts.                    *)
CONSTANTS Item

VARIABLES
    older,      \* the items still waiting that were admitted before each waiting item
    status,     \* what has become of each item
    open        \* whether work is admitted

vars == <<older, status, open>>

Init ==
    /\ older = [i \in Item |-> {}]
    /\ status = [i \in Item |-> "none"]
    /\ open = TRUE

Admit(i) ==
    /\ open
    /\ status[i] = "none"
    /\ older' = [older EXCEPT ![i] = {j \in Item : status[j] = "pending"}]
    /\ status' = [status EXCEPT ![i] = "pending"]
    /\ UNCHANGED open

\* Item i waits no longer.
Leave(i) == older' = [j \in Item |-> IF j = i THEN {} ELSE older[j] \ {i}]

\* Only the oldest item starts, and only when no other one runs.
Start(i) ==
    /\ status[i] = "pending"
    /\ older[i] = {}
    /\ \A j \in Item : status[j] # "running"
    /\ Leave(i)
    /\ status' = [status EXCEPT ![i] = "running"]
    /\ UNCHANGED open

End(i) ==
    /\ status[i] = "running"
    /\ status' = [status EXCEPT ![i] = "done"]
    /\ UNCHANGED <<older, open>>

Drop(i) ==
    /\ status[i] = "pending"
    /\ Leave(i)
    /\ status' = [status EXCEPT ![i] = "cancelled"]
    /\ UNCHANGED open

Shut ==
    /\ open
    /\ open' = FALSE
    /\ UNCHANGED <<older, status>>

Next ==
    \/ \E i \in Item : Admit(i) \/ Start(i) \/ End(i) \/ Drop(i)
    \/ Shut

Spec == Init /\ [][Next]_vars
===============================================================================

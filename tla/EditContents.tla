---------------------------- MODULE EditContents ----------------------------
(* The edits of one file and what the file may hold. *)
CONSTANTS
    Edit,       \* calls of replace_symbol_body on one file
    Foreign,    \* what other programs may write to that file
    Original    \* what the file holds at first

\* Contents are told apart by who wrote them: no other program writes an edit's bytes.
ASSUME ContentAssumption == Original \notin Edit /\ Edit \cap Foreign = {}

Content == {Original} \cup Edit \cup Foreign
=============================================================================

---------------------------- MODULE CorpusManifest ----------------------------
(***************************************************************************)
(* capture_root_manifest, enrich_after_manifest, compare_root_manifests:   *)
(* one pass over a corpus root that records every hashed file with its     *)
(* content and every remainder file with its metadata, while the files may *)
(* change, and the comparison of two such passes.                          *)
(*                                                                         *)
(* A file is the number of its last write: every write gives it a new      *)
(* modification time and new content.                                      *)
(***************************************************************************)
EXTENDS EvaluationHost

VARIABLES
    corpus,    \* the files of the root, and its git state
    capture    \* one capture or comparison per evaluator

corpusVars == <<corpus, capture>>

HashedPaths == <<"config", "module">>     \* in the order the digest children take them
Remainder == "note"
CorpusPaths == {"config", "module", "note", "tree"}   \* tree: the git state, or the inventory
RootKinds == {"git", "transformers", "non_git"}

Unread == 99                              \* no observation yet
NoCapture == [stage |-> "idle"]

Each(step, paths) == [i \in DOMAIN paths |-> [step |-> step, path |-> paths[i]]]

\* every hashed file is stat'ed before the first is read and again after the last
HashSteps_PerFile == Each("lstat", <<"config">>) \o Each("digest", <<"config">>) \o Each("relstat", <<"config">>)
                     \o Each("lstat", <<"module">>) \o Each("digest", <<"module">>) \o Each("relstat", <<"module">>)
HashSteps == Each("lstat", HashedPaths) \o Each("digest", HashedPaths) \o Each("relstat", HashedPaths)

CaptureSteps(kind) ==
    LET body == HashSteps \o Each("scan", <<Remainder>>)
    IN  CASE kind = "git" -> Each("freeze", <<"tree">>) \o body \o Each("refreeze", <<"tree">>)
          [] kind = "transformers" -> Each("freeze", <<"tree">>) \o body   \* an inventory, taken once
          [] OTHER -> body

Blank == [p \in CorpusPaths |-> Unread]

CorpusInit ==
    /\ corpus = [p \in CorpusPaths |-> 0]
    /\ capture = [e \in Evaluators |-> NoCapture]

\* seen: history, every state the hashed files were in since the capture began
HashedState == [p \in {"config", "module"} |-> corpus[p]]

BeginCapture(e, kind) ==
    capture' = [capture EXCEPT ![e] = [stage |-> "capturing", kind |-> kind, todo |-> CaptureSteps(kind),
                                       stat |-> Blank, record |-> Blank, seen |-> {HashedState}]]

Refused(e) == capture' = [capture EXCEPT ![e] = [stage |-> "unstable"]]
Noted(e, field, path) ==
    capture' = [capture EXCEPT ![e].todo = Tail(@), ![e][field][path] = corpus[path]]

CaptureStep(e) ==
    /\ capture[e].stage = "capturing" /\ capture[e].todo # <<>>
    /\ LET o == Head(capture[e].todo) IN
       CASE o.step \in {"lstat"} -> Noted(e, "stat", o.path)
         [] o.step \in {"freeze", "digest", "scan"} -> Noted(e, "record", o.path)
         [] o.step = "relstat" -> IF corpus[o.path] = capture[e].stat[o.path]
                                  THEN capture' = [capture EXCEPT ![e].todo = Tail(@)] ELSE Refused(e)
         [] o.step = "refreeze" -> IF corpus[o.path] = capture[e].record[o.path]
                                   THEN capture' = [capture EXCEPT ![e].todo = Tail(@)] ELSE Refused(e)
    /\ UNCHANGED corpus

\* the child that digests fails or times out, or a file vanishes
CaptureFails(e) ==
    /\ capture[e].stage = "capturing" /\ capture[e].todo # <<>>
    /\ Refused(e)
    /\ UNCHANGED corpus

\* the manifest of a finished capture
Manifest(e) == capture[e].record
Captured(e) == capture[e].stage = "capturing" /\ capture[e].todo = <<>>

\* the after manifest with the content of a changed remainder file: read, then stat'ed again
Enrichable(before, after) == before[Remainder] = after[Remainder] \/ corpus[Remainder] = after[Remainder]

\* compare_root_manifests: the paths whose records differ, and the control fields
WriteDelta(before, after) == {p \in CorpusPaths : before[p] # after[p]}

\* a write from outside
CorpusChanges(p) ==
    /\ corpus' = [corpus EXCEPT ![p] = @ + 1]
    /\ capture' = [e \in Evaluators |->
         IF capture[e].stage = "capturing"
         THEN [capture[e] EXCEPT !.seen = @ \cup {[q \in {"config", "module"} |-> corpus'[q]]}] ELSE capture[e]]

-----------------------------------------------------------------------------
\* The hashed files of a manifest are one instant of the corpus, not a mixture of several:
\* whatever is written during the pass, all the recorded contents were there together.
CaptureIsAnInstant ==
    \A e \in Evaluators : Captured(e) => [p \in {"config", "module"} |-> Manifest(e)[p]] \in capture[e].seen
=============================================================================

------------------------- MODULE MCExecutionEvidence -------------------------
(***************************************************************************)
(* Two jobs, each in a runtime of its own, and two requests for a tag of   *)
(* one entry, over one evidence store.                                     *)
(***************************************************************************)
EXTENDS ExecutionEvidence, TLC

CONSTANTS r1, r2, j1, j2, t1, t2

Apart == (j1 :> r1) @@ (j2 :> r2)
OneEach == (j1 :> "mediation") @@ (j2 :> "selection")
OneEntry == (t1 :> "e") @@ (t2 :> "e")

\* Bound: the tags are asked for beside one job that is not corrected, and of two jobs
\* the first is corrected only while the second has not begun.
TagsOrTwoJobs ==
    \/ /\ \A t \in Tags : request[t].stage = "idle"
       /\ lane[j2].stage # "idle" => lane[j1].tries < 2
    \/ lane[j2].stage = "idle" /\ lane[j1].tries < 2
==============================================================================

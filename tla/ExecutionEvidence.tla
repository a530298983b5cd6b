-------------------------- MODULE ExecutionEvidence --------------------------
(***************************************************************************)
(* The evidence of a session: the jobs of the lanes and the tags, in the   *)
(* runtimes that have the session open, over one store of files.           *)
(***************************************************************************)
EXTENDS AuditTags

vars == <<jobVars, tagVars>>

Init == JobsInit /\ TagsInit

StoreProgress(r) == StoreStep(r) /\ UNCHANGED <<lane, tagVars>>

Dies(r) == StoreDies(r) /\ JobsDie(r) /\ TagsDie(r) /\ UNCHANGED <<tagFile, tagIndex>>

Next ==
    \/ \E r \in Runtimes :
        \/ StoreProgress(r)
        \/ Rebuild(r) /\ UNCHANGED <<lane, tagVars>>
        \/ Dies(r)
    \/ \E j \in Jobs : LaneStep(j) /\ UNCHANGED tagVars
    \/ \E t \in Tags : TagStep(t) /\ UNCHANGED lane

Spec == Init /\ [][Next]_vars

\* A call that is under way goes on to its end.  Every lane goes on or throws, for the
\* event loop of its runtime comes to it however often others make calls before.  Nobody
\* has to ask for a tag, to delete one, or to rebuild.
FairSpec ==
    /\ Spec
    /\ \A r \in Runtimes : WF_vars(StoreProgress(r))
    /\ \A j \in Jobs : SF_vars(LaneStep(j) /\ UNCHANGED tagVars)
    /\ \A t \in Tags :
        WF_vars(request[t].stage \in {"making", "deleting"} /\ TagStep(t) /\ UNCHANGED lane)

-----------------------------------------------------------------------------
(* Properties *)

\* Every variable has its type.
TypeOK == JobsTypeOK /\ TagsTypeOK

\* A canonical attempt found in the index is one: its file carries the job's envelope,
\* though the two are written by different steps of different calls.
HandleRecoverable ==
    \A j \in Jobs :
        LET id == index.jobs[j].canonical
        IN  id # None => /\ attempts[id].envelope # None
                         /\ attempts[id].envelope.job = j

\* Between the calls, the health that is indexed is the health of the attempts on file,
\* a patch of an older attempt and a rebuild included, as long as no call was cut short.
HealthIsCurrent ==
    /\ lock = "free"
    /\ \A r \in Runtimes : call[r].phase = "file"
    /\ thrown = {} /\ faults = 0
    => index = HealthIndexed(index)

\* An entry has one tag at most: two requests that cross while they await the history,
\* and a request after a deletion that was cut short, do not make a second.
OneTagPerEntry ==
    \A t1, t2 \in tagIndex.ids :
        /\ EntryOf[t1] = EntryOf[t2]
        /\ tagFile[t1] # None /\ tagFile[t2] # None
        => t1 = t2

=============================================================================

---------------------------- MODULE SemanticJobs ----------------------------
(***************************************************************************)
(* The semantic jobs of a round and the evidence they leave.  A job is     *)
(* opened in memory, and its envelope is put on the first attempt of its   *)
(* inference; later attempts join it, and when the work ends its           *)
(* disposition is recorded.  A mediation asks for one correction when the  *)
(* answer cannot be read; a selection or a move tries again until one is   *)
(* accepted.  Every await of the host or of the model may throw.           *)
(***************************************************************************)
EXTENDS EvidenceStore

CONSTANTS
    RuntimeOf,      \* the runtime whose lane does the job
    KindOf,         \* a mediation, or a selection or move
    Parented        \* the jobs whose attempts carry a parent_inference_id

ASSUME JobsAssumption ==
    /\ RuntimeOf \in [Jobs -> Runtimes]
    /\ KindOf \in [Jobs -> {"mediation", "selection"}]
    /\ Parented \subseteq Jobs

VARIABLE lane           \* each job as its lane holds it

jobVars == <<storeVars, lane>>

Stages == {"idle", "opened", "inferred", "joined", "closing", "done", "dead"}

\* What an inference comes to: an answer that can be read or not, or a failure.
Outcomes == {"read", "unread", "failed"}

Lanes ==
    [stage : Stages,
     tries : 0 .. MaxTries,
     outcome : Outcomes,             \* of the last inference
     canonical : Ids \cup {None},    \* the handle's
     envelope : Envelopes,           \* the handle's
     accepted : BOOLEAN]

NewLane(j) ==
    [stage |-> "idle", tries |-> 0, outcome |-> "read",
     canonical |-> None, envelope |-> [job |-> j, refs |-> {}, closed |-> "open"],
     accepted |-> FALSE]

JobsTypeOK == StoreTypeOK /\ lane \in [Jobs -> Lanes]

JobsInit == StoreInit /\ lane = [j \in Jobs |-> NewLane(j)]

-----------------------------------------------------------------------------
(* The evidence of a job *)

Upstream(j) == <<j, 0>>
Primary(j) == <<j, 1>>
Final(j) == <<j, lane[j].tries>>

Recorded(j, kind, n) ==
    [kind |-> kind, parent |-> j \in Parented,
     job |-> IF n = 0 THEN None ELSE j,
     canonical |-> lane[j].canonical, envelope |-> None, link |-> None,
     error |-> FALSE, lineage |-> "none", structural |-> "unknown", recovery |-> "none"]

EstablishCalls_RegisterFirst(j, envelope, id) ==
    <<Patch(id, [job |-> j, canonical |-> id]),
      Register(j, id, id),
      Patch(id, [envelope |-> envelope])>>

\* The envelope is put on this attempt, which is linked to its job.
EstablishCalls(j, envelope, id) ==
    <<Patch(id, [envelope |-> envelope]),
      Patch(id, [job |-> j, canonical |-> id]),
      Register(j, id, id)>>

\* The attempt is linked, and the envelope that names it replaces the one on file.
AttachCalls(j, envelope, canonical, id) ==
    <<Patch(id, [job |-> j, canonical |-> canonical]),
      Register(j, canonical, id),
      Patch(canonical, [envelope |-> envelope])>>

LinkCalls(left, right) == <<Patch(left, [link |-> right]), Patch(right, [link |-> left])>>

With(envelope, ids) == [envelope EXCEPT !.refs = @ \cup ids]

-----------------------------------------------------------------------------
(* The lanes *)

\* A lane goes on when its runtime is free and none of its calls has thrown.
Runs(j, stage) ==
    /\ lane[j].stage = stage
    /\ j \notin thrown
    /\ Waits(RuntimeOf[j])

LaneCalls(j, steps) ==
    /\ Calls(RuntimeOf[j], j, steps)
    /\ UNCHANGED <<attempts, index, lock, thrown, faults>>

\* The job is opened, beside the attempt it builds upon.
Open(j) ==
    /\ Runs(j, "idle")
    /\ lane' = [lane EXCEPT ![j].stage = "opened"]
    /\ LaneCalls(j, <<Write(Upstream(j), Recorded(j, "upstream", 0))>>)

\* The inference's attempt is recorded whatever it comes to.
Infer(j) ==
    /\ Runs(j, "opened")
    /\ lane[j].tries < MaxTries
    /\ LET n == lane[j].tries + 1
           kind == IF KindOf[j] = "mediation" /\ n > 1 THEN "correction" ELSE "primary"
       IN  /\ \E outcome \in Outcomes :
                lane' = [lane EXCEPT ![j].stage = "inferred", ![j].tries = n,
                                     ![j].outcome = outcome]
           /\ LaneCalls(j, <<Write(<<j, n>>, Recorded(j, kind, n))>>)

\* An answer that could not be read is asked for once more.
Correct(j) ==
    /\ Runs(j, "inferred")
    /\ KindOf[j] = "mediation"
    /\ lane[j].tries = 1
    /\ lane[j].outcome = "unread"
    /\ lane' = [lane EXCEPT ![j].stage = "opened"]
    /\ UNCHANGED storeVars

\* The attempts of a mediation join the job when the correction is over.
JoinMediation(j) ==
    /\ Runs(j, "inferred")
    /\ KindOf[j] = "mediation"
    /\ lane[j].tries = 1 => lane[j].outcome # "unread"
    /\ LET first == With(lane[j].envelope, {Primary(j)})
           last == With(first, {Final(j)})
       IN  /\ lane' = [lane EXCEPT ![j].stage = "joined", ![j].canonical = Primary(j),
                                   ![j].envelope = last]
           /\ LaneCalls(j, EstablishCalls(j, first, Primary(j))
                           \o IF lane[j].tries = 1 THEN <<>>
                              ELSE AttachCalls(j, last, Primary(j), Final(j)))

Joining(j, envelope) ==
    IF lane[j].canonical = None THEN EstablishCalls(j, envelope, Final(j))
    ELSE AttachCalls(j, envelope, lane[j].canonical, Final(j))

\* Those of a selection join it one by one, the ones that failed too.  An answer
\* is also linked to the attempt whose result went into its context.
JoinSelection(j) ==
    /\ Runs(j, "inferred")
    /\ KindOf[j] = "selection"
    /\ LET envelope == With(lane[j].envelope, {Final(j)})
       IN  /\ lane' = [lane EXCEPT ![j].stage = "joined", ![j].envelope = envelope,
                                   ![j].canonical = IF @ = None THEN Final(j) ELSE @]
           /\ LaneCalls(j, Joining(j, envelope)
                           \o IF lane[j].outcome = "failed" THEN <<>>
                              ELSE LinkCalls(Upstream(j), Final(j)))

\* The candidate is refused and there is another try.
TryAgain(j) ==
    /\ Runs(j, "joined")
    /\ KindOf[j] = "selection"
    /\ lane[j].tries < MaxTries
    /\ lane' = [lane EXCEPT ![j].stage = "opened"]
    /\ UNCHANGED storeVars

ClosedEnvelope(j, accepted) ==
    [lane[j].envelope EXCEPT !.closed = IF accepted THEN "succeeded" ELSE "failed"]

Closes(j, accepted, steps) ==
    /\ lane' = [lane EXCEPT ![j].stage = "closing", ![j].accepted = accepted,
                            ![j].envelope = ClosedEnvelope(j, accepted)]
    /\ LaneCalls(j, steps \o <<Patch(lane[j].canonical,
                                     [envelope |-> ClosedEnvelope(j, accepted)])>>)

EndSelection(j) ==
    /\ Runs(j, "joined")
    /\ KindOf[j] = "selection"
    /\ \E accepted \in BOOLEAN :
        /\ accepted => lane[j].outcome = "read"
        /\ ~accepted => lane[j].tries = MaxTries
        /\ Closes(j, accepted, <<>>)

\* correction_parse_error, which an inference that failed does not set.
Lineage(j) ==
    IF lane[j].tries = 1 THEN "none"
    ELSE IF lane[j].outcome = "unread" THEN "error"
    ELSE "clean"

MediationCalls(j) ==
    IF lane[j].tries = 1
    THEN <<Patch(Primary(j), [error |-> lane[j].outcome # "read"])>>
         \o LinkCalls(Upstream(j), Primary(j))
    ELSE <<Patch(Final(j), [lineage |-> Lineage(j)])>> \o LinkCalls(Upstream(j), Final(j))
         \o <<Patch(Primary(j), [error |-> TRUE, lineage |-> Lineage(j)])>>
         \o LinkCalls(Upstream(j), Primary(j))

\* The host has validated the result, or taken its fallback: both attempts are told.
EndMediation(j) ==
    /\ Runs(j, "joined")
    /\ KindOf[j] = "mediation"
    /\ \E accepted \in BOOLEAN :
        /\ accepted => lane[j].outcome = "read"
        /\ Closes(j, accepted, MediationCalls(j))

JobDone(j) ==
    /\ Runs(j, "closing")
    /\ lane' = [lane EXCEPT ![j].stage = "done"]
    /\ UNCHANGED storeVars

\* A call of the host or of the model throws, and so does the phase.
Throw(j) ==
    /\ \E stage \in {"opened", "inferred", "joined"} : Runs(j, stage)
    /\ lane' = [lane EXCEPT ![j].stage = "dead"]
    /\ UNCHANGED storeVars

\* A call of the store has thrown.
Fail(j) ==
    /\ j \in thrown
    /\ lane[j].stage \notin {"done", "dead"}
    /\ lane' = [lane EXCEPT ![j].stage = "dead"]
    /\ UNCHANGED storeVars

LaneStep(j) ==
    \/ Open(j)
    \/ Infer(j)
    \/ Correct(j)
    \/ JoinMediation(j)
    \/ JoinSelection(j)
    \/ TryAgain(j)
    \/ EndSelection(j)
    \/ EndMediation(j)
    \/ JobDone(j)
    \/ Throw(j)
    \/ Fail(j)

\* What a runtime was doing dies with it.
JobsDie(r) ==
    lane' = [j \in Jobs |->
                IF RuntimeOf[j] = r /\ lane[j].stage \notin {"idle", "done"}
                THEN [lane[j] EXCEPT !.stage = "dead"] ELSE lane[j]]
=============================================================================

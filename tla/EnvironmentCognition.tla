------------------------- MODULE EnvironmentCognition -------------------------
(***************************************************************************)
(* The turns of the scenes that share a memory scope, as the story they    *)
(* leave behind: a commit projects its events into the story-knowledge     *)
(* files, then the Narrator's cognition of the environment assesses what   *)
(* the narration needs, asks the Librarian, and has the Host establish     *)
(* properties of the place before anything is told.  (knowledge_service.py *)
(* story_knowledge_service.py, narrator-environment-cognition-substrate    *)
(* .mjs, narrator_environment_cognition.py, narrator-phase.mjs)            *)
(*                                                                         *)
(* The files are not locked: the steps of an append interleave with those  *)
(* of another scene, the process may stop between any two of them, and a   *)
(* stop or a full disk in the middle of one leaves a torn file.            *)
(***************************************************************************)
EXTENDS EnvironmentDeliberation

CONSTANTS
    Sessions,    \* the scenes that share the memory scope
    Places,      \* where a scene may be
    Answers,     \* what the assessing inference may come back with
    Access,      \* the circumstances an access of the Librarian may meet
    Knowers,     \* bound: who may know what happened in a turn, where it is recalled
    Skips,       \* whether the Narrator may be run without its cognition
    MaxTurns,    \* bound: turns of a scene
    MaxCrashes,  \* bound: times the process stops
    MaxFailures  \* bound: writes and calls that fail

VARIABLES
    skips,       \* the scenes run without the cognition
    files,       \* the story-knowledge files of the scope
    vectors,     \* [session -> the vectors its loaded index holds]
    stage,       \* [session -> where its turn is]
    turn,        \* [session -> turns committed]
    place,       \* [session -> where it is]
    known,       \* [session -> a sequence: who knows the event of each turn]
    todo,        \* [session -> what is still to be appended or decided]
    writing,     \* [session -> the append under way]
    work,        \* [session -> the assessment under way]
    told,        \* [session -> the obligations the narration was given]
    accepted,    \* every property the Host reported as established
    recalled,    \* the last access for a character of the cast
    crashes, failures

vars == <<skips, files, vectors, stage, turn, place, known, todo, writing, work, told,
          accepted, recalled, crashes, failures>>

turnVars == <<turn, place, known>>
storeVars == <<files, vectors, accepted>>
faultVars == <<crashes, failures>>

NotWriting == [step |-> "none"]
NoWork == [answer |-> [shape |-> "none"], outcomes |-> <<>>, obligations |-> <<>>, accepted |-> {}, deep |-> FALSE, clean |-> TRUE]
NoRecall == [viewer |-> Nobody, session |-> Nobody, offered |-> {}, outcome |-> "none", threw |-> FALSE]

Init ==
    /\ skips \in Skips
    /\ files = NoFiles
    /\ vectors = [s \in Sessions |-> {}]
    /\ stage = [s \in Sessions |-> "playing"]
    /\ turn = [s \in Sessions |-> 0]
    /\ place = [s \in Sessions |-> CHOOSE p \in Places : TRUE]
    /\ known = [s \in Sessions |-> <<>>]
    /\ todo = [s \in Sessions |-> <<>>]
    /\ writing = [s \in Sessions |-> NotWriting]
    /\ work = [s \in Sessions |-> NoWork]
    /\ told = [s \in Sessions |-> <<>>]
    /\ accepted = {}
    /\ recalled = NoRecall
    /\ crashes = 0 /\ failures = 0

Event(s, n) == <<s, n>>

KnownIn(s) == [event \in {Event(s, n) : n \in 1..turn[s]} |-> known[s][event[2]]]

(***************************************************************************)
(* A commit.  Every event of the session is projected again: the append    *)
(* answers that the manifest knows the ones that are there.  The index is  *)
(* loaded first, outside of what the projection catches.                   *)
(***************************************************************************)
\* Mutant: only the event of the commit is projected.
Unprojected_Newest(s) == <<turn[s] + 1>>

Unprojected(s) == [n \in 1..turn[s] + 1 |-> n]

Durable(s, where, knowers) ==
    /\ stage[s] = "playing" /\ turn[s] < MaxTurns
    /\ turn' = [turn EXCEPT ![s] = @ + 1]
    /\ place' = [place EXCEPT ![s] = where]
    /\ known' = [known EXCEPT ![s] = Append(@, knowers)]
    /\ recalled' = NoRecall
    /\ UNCHANGED <<skips, files, writing, work, told, accepted, faultVars>>

Commit(s, where, knowers) ==
    /\ Rankable(files)
    /\ Durable(s, where, knowers)
    /\ todo' = [todo EXCEPT ![s] = Unprojected(s)]
    /\ vectors' = [vectors EXCEPT ![s] = files.vectors]
    /\ stage' = [stage EXCEPT ![s] = "projecting"]

\* The session is saved, nothing of it is projected, and the exception of the
\* load reaches the client, whose turn ends there.
CommitUnprojected(s, where, knowers) ==
    /\ ~Rankable(files)
    /\ Durable(s, where, knowers)
    /\ UNCHANGED <<todo, vectors, stage>>

(***************************************************************************)
(* The steps of an append, for an event or for a property.                 *)
(***************************************************************************)
NextUp(s) ==
    /\ writing[s] = NotWriting
    /\ todo[s] # <<>>

Open(s, record) == writing' = [writing EXCEPT ![s] = [step |-> "opened", job |-> Opened(files, record)]]

LineGoesOut(s) ==
    /\ writing[s].step = "opened"
    /\ files' = LineWritten(files, writing[s].job)
    /\ writing' = [writing EXCEPT ![s].step = "line"]
    /\ UNCHANGED <<skips, vectors, stage, turnVars, todo, work, told, accepted, recalled, faultVars>>

ManifestGoesOut(s) ==
    /\ writing[s].step = "line"
    /\ stage[s] = "projecting" \/ Rankable(files)
    /\ files' = ManifestSaved(files, writing[s].job)
    /\ writing' = [writing EXCEPT ![s].step = "listed"]
    /\ vectors' = IF stage[s] = "projecting" THEN vectors
                  ELSE [vectors EXCEPT ![s] = files.vectors]
    /\ UNCHANGED <<skips, stage, turnVars, todo, work, told, accepted, recalled, faultVars>>

Unavailable == <<Alone("cognition_unavailable")>>

Undetermined == <<Alone("sufficiency_undetermined")>>

\* The narration goes ahead whatever became of the cognition.
Tell(s, obligations) ==
    /\ stage' = [stage EXCEPT ![s] = "told"]
    /\ told' = [told EXCEPT ![s] = obligations]

\* The cognition ends, whatever it was about to do.
GiveUp(s) == Tell(s, Unavailable) /\ todo' = [todo EXCEPT ![s] = <<>>]

\* The property is in the files when the index turns out to be torn, and the
\* Host reports nothing of it.
IndexUnreadable(s) ==
    /\ writing[s].step = "line" /\ stage[s] = "establishing" /\ ~Rankable(files)
    /\ files' = ManifestSaved(files, writing[s].job)
    /\ writing' = [writing EXCEPT ![s] = NotWriting]
    /\ GiveUp(s)
    /\ UNCHANGED <<skips, vectors, turnVars, work, accepted, recalled, faultVars>>

\* The Librarian was asked for the need, and found something or nothing.
Accessed(assessment, need) ==
    \E n \in DOMAIN assessment.outcomes :
        Asked(assessment.answer)[n].id = need /\ Safe(assessment.outcomes[n])

\* The property counts as established with the next step, whether or not its
\* vector reaches the disk: a loaded index keeps one it could not save.
Reported(s, record) ==
    IF stage[s] = "projecting" THEN UNCHANGED <<accepted, work>>
    ELSE /\ accepted' = accepted \cup
              {[record |-> record, determined |-> Determined(work[s].answer),
                mediated |-> Accessed(work[s], Head(todo[s]).need)]}
         /\ work' = [work EXCEPT ![s].accepted = @ \cup {Head(todo[s]).need}]

Appended(s, saved) ==
    LET record == writing[s].job.record
    IN /\ writing[s].step = "listed"
       /\ vectors' = [vectors EXCEPT ![s] = @ \cup {record.id}]
       /\ IF saved THEN files' = Vectored(files, vectors[s], record.id)
          ELSE files' \in {files, VectorsTorn(files)}
       /\ failures' = IF saved THEN failures ELSE failures + 1
       /\ Reported(s, record)
       /\ writing' = [writing EXCEPT ![s] = NotWriting]
       /\ todo' = [todo EXCEPT ![s] = Tail(@)]
       /\ UNCHANGED <<skips, stage, turnVars, told, recalled, crashes>>

VectorGoesOut(s) == Appended(s, TRUE)

VectorFails(s) == failures < MaxFailures /\ Appended(s, FALSE)

\* What a write leaves that was cut short.
Cut(s) ==
    CASE writing[s].step = "opened" -> LineTorn(files, writing[s].job)
      [] writing[s].step = "line" -> ManifestTorn(files)
      [] writing[s].step = "listed" -> VectorsTorn(files)

\* An append that raises is skipped by the projection and ends the cognition.
AppendFails(s) ==
    /\ writing[s].step \in {"opened", "line"} /\ failures < MaxFailures
    /\ failures' = failures + 1
    /\ files' \in {files, Cut(s)}
    /\ writing' = [writing EXCEPT ![s] = NotWriting]
    /\ IF stage[s] = "projecting"
       THEN /\ todo' = [todo EXCEPT ![s] = Tail(@)]
            /\ work' = [work EXCEPT ![s].clean = FALSE]
            /\ UNCHANGED <<stage, told>>
       ELSE GiveUp(s) /\ UNCHANGED work
    /\ UNCHANGED <<skips, vectors, accepted, turnVars, recalled, crashes>>

ProjectNext(s) ==
    /\ stage[s] = "projecting" /\ NextUp(s) /\ Legible(files)
    /\ LET record == Occurrence(Event(s, Head(todo[s])), Head(todo[s]))
       IN IF Known(files, record.id)
          THEN todo' = [todo EXCEPT ![s] = Tail(@)] /\ UNCHANGED writing
          ELSE Open(s, record) /\ UNCHANGED todo
    /\ UNCHANGED <<skips, storeVars, stage, turnVars, work, told, recalled, faultVars>>

\* The append begins with the manifest, and the projection skips the event.
ProjectionSkips(s) ==
    /\ stage[s] = "projecting" /\ NextUp(s) /\ ~Legible(files)
    /\ todo' = [todo EXCEPT ![s] = Tail(@)]
    /\ work' = [work EXCEPT ![s].clean = FALSE]
    /\ UNCHANGED <<skips, storeVars, stage, turnVars, writing, told, recalled, faultVars>>

Projected(s) ==
    /\ stage[s] = "projecting" /\ writing[s] = NotWriting /\ todo[s] = <<>>
    /\ stage' = [stage EXCEPT ![s] = IF skips THEN "told" ELSE "assessing"]
    /\ UNCHANGED <<skips, storeVars, turnVars, todo, writing, work, told, recalled, faultVars>>

(***************************************************************************)
(* The cognition: assess, once more in depth if need be, ask the Librarian *)
(* for every need at once, reconcile.                                      *)
(***************************************************************************)
Again(s, answer) ==
    Profile(files, place[s], turn[s]) = "constrained" /\ ~work[s].deep /\ Escalates(answer)

\* Every call but the mediation begins with the records of the scope.
ListingFails(s) ==
    /\ stage[s] \in {"assessing", "finalizing", "establishing"}
    /\ writing[s] = NotWriting /\ ~Legible(files)
    /\ GiveUp(s)
    /\ UNCHANGED <<skips, storeVars, turnVars, writing, work, recalled, faultVars>>

Assess(s, answer) ==
    /\ stage[s] = "assessing" /\ Legible(files)
    /\ IF Again(s, answer)
       THEN /\ work' = [work EXCEPT ![s].deep = TRUE]
            /\ UNCHANGED stage
       ELSE /\ work' = [work EXCEPT ![s].answer = answer]
            /\ stage' = [stage EXCEPT ![s] = IF Requests(answer) = <<>> THEN "finalizing" ELSE "mediating"]
    /\ UNCHANGED <<skips, storeVars, turnVars, todo, writing, told, recalled, faultVars>>

\* The character who moved is the one the Narrator's requests look through.
Outcomes(s, met) ==
    {Outcome(met, selection.failed) :
        selection \in Selections(files, KnownIn(s), NarratorRequest(CHOOSE c \in Cast : TRUE), "derived")}

\* The accesses run side by side and their results are put in the order of
\* the requests; they read the files and change nothing.
Mediate(s) ==
    /\ stage[s] = "mediating"
    /\ \E outcomes \in [DOMAIN Requests(work[s].answer) ->
                          UNION {Outcomes(s, Meets(files, met)) : met \in Access}] :
         work' = [work EXCEPT ![s].outcomes = outcomes]
    /\ stage' = [stage EXCEPT ![s] = "finalizing"]
    /\ UNCHANGED <<skips, storeVars, turnVars, todo, writing, told, recalled, faultVars>>

\* A call that throws, one of several accesses included, ends the cognition.
CognitionFails(s) ==
    /\ stage[s] \in {"assessing", "mediating", "finalizing"} /\ failures < MaxFailures
    /\ failures' = failures + 1
    /\ Tell(s, Unavailable)
    /\ UNCHANGED <<skips, storeVars, turnVars, todo, writing, work, recalled, crashes>>

\* Mutant: an answer that determines nothing is finalized like any other.
Usable_Always(answer) == answer.shape # "silent"

Usable(answer) == Determined(answer)

Finalize(s) ==
    /\ stage[s] = "finalizing" /\ Legible(files)
    /\ LET answer == work[s].answer
       IN IF Usable(answer)
          THEN /\ stage' = [stage EXCEPT ![s] = "establishing"]
               /\ todo' = [todo EXCEPT ![s] = Resolutions(answer, work[s].outcomes)]
               /\ work' = [work EXCEPT ![s].obligations = Obligations(answer, work[s].outcomes)]
               /\ UNCHANGED told
          ELSE Tell(s, Undetermined) /\ UNCHANGED <<todo, work>>
    /\ UNCHANGED <<skips, storeVars, turnVars, writing, recalled, faultVars>>

(***************************************************************************)
(* The Host's verdicts, one resolution after the other, each against what  *)
(* the place holds since the last property was accepted.                   *)
(***************************************************************************)
\* The record is named by a fresh UUID, for which its place in the file stands.
Proposal(s, resolution) ==
    Descriptor(<<s, turn[s], Len(files.lines) + 1>>, turn[s], place[s], resolution.key, resolution.value,
               IF resolution.replaces THEN StandsOn(files, place[s], resolution.key) ELSE NoRecord)

Decide(s) ==
    /\ stage[s] = "establishing" /\ NextUp(s) /\ Legible(files)
    /\ LET resolution == Head(todo[s])
       IN IF Authorized(resolution, Effective(files, place[s], resolution.key))
          THEN Open(s, Proposal(s, resolution)) /\ UNCHANGED <<todo, work>>
          ELSE /\ todo' = [todo EXCEPT ![s] = Tail(@)]
               /\ work' = [work EXCEPT ![s].accepted =
                             IF resolution.category = "B1" THEN @ \cup {resolution.need} ELSE @]
               /\ UNCHANGED writing
    /\ UNCHANGED <<skips, storeVars, stage, turnVars, told, recalled, faultVars>>

Established(s) ==
    /\ stage[s] = "establishing" /\ writing[s] = NotWriting /\ todo[s] = <<>> /\ Legible(files)
    /\ Tell(s, [n \in DOMAIN work[s].obligations |->
                  Refreshed(work[s].obligations[n], work[s].accepted)])
    /\ UNCHANGED <<skips, storeVars, turnVars, todo, writing, work, recalled, faultVars>>

\* The session could not be saved: the narration hears of a failure, and what
\* was established stays established.
EstablishedUnsaved(s) ==
    /\ stage[s] = "establishing" /\ writing[s] = NotWriting /\ todo[s] = <<>> /\ Legible(files)
    /\ failures < MaxFailures
    /\ failures' = failures + 1
    /\ Tell(s, Unavailable)
    /\ UNCHANGED <<skips, storeVars, turnVars, todo, writing, work, recalled, crashes>>

Narrated(s) ==
    /\ stage[s] = "told"
    /\ stage' = [stage EXCEPT ![s] = "playing"]
    /\ told' = [told EXCEPT ![s] = <<>>]
    /\ work' = [work EXCEPT ![s] = NoWork]
    /\ UNCHANGED <<skips, storeVars, turnVars, todo, writing, recalled, faultVars>>

(***************************************************************************)
(* Between turns a consumer asks the Librarian for what a viewer may know. *)
(* Bound: only where the cognition is skipped.                             *)
(***************************************************************************)
Recall(s, viewer, met) ==
    /\ skips /\ stage[s] = "playing" /\ turn[s] > 0
    /\ \E selection \in Selections(files, KnownIn(s), HostRequest(viewer), "occurrence") :
         LET meets == Meets(files, met)
         IN recalled' = [viewer |-> viewer, session |-> s,
                         offered |-> IF meets.throws THEN {} ELSE selection.offered,
                         outcome |-> Outcome(meets, selection.failed), threw |-> meets.throws]
    /\ UNCHANGED <<skips, storeVars, stage, turnVars, todo, writing, work, told, faultVars>>

(***************************************************************************)
(* The process stops: turns under way are gone, a write of torn may be cut *)
(* short, the committed turns and the files are what the next start finds. *)
(***************************************************************************)
Torn(torn) ==
    IF torn \in Sessions /\ writing[torn] # NotWriting THEN Cut(torn) ELSE files

Crash(torn) ==
    /\ crashes < MaxCrashes
    /\ \E s \in Sessions : stage[s] # "playing"
    /\ crashes' = crashes + 1
    /\ files' = Torn(torn)
    /\ stage' = [s \in Sessions |-> "playing"]
    /\ todo' = [s \in Sessions |-> <<>>]
    /\ writing' = [s \in Sessions |-> NotWriting]
    /\ work' = [s \in Sessions |-> NoWork]
    /\ told' = [s \in Sessions |-> <<>>]
    /\ vectors' = [s \in Sessions |-> {}]
    /\ UNCHANGED <<skips, turnVars, accepted, recalled, failures>>

Goes(s) ==
    \/ ProjectNext(s) \/ ProjectionSkips(s) \/ Projected(s)
    \/ LineGoesOut(s) \/ ManifestGoesOut(s) \/ IndexUnreadable(s) \/ VectorGoesOut(s)
    \/ ListingFails(s)
    \/ \E answer \in Answers : Assess(s, answer)
    \/ Mediate(s) \/ Finalize(s) \/ Decide(s) \/ Established(s) \/ Narrated(s)

Fault(s) == VectorFails(s) \/ AppendFails(s) \/ CognitionFails(s) \/ EstablishedUnsaved(s)

Next ==
    \/ \E s \in Sessions :
         \/ \E where \in Places, knowers \in Knowers :
              /\ skips \/ knowers = Cast
              /\ Commit(s, where, knowers) \/ CommitUnprojected(s, where, knowers)
         \/ Goes(s) \/ Fault(s)
         \/ \E viewer \in Cast \cup {Nobody}, met \in Access : Recall(s, viewer, met)
    \/ \E torn \in Sessions \cup {Nobody} : Crash(torn)

Spec == Init /\ [][Next]_vars

-------------------------------------------------------------------------------
TypeOK ==
    /\ stage \in [Sessions -> {"playing", "projecting", "assessing", "mediating", "finalizing",
                               "establishing", "told"}]
    /\ turn \in [Sessions -> 0..MaxTurns]
    /\ place \in [Sessions -> Places]
    /\ \A s \in Sessions :
         /\ Len(known[s]) = turn[s] /\ \A n \in DOMAIN known[s] : known[s][n] \subseteq Cast
         /\ writing[s].step \in {"none", "opened", "line", "listed"}
         /\ writing[s].step # "none" => todo[s] # <<>> /\ stage[s] \in {"projecting", "establishing"}
         /\ stage[s] \notin {"projecting", "establishing"} => todo[s] = <<>>
    /\ DOMAIN files.manifest \subseteq {files.lines[n].id : n \in DOMAIN files.lines}
    /\ crashes \in 0..MaxCrashes /\ failures \in 0..MaxFailures

Stands(record) ==
    \A location \in record.refs :
        \/ Contested(files, location, record.key)
        \/ \E b \in DescriptorsAt(files, location) : b.supersedes = record.id
        \/ Effective(files, location, record.key) = {record.value}

\* Hazard: a property established at a place that the place does not show.  It
\* is the effective one until another record replaces it or contradicts it, and
\* a torn manifest makes the listing of the place raise: never is the property
\* left out of what a listing shows, and its line is still there to recover.
AcceptedStands ==
    \A a \in accepted :
        /\ a.record \in Range(files.lines)
        /\ Legible(files) => Stands(a.record)

\* Hazard: facts invented on the strength of an answer that determined nothing.
UndeterminedInventsNothing == \A a \in accepted : a.determined

\* Hazard: an event whose append failed, or was cut off by a crash, is never
\* projected.  A projection that meets no error leaves nothing of its session
\* out of what can be listed; where the manifest is torn nothing can.
PromotionCatchesUp ==
    [][\A s \in Sessions :
         stage[s] = "projecting" /\ stage'[s] # "projecting" /\ crashes' = crashes /\ work[s].clean =>
            \/ ~Legible(files)'
            \/ \A n \in 1..turn[s] : Event(s, n) \in {r.id : r \in Listed(files)'}]_vars

===============================================================================

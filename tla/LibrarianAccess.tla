---------------------------- MODULE LibrarianAccess ----------------------------
(***************************************************************************)
(* One access of the Librarian to the story: the request the Host builds,  *)
(* the retrieval requests it is mapped to, the records a viewer may be     *)
(* offered, and the outcome of the mediation.  (librarian_mapper.py,       *)
(* story_knowledge_epistemic.py, story_knowledge_retrieval.py,             *)
(* librarian_service.py)                                                   *)
(*                                                                         *)
(* Records are of one size, so the budget of a class is a number of them.  *)
(***************************************************************************)
EXTENDS EnvironmentView, FiniteSetsExt

CONSTANTS
    Cast,       \* the characters of the scenes
    Nobody,     \* a request that no character looks through
    Budget      \* how many records of a class a response has room for

ASSUME AccessAssumption == Nobody \notin Cast /\ Budget \in Nat \ {0}

Roles == {"orchestration", "narrator", "host_internal"}

\* A need of the Narrator is asked for with the eyes of the character who
\* moved and may use what the story established, not what happened in it.
NarratorRequest(character) ==
    [viewer |-> character, role |-> "orchestration", classes |-> {"derived"}]

\* The host's own baseline request, for one character or for none.
HostRequest(viewer) ==
    [viewer |-> viewer, role |-> "host_internal", classes |-> {"occurrence", "derived"}]

\* The mapper hands on the viewer and leaves the role out.
HardAccess(request) == [viewer |-> request.viewer, role |-> "none"]

(***************************************************************************)
(* Eligibility is decided live.  known says who knows each event of the    *)
(* session that asks; an event of another session that shares the memory   *)
(* scope is nobody's.                                                      *)
(***************************************************************************)
Knowable(known, event, viewer) ==
    viewer = Nobody \/ (event \in DOMAIN known /\ viewer \in known[event])

Allowed(known, access, record) ==
    IF record.kind = "occurrence"
    THEN Knowable(known, record.id, access.viewer)
    ELSE access.role \in Roles

Eligible(files, known, request, class) ==
    {r \in Listed(files) : r.kind = class /\ Allowed(known, HardAccess(request), r)}

(***************************************************************************)
(* A class that fits its budget is offered whole.  One that does not is    *)
(* ranked, by a query nobody can foresee, among the records that have a    *)
(* vector; when none has, the access reports that the index failed.        *)
(***************************************************************************)
Nothing(failed) == [offered |-> {}, failed |-> failed]

Unranked == {Nothing(TRUE)}

Ranked(files, eligible) ==
    LET vectored == {r \in eligible : r.id \in files.vectors}
    IN IF vectored = {} THEN Unranked
       ELSE {[offered |-> chosen, failed |-> FALSE] :
                chosen \in {c \in SUBSET vectored :
                    Cardinality(c) = Min({Budget, Cardinality(vectored)})}}

Selections(files, known, request, class) ==
    LET eligible == Eligible(files, known, request, class)
    IN IF class \notin request.classes THEN {Nothing(FALSE)}
       ELSE IF Cardinality(eligible) <= Budget
       THEN {[offered |-> eligible, failed |-> FALSE]}
       ELSE Ranked(files, eligible)

(***************************************************************************)
(* An access in the circumstances it meets: whether the retrieval of story *)
(* records throws, whether the compiled index of authored knowledge is     *)
(* configured, and whether any entry fits the bundle.  Live items of the   *)
(* scene make the working set nonempty, so the deterministic fallback      *)
(* always has entries and only the size of the bundle can empty it.        *)
(***************************************************************************)
\* The retrieval of story records lists them and loads their vectors.
Meets(files, met) == [met EXCEPT !.throws = @ \/ files.torn # {}]

\* A retrieval that threw left no response, so nothing of it is reported.
Outcome(met, failed) ==
    IF (failed /\ ~met.throws) \/ (~met.indexed /\ ~met.fits)
    THEN "retrieval_failure"
    ELSE IF met.fits THEN "match" ELSE "no_match"
===============================================================================

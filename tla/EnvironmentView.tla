---------------------------- MODULE EnvironmentView ----------------------------
(***************************************************************************)
(* The story-knowledge files of one memory scope: records.jsonl, to which  *)
(* a record is appended as one line; manifest.json, which says at which    *)
(* offset the line of each record begins and is the only way to a record;  *)
(* and semantic_index_v1.json, the vectors that rank records for recall.   *)
(* (story_knowledge_repository.py, story_semantic_index.py)                *)
(*                                                                         *)
(* Nothing locks the files.  An append is a read of the manifest and of    *)
(* the length of the file, a write of the line and a rewrite of the whole  *)
(* manifest, so its steps are operators of their own: the module that uses *)
(* them interleaves those of several sessions and stops between them.      *)
(* The manifest and the vectors are written in place, and of a write that  *)
(* was cut short a text is left that every later load fails to parse.      *)
(* A line number stands for a byte offset.                                 *)
(*                                                                         *)
(* What the Narrator is given as established about a place: the authored   *)
(* properties of the scene and the properties the Host established during  *)
(* the story, merged by narrator_environment_projection.py.                *)
(***************************************************************************)
EXTENDS Naturals, Sequences, FiniteSets

CONSTANTS
    Keys,       \* the properties a place may have
    Authored    \* [location -> a set of [key, value]]: at most one value per key

ASSUME AuthoredOnce ==
    \A location \in DOMAIN Authored :
        \A a, b \in Authored[location] : a.key \in Keys /\ (a.key = b.key => a = b)

-------------------------------------------------------------------------------
(* The record files *)

NoEntries == [id \in {} |-> 0]

\* torn: the files whose text cannot be parsed.
NoFiles == [lines |-> <<>>, manifest |-> NoEntries, vectors |-> {}, torn |-> {}]

\* Mutant: a manifest that cannot be parsed counts as an empty one.
Legible_StartsAfresh(files) == TRUE

\* load_manifest, which every append and every listing begins with, raises
\* unless the manifest can be parsed.
Legible(files) == "manifest" \notin files.torn

\* SemanticIndexBackend loads the vectors when it is made.
Rankable(files) == "vectors" \notin files.torn

\* An event of the session, or a property of a place that the Host established.
Occurrence(id, turn) == [id |-> id, kind |-> "occurrence", turn |-> turn, whole |-> TRUE]

Descriptor(id, turn, location, key, value, supersedes) ==
    [id |-> id, kind |-> "derived", turn |-> turn, whole |-> TRUE,
     refs |-> {location}, key |-> key, value |-> value, supersedes |-> supersedes]

Known(files, id) == id \in DOMAIN files.manifest

(***************************************************************************)
(* append_record.  A job is what the append has read: it answers false     *)
(* without a job when the manifest already knows the record.               *)
(***************************************************************************)
Opened(files, record) ==
    [record |-> record, manifest |-> files.manifest, offset |-> Len(files.lines) + 1]

LineWritten(files, job) == [files EXCEPT !.lines = Append(@, job.record)]

\* The write of the line was cut short: no reader can parse it.
LineTorn(files, job) ==
    [files EXCEPT !.lines = Append(@, [job.record EXCEPT !.whole = FALSE])]

ManifestSaved(files, job) ==
    [files EXCEPT !.manifest =
        [id \in DOMAIN job.manifest \cup {job.record.id} |->
            IF id = job.record.id THEN job.offset ELSE job.manifest[id]],
                  !.torn = @ \ {"manifest"}]

\* The file was truncated, and what should have followed did not, or not all.
ManifestTorn(files) == [files EXCEPT !.manifest = NoEntries, !.torn = @ \cup {"manifest"}]

Vectored(files, loaded, id) ==
    [files EXCEPT !.vectors = loaded \cup {id}, !.torn = @ \ {"vectors"}]

VectorsTorn(files) == [files EXCEPT !.vectors = {}, !.torn = @ \cup {"vectors"}]

(***************************************************************************)
(* list_records, of a manifest that can be parsed, reads the line each     *)
(* entry points at, whatever record is written there, and drops a line it  *)
(* cannot parse.                                                           *)
(***************************************************************************)
Listed(files) ==
    {files.lines[files.manifest[id]] :
        id \in {i \in DOMAIN files.manifest :
                  /\ files.manifest[i] \in DOMAIN files.lines
                  /\ files.lines[files.manifest[i]].whole}}

Derived(files) == {r \in Listed(files) : r.kind = "derived"}

-------------------------------------------------------------------------------
(* The view of a place *)

DescriptorsAt(files, location) == {r \in Derived(files) : location \in r.refs}

StoryOf(files, location, key) == {d \in DescriptorsAt(files, location) : d.key = key}

\* A property is superseded only by one of the same key at the same place.
Active(files, location, key) ==
    LET story == StoryOf(files, location, key)
        superseded == {d.supersedes : d \in story}
    IN {d \in story : d.id \notin superseded}

StoryValues(files, location, key) == {d.value : d \in Active(files, location, key)}

AuthoredValues(location, key) == {a.value : a \in {b \in Authored[location] : b.key = key}}

Contested(files, location, key) == Cardinality(StoryValues(files, location, key)) > 1

Conflicts(files, location) == {key \in Keys : Contested(files, location, key)}

\* The effective value of a property, if it has one: the story stands before
\* the authored baseline, and a property whose active values differ is a
\* conflict and has none.
Effective(files, location, key) ==
    LET values == StoryValues(files, location, key)
    IN CASE values = {} -> AuthoredValues(location, key)
         [] Cardinality(values) = 1 -> values
         [] OTHER -> {}

\* The record an effective value of the story stands on, which is what a
\* proposal to replace the value names; NoRecord for an authored value.
NoRecord == <<>>

StandsOn(files, location, key) ==
    LET active == Active(files, location, key)
    IN IF active # {} /\ ~Contested(files, location, key)
       THEN (CHOOSE d \in active : \A e \in active : e.turn <= d.turn).id
       ELSE NoRecord

(***************************************************************************)
(* The deliberation profile of the assessment: constrained only at an      *)
(* opening about a place nothing has been established of.                  *)
(***************************************************************************)
Profile(files, location, turn) ==
    IF \/ Conflicts(files, location) # {}
       \/ DescriptorsAt(files, location) # {}
       \/ turn > 1
    THEN "deep" ELSE "constrained"
===============================================================================

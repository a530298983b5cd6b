------------------------------ MODULE AuditTags ------------------------------
(***************************************************************************)
(* The tags a person puts on entries of the transcript.  A tag is asked    *)
(* for while the history is awaited, so that requests cross; what follows  *)
(* is one synchronous run of file writes, which also indexes the tag's     *)
(* scope in the execution evidence.  A tag has a file, and an index names  *)
(* the tags, the tag of each entry and the next number.                    *)
(***************************************************************************)
EXTENDS SemanticJobs

CONSTANTS
    TagRuntime,     \* the runtime that serves the tags
    EntryOf         \* the transcript entry that a request tags

ASSUME TagsAssumption ==
    /\ TagRuntime \in Runtimes
    /\ DOMAIN EntryOf = Tags

VARIABLES
    tagFile,        \* tags/<tag_id>.json: the tag_index in it, or None
    tagIndex,       \* the index.json of the tags
    request         \* each request for a tag, and the deletion of that tag

tagVars == <<tagFile, tagIndex, request>>

Entries == {EntryOf[t] : t \in Tags}
Numbers == 0 .. Cardinality(Tags)

TagsTypeOK ==
    /\ tagFile \in [Tags -> Numbers \cup {None}]
    /\ tagIndex \in [next : Numbers, ids : SUBSET Tags, byEntry : [Entries -> Tags \cup {None}]]
    /\ request \in [Tags -> [stage : {"idle", "asked", "making", "made", "found", "refused",
                                      "deleting", "deleted", "dead"},
                             number : Numbers \cup {None}]]

TagsInit ==
    /\ tagFile = [t \in Tags |-> None]
    /\ tagIndex = [next |-> 0, ids |-> {}, byEntry |-> [e \in Entries |-> None]]
    /\ request = [t \in Tags |-> [stage |-> "idle", number |-> None]]

Staged(t, stage) == request' = [request EXCEPT ![t].stage = stage]

Ready(t, stage) == request[t].stage = stage /\ Waits(TagRuntime)

-----------------------------------------------------------------------------
(* The requests *)

\* The history is asked for.
Ask(t) ==
    /\ Ready(t, "idle")
    /\ Staged(t, "asked")
    /\ UNCHANGED <<storeVars, tagFile, tagIndex>>

\* It cannot be read, or the entry is not in it.
RefuseTag(t) ==
    /\ Ready(t, "asked")
    /\ Staged(t, "refused")
    /\ UNCHANGED <<storeVars, tagFile, tagIndex>>

Existing_Unchecked(e) == FALSE

\* The entry has a tag, whose file is there.
Existing(e) ==
    /\ tagIndex.byEntry[e] # None
    /\ tagFile[tagIndex.byEntry[e]] # None

FindTag(t) ==
    /\ Ready(t, "asked")
    /\ Existing(EntryOf[t])
    /\ Staged(t, "found")
    /\ UNCHANGED <<storeVars, tagFile, tagIndex>>

MakeTag(t) ==
    /\ Ready(t, "asked")
    /\ ~Existing(EntryOf[t])
    /\ Staged(t, "making")
    /\ Calls(TagRuntime, t, <<[op |-> "number"], Scope(t), [op |-> "tag"], [op |-> "list"]>>)
    /\ UNCHANGED <<attempts, index, lock, thrown, faults, tagFile, tagIndex>>

\* Without its file a tag is unknown, and is not deleted.
DeleteTag(t) ==
    /\ Ready(t, "made")
    /\ tagFile[t] # None
    /\ Staged(t, "deleting")
    /\ Calls(TagRuntime, t, <<[op |-> "unlink"], [op |-> "unlist"]>>)
    /\ UNCHANGED <<attempts, index, lock, thrown, faults, tagFile, tagIndex>>

-----------------------------------------------------------------------------
(* Their steps *)

Does(t, op) ==
    /\ At(TagRuntime, "file", {op})
    /\ call[TagRuntime].caller = t
    /\ Continues(TagRuntime)
    /\ UNCHANGED <<attempts, index, lock, thrown, faults>>

NumberTaken == [tagIndex EXCEPT !.next = @ + 1]

TakeNumber(t) ==
    /\ Does(t, "number")
    /\ request' = [request EXCEPT ![t].number = tagIndex.next]
    /\ tagIndex' = NumberTaken
    /\ UNCHANGED tagFile

WriteTag(t) ==
    /\ Does(t, "tag")
    /\ tagFile' = [tagFile EXCEPT ![t] = request[t].number]
    /\ UNCHANGED <<tagIndex, request>>

ListTag(t) ==
    /\ Does(t, "list")
    /\ tagIndex' = [tagIndex EXCEPT !.ids = @ \cup {t}, !.byEntry[EntryOf[t]] = t]
    /\ Staged(t, "made")
    /\ UNCHANGED tagFile

UnlinkTag(t) ==
    /\ Does(t, "unlink")
    /\ tagFile' = [tagFile EXCEPT ![t] = None]
    /\ UNCHANGED <<tagIndex, request>>

UnlistTag(t) ==
    /\ Does(t, "unlist")
    /\ tagIndex' = [tagIndex EXCEPT !.ids = @ \ {t},
                                    !.byEntry[EntryOf[t]] = IF @ = t THEN None ELSE @]
    /\ Staged(t, "deleted")
    /\ UNCHANGED tagFile

TagStep(t) ==
    \/ Ask(t)
    \/ RefuseTag(t)
    \/ FindTag(t)
    \/ MakeTag(t)
    \/ DeleteTag(t)
    \/ TakeNumber(t)
    \/ WriteTag(t)
    \/ ListTag(t)
    \/ UnlinkTag(t)
    \/ UnlistTag(t)

TagsDie(r) ==
    request' = [t \in Tags |->
                   IF r = TagRuntime /\ request[t].stage \in {"asked", "making", "deleting"}
                   THEN [request[t] EXCEPT !.stage = "dead"] ELSE request[t]]
=============================================================================

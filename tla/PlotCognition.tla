---------------------------- MODULE PlotCognition ----------------------------
(***************************************************************************)
(* The plot cognition overlay of a session: the snapshot on disk with its  *)
(* revision, the forensic chronicle beside it, the host that records       *)
(* pending work after a commit, and the drivers of the runtime that plan   *)
(* what is due and carry it out.  Every handler of the host runs on a      *)
(* thread of its own, and none of these takes the session's lock: between  *)
(* what one reads and what it writes, the others go on.                    *)
(***************************************************************************)
EXTENDS Integers, FiniteSets, FiniteSetsExt

CONSTANTS
    Drivers,        \* the runs of the lifecycle that may be under way at once
    Starts,         \* what there is of the overlay after the first move
    MaxCommits,     \* bound: moves committed
    MaxChanges,     \* bound: other saves, of a presentation or of the librarian's
    MaxFaults       \* bound: crashes, failed writes and failed inferences

ASSUME PlotAssumption ==
    /\ "commit" \notin Drivers
    /\ Starts \subseteq {"absent", "blocked", "unproven", "behind", "assimilated"}
    /\ MaxCommits \in Nat \ {0}
    /\ MaxChanges \in Nat
    /\ MaxFaults \in Nat

VARIABLES
    host,           \* the session: what it has committed, saved and remembers
    overlay,        \* the snapshot on disk
    chronicle,      \* the records of mutations, and the index over them
    task,           \* what each thread is doing
    landed,         \* history: the mutations that replaced the snapshot
    recorded,       \* history: the last commit's pending work was acknowledged
    crossed,        \* history: a snapshot was replaced while two threads ran
    changes, faults \* counters that bound the model

vars == <<host, overlay, chronicle, task, landed, recorded, crossed, changes, faults>>

Threads == Drivers \cup {"commit"}

\* The idempotency key of a mutation, without its scope.
Kinds == {"pending", "initialization", "reconciliation", "authority_advance", "update"}
Keys == Kinds \X Nat

Hosts ==
    [commit : 0 .. MaxCommits,      \* the last of commit_ids
     version : Nat,                 \* continuity_version
     issues : 0 .. MaxChanges,      \* changes the librarian made to what is projected
     since : 0 .. MaxCommits,       \* the commits up to this one are of rounds forgotten
     opened : BOOLEAN]              \* the opening is durable

\* What an authority is through, and what a proposal was made from.
Sources == [commit : Int, version : Int, fingerprint : Int, revision : Int]
NoSource == [commit |-> -1, version |-> -1, fingerprint |-> -1, revision |-> -1]

\* "blocked" stands for a corrupt, unsupported or degraded file.
Snapshots ==
    [status : {"absent", "ready", "blocked"},
     revision : Nat,
     authority : Sources,           \* assimilated_authority
     pending : 0 .. MaxCommits,     \* trigger_domain_commit_id, 0 for none
     content : SUBSET Keys]         \* the mutations whose cognition it holds

NoSnapshot == [status |-> "absent", revision |-> 0, authority |-> NoSource,
               pending |-> 0, content |-> {}]

Entries == [key : Keys, phase : {"intent", "completion"}, prior : Nat, applied : BOOLEAN]

Phases ==
    {"idle", "preparing", "inferring", "begin", "intent", "load", "replace", "clearLoad",
     "clearReplace", "completion", "index"}

Tasks ==
    [at : Phases,
     key : Keys,
     source : Sources,
     prompted : Sources,            \* what the model was shown
     prior : Nat,                   \* the revision the handler found first
     intended : Nat,                \* the revision its intent was recorded at
     copy : Snapshots,              \* the snapshot it loaded last
     index : SUBSET Entries,        \* the index it is about to rewrite
     success : BOOLEAN]             \* what its mutation came to

Idle == [at |-> "idle", key |-> <<"pending", 0>>, source |-> NoSource, prompted |-> NoSource, prior |-> 0,
         intended |-> 0, copy |-> NoSnapshot, index |-> {}, success |-> FALSE]

PlotTypeOK ==
    /\ host \in Hosts
    /\ overlay \in Snapshots
    /\ chronicle \in [records : SUBSET Entries, index : SUBSET Entries]
    /\ task \in [Threads -> Tasks]
    /\ landed \in SUBSET Keys
    /\ {recorded, crossed} \subseteq BOOLEAN
    /\ changes \in 0 .. MaxChanges
    /\ faults \in 0 .. MaxFaults

-----------------------------------------------------------------------------
(* What the host knows *)

\* The fingerprint of the projection: a number that differs when the commits,
\* what the librarian changed or the rounds in memory differ.
Fingerprint ==
    host.commit + (MaxCommits + 1) * (host.since + (MaxCommits + 1) * host.issues)

\* gather_update_source_snapshot, taken with the snapshot s in hand.
GatheredSources(s) ==
    [commit |-> host.commit, version |-> host.version, fingerprint |-> Fingerprint,
     revision |-> s.revision]

\* authority_freshness_status of a session that is the sole contributor.
AuthorityStatus ==
    IF overlay.authority = NoSource THEN "freshness_unprovable"
    ELSE IF overlay.authority.commit # host.commit THEN "semantic_assimilation_pending"
    ELSE IF overlay.authority.version = host.version THEN "fresh"
    ELSE IF overlay.authority.fingerprint = Fingerprint THEN "authority_generation_changed_unchecked"
    ELSE "semantic_assimilation_pending"

\* The barrier before what reads the overlay next: pending work withholds it.
Fresh == overlay.status # "ready" \/ overlay.pending = 0

PlannedOperation_NeverClears ==
    CASE overlay.status = "absent" /\ host.opened -> "initialization"
      [] ~Fresh /\ AuthorityStatus = "freshness_unprovable" -> "reconciliation"
      [] ~Fresh /\ AuthorityStatus = "authority_generation_changed_unchecked" -> "authority_advance"
      [] ~Fresh /\ AuthorityStatus = "semantic_assimilation_pending" -> "update"
      [] OTHER -> "none"

\* plan_post_commit_plot_cognition_work
PlannedOperation ==
    CASE overlay.status = "absent" /\ host.opened -> "initialization"
      [] ~Fresh /\ AuthorityStatus = "freshness_unprovable" -> "reconciliation"
      [] ~Fresh /\ AuthorityStatus = "authority_generation_changed_unchecked" -> "authority_advance"
      [] ~Fresh /\ AuthorityStatus = "fresh" -> "clear_pending"
      [] ~Fresh /\ AuthorityStatus = "semantic_assimilation_pending" -> "update"
      [] OTHER -> "none"

\* The overlay at the session's move 1, which follows the moves 0 stands for: there
\* is none yet, or one that is blocked, one older than authorities, one behind that
\* move with its work recorded, or one through it.
Overlays(start) ==
    CASE start = "absent" -> NoSnapshot
      [] start = "blocked" -> [NoSnapshot EXCEPT !.status = "blocked"]
      [] start = "unproven" -> [NoSnapshot EXCEPT !.status = "ready", !.revision = 1]
      [] start = "behind" -> [NoSnapshot EXCEPT !.status = "ready", !.revision = 2, !.pending = 1,
             !.authority = [commit |-> 0, version |-> 0, fingerprint |-> 0, revision |-> 0]]
      [] start = "assimilated" -> [NoSnapshot EXCEPT !.status = "ready", !.revision = 4,
                                                     !.authority = GatheredSources([revision |-> 3])]

PlotInit ==
    /\ host \in {[commit |-> 1, version |-> 1, issues |-> 0, since |-> 0, opened |-> o] : o \in BOOLEAN}
    /\ overlay \in {Overlays(start) : start \in Starts}
    /\ overlay.status = "ready" => host.opened
    /\ chronicle = [records |-> {}, index |-> {}]
    /\ task = [t \in Threads |-> Idle]
    /\ landed = {}
    /\ recorded = TRUE
    /\ crossed = FALSE
    /\ changes = 0
    /\ faults = 0

-----------------------------------------------------------------------------
(* The session goes on *)

hostOnly == <<overlay, chronicle, landed, crossed, faults>>

\* commit_move has saved the move and goes on to record what is now pending.
Commit ==
    /\ task["commit"].at = "idle"
    /\ host.commit < MaxCommits
    /\ host' = [host EXCEPT !.commit = @ + 1, !.version = @ + 1]
    /\ task' = [task EXCEPT !["commit"] =
                   [Idle EXCEPT !.at = "begin", !.key = <<"pending", host.commit + 1>>]]
    /\ recorded' = FALSE
    /\ UNCHANGED <<hostOnly, changes>>

\* A presentation is saved, which makes an opening durable.
Present ==
    /\ changes < MaxChanges
    /\ changes' = changes + 1
    /\ host' = [host EXCEPT !.version = @ + 1, !.opened = TRUE]
    /\ UNCHANGED <<hostOnly, task, recorded>>

\* The librarian's finalization changes an issue and is saved.
ChangeIssue ==
    /\ changes < MaxChanges
    /\ changes' = changes + 1
    /\ host' = [host EXCEPT !.version = @ + 1, !.issues = @ + 1]
    /\ UNCHANGED <<hostOnly, task, recorded>>

\* What the runtime waits for from the host, and what it does itself.
OfTheRuntime == {"idle", "preparing", "inferring"}

\* The host's process ends: its threads with it, and the rounds it remembered.
\* The files stay as they are, and so does what the runtime was doing itself.
Crash ==
    /\ faults < MaxFaults
    /\ faults' = faults + 1
    /\ task' = [t \in Threads |-> IF task[t].at \in OfTheRuntime THEN task[t] ELSE Idle]
    /\ host' = [host EXCEPT !.since = host.commit]
    /\ UNCHANGED <<overlay, chronicle, landed, recorded, crossed, changes>>

-----------------------------------------------------------------------------
(* Threads *)

threadFrame == <<host, changes>>

Kind(t) == task[t].key[1]

Goes(t, now) == task' = [task EXCEPT ![t] = now]

Answers_Recorded(t, ok) ==
    /\ Goes(t, Idle)
    /\ recorded' = (t = "commit" \/ recorded)

\* A handler answers.  Only that of a commit says whether the work is recorded,
\* and commit_move does not look at it.
Answers(t, ok) ==
    /\ Goes(t, Idle)
    /\ recorded' = IF t = "commit" THEN ok ELSE recorded

\* A write, or an inference, that fails.
Fails == faults < MaxFaults /\ faults' = faults + 1

Found(entries, key, phase) == {e \in entries : e.key = key /\ e.phase = phase}

IntentOf(t) ==
    [key |-> task[t].key, phase |-> "intent", prior |-> overlay.revision, applied |-> FALSE]

CompletionOf(t) ==
    [key |-> task[t].key, phase |-> "completion", prior |-> 0, applied |-> task[t].success]

\* A proposal is named by the model that makes it: anew, it is taken.
NewProposal ==
    1 + Max({0} \cup {e.key[2] : e \in {x \in chronicle.records : x.key[1] = "update"}}
                \cup {task[d].key[2] : d \in {x \in Drivers : Kind(x) = "update"}})

-----------------------------------------------------------------------------
(* A driver: runPlotCognitionPendingWorkLifecycle *)

\* The plan.  "none" leaves everything as it is; a clearing has no intent.
Plan(d) ==
    /\ task[d].at = "idle"
    /\ PlannedOperation # "none"
    /\ Goes(d, [Idle EXCEPT
           !.at = CASE PlannedOperation = "update" -> "preparing"
                    [] PlannedOperation = "initialization" -> "inferring"
                    [] PlannedOperation = "clear_pending" -> "clearLoad"
                    [] OTHER -> "begin",
           !.key = CASE PlannedOperation = "authority_advance" -> <<"authority_advance", Fingerprint>>
                     [] PlannedOperation = "reconciliation" -> <<"reconciliation", 0>>
                     [] PlannedOperation = "initialization" -> <<"initialization", 0>>
                     [] OTHER -> <<"pending", 0>>,
           !.source = IF PlannedOperation = "authority_advance" THEN GatheredSources(overlay)
                      ELSE NoSource])
    /\ UNCHANGED <<threadFrame, overlay, chronicle, landed, recorded, crossed, faults>>

\* prepare_plot_cognition_update
Prepare(d) ==
    /\ task[d].at = "preparing"
    /\ Goes(d, IF overlay.status = "blocked" THEN Idle
               ELSE [task[d] EXCEPT !.at = "inferring", !.prompted = GatheredSources(overlay)])
    /\ UNCHANGED <<threadFrame, overlay, chronicle, landed, recorded, crossed, faults>>

\* The inference gives a proposal, named, or nothing usable after a correction.
Infer(d) ==
    /\ task[d].at = "inferring"
    /\ \/ /\ Goes(d, [task[d] EXCEPT !.at = "begin",
                          !.key = IF Kind(d) = "initialization" THEN @ ELSE <<"update", NewProposal>>])
          /\ UNCHANGED faults
       \/ Fails /\ Goes(d, Idle)
    /\ UNCHANGED <<threadFrame, overlay, chronicle, landed, recorded, crossed>>

-----------------------------------------------------------------------------
(* A mutation and its forensics: execute_wafi_mutation *)

Appends(entry) == chronicle' = [chronicle EXCEPT !.records = @ \cup {entry}]

IndexWith(entry) == (chronicle.index \ Found(chronicle.index, entry.key, entry.phase)) \cup {entry}

\* The index as it was read, with this record: what others added since is gone.
Indexes(t) == chronicle' = [chronicle EXCEPT !.index = task[t].index]

\* The handler looks at the snapshot and at the key: one that has its completion
\* is answered from the chronicle, one that has its intent goes on, and a new one
\* has its intent recorded before anything else.
Begin(t) ==
    LET intents == Found(chronicle.index, task[t].key, "intent")
        completions == Found(chronicle.index, task[t].key, "completion")
        looked == [task[t] EXCEPT !.prior = overlay.revision, !.intended = overlay.revision]
    IN  /\ task[t].at = "begin"
        /\ \/ /\ completions # {}
              /\ Answers(t, TRUE)
              /\ UNCHANGED <<chronicle, faults>>
           \/ /\ completions = {} /\ intents # {}
              /\ Goes(t, [looked EXCEPT !.at = "load", !.intended = Max({e.prior : e \in intents})])
              /\ UNCHANGED <<chronicle, recorded, faults>>
           \/ /\ completions = {} /\ intents = {}
              /\ Appends(IntentOf(t))
              /\ Goes(t, [looked EXCEPT !.at = "intent", !.index = IndexWith(IntentOf(t))])
              /\ UNCHANGED <<recorded, faults>>
           \/ /\ completions = {} /\ intents = {}
              /\ Fails
              /\ Answers(t, FALSE)
              /\ UNCHANGED chronicle
        /\ UNCHANGED <<threadFrame, overlay, landed, crossed>>

\* The intent is found by its key from now on.
IndexIntent(t) ==
    /\ task[t].at = "intent"
    /\ Indexes(t)
    /\ Goes(t, [task[t] EXCEPT !.at = "load", !.index = {}])
    /\ UNCHANGED <<threadFrame, overlay, landed, recorded, crossed, faults>>

\* A mutation that failed ends the handler, and its intent stays, unless the
\* failure is taken for the trace of an earlier success.
MutationFailed(t, alreadyApplied) ==
    IF alreadyApplied
    THEN Goes(t, [task[t] EXCEPT !.at = "completion", !.success = FALSE]) /\ UNCHANGED recorded
    ELSE Answers(t, FALSE)

\* _mutation_already_applied of a stale revision: the snapshot has moved on
\* since the intent, whoever moved it.
MovedOn(t) == overlay.revision > task[t].intended

Loaded(t, source) ==
    /\ Goes(t, [task[t] EXCEPT !.at = "replace", !.copy = overlay, !.source = source])
    /\ UNCHANGED recorded

\* apply_post_commit_pending_work: without a snapshot the work counts as queued.
LoadForPending(t) ==
    /\ Kind(t) = "pending"
    /\ IF overlay.status # "ready"
       THEN Goes(t, [task[t] EXCEPT !.at = "completion", !.success = TRUE]) /\ UNCHANGED recorded
       ELSE IF overlay.revision # task[t].prior
            THEN MutationFailed(t, MovedOn(t))
            ELSE Loaded(t, task[t].source)
    /\ UNCHANGED faults

\* commit_initial_overlay_if_absent
LoadForInitialization(t) ==
    /\ Kind(t) = "initialization"
    /\ \/ /\ overlay.status = "absent"
          /\ Loaded(t, NoSource)
          /\ UNCHANGED faults
       \/ overlay.status # "absent" /\ MutationFailed(t, overlay.status = "ready") /\ UNCHANGED faults
       \/ Fails /\ MutationFailed(t, FALSE)

\* first_reconciliation
LoadForReconciliation(t) ==
    /\ Kind(t) = "reconciliation"
    /\ IF overlay.status = "ready" /\ overlay.authority = NoSource
       THEN Loaded(t, GatheredSources(overlay))
       ELSE MutationFailed(t, FALSE)
    /\ UNCHANGED faults

\* advance_authority_unchanged: revision, version and fingerprint are the plan's.
LoadForAdvance(t) ==
    /\ Kind(t) = "authority_advance"
    /\ IF overlay.status # "ready" THEN MutationFailed(t, FALSE)
       ELSE IF overlay.revision # task[t].source.revision THEN MutationFailed(t, MovedOn(t))
       ELSE IF GatheredSources(overlay) # task[t].source THEN MutationFailed(t, FALSE)
       ELSE Loaded(t, task[t].source)
    /\ UNCHANGED faults

SourcesUnchanged_Assumed(t) == TRUE

\* commit_update: the proposal was made from these sources and this revision.
SourcesUnchanged(t) == Fingerprint = task[t].prompted.fingerprint

LoadForUpdate(t) ==
    /\ Kind(t) = "update"
    /\ \/ /\ IF overlay.status # "ready" \/ ~SourcesUnchanged(t) THEN MutationFailed(t, FALSE)
             ELSE IF overlay.revision # task[t].prompted.revision THEN MutationFailed(t, MovedOn(t))
             ELSE Loaded(t, GatheredSources(overlay))
          /\ UNCHANGED faults
       \/ Fails /\ MutationFailed(t, FALSE)

Load(t) ==
    /\ task[t].at = "load"
    /\ \/ LoadForPending(t)
       \/ LoadForInitialization(t)
       \/ LoadForReconciliation(t)
       \/ LoadForAdvance(t)
       \/ LoadForUpdate(t)
    /\ UNCHANGED <<threadFrame, overlay, chronicle, landed, crossed>>

\* The snapshot that replaces the one loaded: only recorded work keeps what is
\* pending, every other mutation builds a snapshot without it.
Replacement(t) ==
    LET s == task[t].copy
    IN  CASE Kind(t) = "pending" -> [s EXCEPT !.pending = task[t].key[2]]
          [] Kind(t) = "initialization" -> [s EXCEPT !.status = "ready", !.content = {task[t].key}]
          [] Kind(t) = "update" -> [s EXCEPT !.authority = task[t].source, !.pending = 0,
                                             !.content = @ \cup {task[t].key}]
          [] OTHER -> [s EXCEPT !.authority = task[t].source, !.pending = 0]

RevisionMatches_Assumed(t) == TRUE

\* save_raw under the scope's lock: the revision is the one expected, or the
\* snapshot stays; the new file is renamed over the old one.
RevisionMatches(t) == overlay.revision = task[t].copy.revision

Saves(t, snapshot) ==
    /\ overlay' = [snapshot EXCEPT !.revision = overlay.revision + 1]
    /\ crossed' = (crossed \/ \E o \in Threads \ {t} : task[o].at # "idle")

\* An initialization that lost the race is answered as one already made.
Replace(t) ==
    /\ task[t].at = "replace"
    /\ \/ /\ RevisionMatches(t)
          /\ Saves(t, Replacement(t))
          /\ landed' = landed \cup {task[t].key}
          /\ Goes(t, [task[t] EXCEPT
                 !.at = IF Kind(t) \in {"pending", "initialization"} THEN "completion" ELSE "clearLoad",
                 !.copy = NoSnapshot, !.success = TRUE])
          /\ UNCHANGED <<recorded, faults>>
       \/ /\ \/ ~RevisionMatches(t) /\ UNCHANGED faults
             \/ Fails
          /\ MutationFailed(t, Kind(t) = "initialization" /\ overlay.status = "ready")
          /\ UNCHANGED <<overlay, landed, crossed>>
    /\ UNCHANGED <<threadFrame, chronicle>>

\* clear_pending_work: it loads the snapshot anew and takes its pending work away,
\* whose ever it is; whether that was saved nobody asks.
ClearLoad(t) ==
    /\ task[t].at = "clearLoad"
    /\ Goes(t, [task[t] EXCEPT !.at = "clearReplace", !.copy = overlay])
    /\ UNCHANGED <<threadFrame, overlay, chronicle, landed, recorded, crossed, faults>>

ClearReplace(t) ==
    /\ task[t].at = "clearReplace"
    /\ \/ /\ RevisionMatches(t)
          /\ Saves(t, [task[t].copy EXCEPT !.pending = 0])
          /\ UNCHANGED faults
       \/ /\ ~RevisionMatches(t)
          /\ UNCHANGED <<overlay, crossed, faults>>
       \/ /\ Fails
          /\ UNCHANGED <<overlay, crossed>>
    /\ Goes(t, IF Kind(t) = "pending" THEN Idle
               ELSE [task[t] EXCEPT !.at = "completion", !.copy = NoSnapshot])
    /\ UNCHANGED <<threadFrame, chronicle, landed, recorded>>

\* The mutation is through: its completion is recorded, or the handler answers
\* that it could not be.
WriteCompletion(t) ==
    /\ task[t].at = "completion"
    /\ \/ /\ Appends(CompletionOf(t))
          /\ Goes(t, [task[t] EXCEPT !.at = "index", !.index = IndexWith(CompletionOf(t))])
          /\ UNCHANGED <<recorded, faults>>
       \/ /\ Fails
          /\ Answers(t, FALSE)
          /\ UNCHANGED chronicle
    /\ UNCHANGED <<threadFrame, overlay, landed, crossed>>

IndexCompletion(t) ==
    /\ task[t].at = "index"
    /\ Indexes(t)
    /\ Answers(t, task[t].success)
    /\ UNCHANGED <<threadFrame, overlay, landed, crossed, faults>>

Mutates(t) ==
    \/ Begin(t)
    \/ IndexIntent(t)
    \/ Load(t)
    \/ Replace(t)
    \/ ClearLoad(t)
    \/ ClearReplace(t)
    \/ WriteCompletion(t)
    \/ IndexCompletion(t)

Drives(d) == Plan(d) \/ Prepare(d) \/ Infer(d)

PlotNext ==
    \/ Commit
    \/ Present
    \/ ChangeIssue
    \/ Crash
    \/ \E d \in Drivers : Drives(d)
    \/ \E t \in Threads : Mutates(t)

PlotSpec == PlotInit /\ [][PlotNext]_vars

\* A handler that runs goes on, and rounds keep starting a lifecycle.
FairPlotSpec ==
    /\ PlotSpec
    /\ \A t \in Threads : WF_vars(Mutates(t))
    /\ \A d \in Drivers : WF_vars(Drives(d))

-----------------------------------------------------------------------------
(* Properties *)

\* Two updates never overwrite one another, whatever reads and writes cross
\* (replace_snapshot's compare-and-swap, commit_update's re-check): whatever
\* replaced the snapshot with new cognition is still in it.
NoCognitionLost ==
    overlay.content = {k \in landed : k[1] \in {"initialization", "update"}}

\* What the model was not shown is not marked as assimilated: the authority of
\* an update is what its prompt was made from, whatever the session did since
\* (a librarian's change beside the inference, another thread's update).
AssimilatesWhatWasShown ==
    [][\A d \in Drivers :
          (task[d].at = "replace" /\ Kind(d) = "update" /\ overlay' # overlay
              /\ task'[d].at = "clearLoad")
              => /\ overlay'.authority.fingerprint = task[d].prompted.fingerprint
                 /\ overlay'.content = overlay.content \cup {task[d].key}]_vars

\* As long as handlers do not cross: once the last commit's work was acknowledged,
\* an overlay that is behind it is withheld.
BehindIsWithheld ==
    (recorded /\ ~crossed /\ overlay.status = "ready" /\ overlay.authority # NoSource
        /\ overlay.authority.commit < host.commit)
            => overlay.pending # 0

\* The pending work of a session that commits no more is done one day.
PendingServed == <>[]Fresh

=============================================================================

--------------------------- MODULE EvidenceStore ---------------------------
(***************************************************************************)
(* The store of execution evidence.  A session has one file per attempt,   *)
(* which is the authority, and one index derived from them.  Every call of *)
(* the store is synchronous: the runtime that makes it does nothing else   *)
(* until it returns.  Other runtimes may have the same session open, so a  *)
(* call is a sequence of steps on files, and the index is changed under a  *)
(* lock file that whoever creates it removes.  A runtime may die at any    *)
(* step, and then the lock file stays.                                     *)
(***************************************************************************)
EXTENDS Integers, Sequences, FiniteSets

CONSTANTS
    Runtimes,       \* the processes that have the session open
    Jobs,           \* the semantic jobs; each has the attempts 0 .. MaxTries
    MaxTries,       \* bound: inferences of one job
    Tags,           \* the audit tags that may be made
    None,           \* null
    MaxFaults       \* bound: deaths of runtimes

ASSUME EvidenceAssumption ==
    /\ MaxTries \in Nat \ {0}
    /\ MaxFaults \in Nat
    /\ None \notin Runtimes \cup Jobs \cup Tags
    /\ Jobs \cap Tags = {}
    /\ {"free", "abandoned"} \cap Runtimes = {}

VARIABLES
    attempts,       \* attempts/<evidence_id>.json
    index,          \* index.json
    lock,           \* .index-write.lock: who created it, "free" or "abandoned"
    call,           \* what each runtime is doing
    thrown,         \* the callers whose call threw
    faults          \* counter that bounds the model

storeVars == <<attempts, index, lock, call, thrown, faults>>

Ids == Jobs \X (0 .. MaxTries)
Callers == Jobs \cup Tags

\* The conditional_job envelope of a job.
Envelopes == [job : Jobs, refs : SUBSET Ids, closed : {"open", "succeeded", "failed"}]

\* "upstream" stands for the attempt of another job that this one builds upon, and
\* "parent" for a correlation with a parent_inference_id.  "error" and "lineage" are
\* what its decision says of its structure and of the correction.
Attempts ==
    [kind : {"upstream", "primary", "correction"},
     parent : BOOLEAN,
     job : Jobs \cup {None},
     canonical : Ids \cup {None},
     envelope : Envelopes \cup {None},
     link : Ids \cup {None},
     error : BOOLEAN,
     lineage : {"none", "clean", "error"},
     structural : {"unknown", "valid", "invalid"},
     recovery : {"none", "attempted", "recovered", "unrecovered"}]

\* "scopes" are the tags whose forensic scope is indexed; "invalid" and "recovered" what
\* inference_health counts.
Indexes ==
    [listed : SUBSET Ids,
     jobs : [Jobs -> [canonical : Ids \cup {None}, attempts : SUBSET Ids]],
     scopes : SUBSET Tags,
     invalid : SUBSET Ids,
     recovered : SUBSET Ids]

ASSUME NoneIsNoData ==
    /\ None \notin Ids
    /\ None \notin Envelopes
    /\ None \notin Attempts
    /\ None \notin Indexes

EmptyIndex ==
    [listed |-> {},
     jobs |-> [j \in Jobs |-> [canonical |-> None, attempts |-> {}]],
     scopes |-> {}, invalid |-> {}, recovered |-> {}]

Phases == {"file", "lock", "index", "unlock"}

NoCall == [todo |-> <<>>, phase |-> "file", view |-> None, caller |-> None]

StoreTypeOK ==
    /\ attempts \in [Ids -> Attempts \cup {None}]
    /\ index \in Indexes
    /\ lock \in Runtimes \cup {"free", "abandoned"}
    /\ \A r \in Runtimes :
        /\ call[r].phase \in Phases
        /\ call[r].view \in Indexes \cup {None}
        /\ call[r].caller \in Callers \cup {None}
    /\ thrown \in SUBSET Callers
    /\ faults \in 0 .. MaxFaults

StoreInit ==
    /\ attempts = [id \in Ids |-> None]
    /\ index = EmptyIndex
    /\ lock = "free"
    /\ call = [r \in Runtimes |-> NoCall]
    /\ thrown = {}
    /\ faults = 0

-----------------------------------------------------------------------------
(* Inference health, derived from an attempt *)

\* A correction is judged by its own result, a primary by its own or by what the
\* lineage says of it; what nothing is said of keeps what it had.
Structural(a) ==
    CASE a.kind = "correction" /\ a.lineage = "error" -> "invalid"
      [] a.kind = "correction" /\ a.lineage = "clean" -> "valid"
      [] a.kind # "correction" /\ (a.error \/ a.lineage # "none") -> "invalid"
      [] OTHER -> a.structural

Recovery(a) ==
    CASE a.lineage = "clean" -> "recovered"
      [] a.lineage = "error" -> "unrecovered"
      [] a.lineage = "none" /\ (a.kind = "correction" \/ a.parent) -> "attempted"
      [] OTHER -> a.recovery

WithHealth(a) == [a EXCEPT !.structural = Structural(a), !.recovery = Recovery(a)]

IsRecoveredPrimaryFailure(a) ==
    /\ a.recovery = "recovered"
    /\ a.kind # "correction"
    /\ ~a.parent
    /\ a.structural = "invalid"

\* Counted anew from the files of the attempts that are listed.
HealthIndexed(ix) ==
    LET read == {id \in ix.listed : attempts[id] # None}
    IN  [ix EXCEPT !.invalid = {id \in read : attempts[id].structural = "invalid"},
                   !.recovered = {id \in read : IsRecoveredPrimaryFailure(attempts[id])}]

-----------------------------------------------------------------------------
(* The changes of the index *)

JobIndexed(ix, id, a) ==
    LET canonical == IF a.envelope # None THEN id ELSE a.canonical
    IN  IF a.job = None /\ a.envelope = None THEN ix
        ELSE LET j == IF a.envelope # None THEN a.envelope.job ELSE a.job
             IN  [ix EXCEPT
                    !.jobs[j].canonical = IF canonical # None THEN canonical ELSE @,
                    !.jobs[j].attempts = @ \cup {id}]

AttemptIndexed(ix, id) ==
    HealthIndexed(JobIndexed([ix EXCEPT !.listed = @ \cup {id}], id, attempts[id]))

DecisionIndexed_HealthKept(ix, id) == JobIndexed(ix, id, attempts[id])

DecisionIndexed(ix, id) == HealthIndexed(JobIndexed(ix, id, attempts[id]))

JobRegistered(ix, j, canonical, id) ==
    [ix EXCEPT !.jobs[j] = [canonical |-> canonical, attempts |-> @.attempts \cup {id}]]

\* The health is derived again from the attempts the index lists; the scopes of the
\* tags are emptied, and the jobs left as they are.
Rebuilt(ix) == HealthIndexed([ix EXCEPT !.scopes = {}])

Mutated(ix, step) ==
    CASE step.op = "write" -> AttemptIndexed(ix, step.id)
      [] step.op = "patch" -> DecisionIndexed(ix, step.id)
      [] step.op = "register" -> JobRegistered(ix, step.job, step.canonical, step.id)
      [] step.op = "scope" -> [ix EXCEPT !.scopes = @ \cup {step.tag}]
      [] step.op = "rebuild" -> Rebuilt(ix)

-----------------------------------------------------------------------------
(* The steps of a call *)

Write(id, a) == [op |-> "write", id |-> id, attempt |-> WithHealth(a)]
Patch(id, change) == [op |-> "patch", id |-> id, change |-> change]
Register(j, canonical, id) == [op |-> "register", job |-> j, canonical |-> canonical, id |-> id]
Scope(tag) == [op |-> "scope", tag |-> tag]

FileOps == {"write", "patch"}
IndexOps == FileOps \cup {"register", "scope", "rebuild"}

\* A call that writes no attempt starts with the lock of the index.
FirstPhase(step) == IF step.op \in IndexOps \ FileOps THEN "lock" ELSE "file"

Waits(r) == call[r].todo = <<>>

\* A runtime whose thread is free makes these calls, one after the other.
Calls(r, caller, steps) ==
    /\ Waits(r)
    /\ call' = [call EXCEPT ![r] = [todo |-> steps, phase |-> FirstPhase(Head(steps)),
                                    view |-> None, caller |-> caller]]

Step(r) == Head(call[r].todo)

At(r, phase, ops) ==
    /\ ~Waits(r)
    /\ Step(r).op \in ops
    /\ call[r].phase = phase

Turns(r, phase) == call' = [call EXCEPT ![r].phase = phase]

Continues(r) ==
    LET rest == Tail(call[r].todo)
    IN  call' = [call EXCEPT ![r] =
                    IF rest = <<>> THEN NoCall
                    ELSE [@ EXCEPT !.todo = rest, !.phase = FirstPhase(Head(rest))]]

WriteFile(r) ==
    /\ At(r, "file", {"write"})
    /\ attempts' = [attempts EXCEPT ![Step(r).id] = Step(r).attempt]
    /\ Turns(r, "lock")
    /\ UNCHANGED <<index, lock, thrown, faults>>

\* A patch is laid over what the file holds; without a file there is nothing to do.
PatchFile(r) ==
    /\ At(r, "file", {"patch"})
    /\ LET a == attempts[Step(r).id] change == Step(r).change
       IN  IF a = None
           THEN Continues(r) /\ UNCHANGED attempts
           ELSE /\ attempts' = [attempts EXCEPT ![Step(r).id] =
                        WithHealth([f \in DOMAIN a |-> IF f \in DOMAIN change THEN change[f]
                                                       ELSE a[f]])]
                /\ Turns(r, "lock")
    /\ UNCHANGED <<index, lock, thrown, faults>>

LockIsFree == lock = "free"

TakeLock(r) ==
    /\ At(r, "lock", IndexOps)
    /\ LockIsFree
    /\ lock' = r
    /\ call' = [call EXCEPT ![r].phase = "index", ![r].view = index]
    /\ UNCHANGED <<attempts, index, thrown, faults>>

\* The lock file has been there for ten seconds.
TimesOut(r) == lock # "free"

\* The call throws, except when a tag's scope is indexed, which may fail.
LockTimeout(r) ==
    /\ At(r, "lock", IndexOps)
    /\ TimesOut(r)
    /\ IF Step(r).op = "scope"
       THEN Continues(r) /\ UNCHANGED thrown
       ELSE /\ call' = [call EXCEPT ![r] = NoCall]
            /\ thrown' = thrown \cup ({call[r].caller} \ {None})
    /\ UNCHANGED <<attempts, index, lock, faults>>

WriteIndex(r) ==
    /\ At(r, "index", IndexOps)
    /\ index' = Mutated(call[r].view, Step(r))
    /\ call' = [call EXCEPT ![r].phase = "unlock", ![r].view = None]
    /\ UNCHANGED <<attempts, lock, thrown, faults>>

ReleaseLock(r) ==
    /\ At(r, "unlock", IndexOps)
    /\ lock' = "free"
    /\ Continues(r)
    /\ UNCHANGED <<attempts, index, thrown, faults>>

StoreStep(r) ==
    \/ WriteFile(r)
    \/ PatchFile(r)
    \/ TakeLock(r)
    \/ LockTimeout(r)
    \/ WriteIndex(r)
    \/ ReleaseLock(r)

\* The maintenance of the derived indexes.
Rebuild(r) ==
    /\ index.listed # {}
    /\ Calls(r, None, <<[op |-> "rebuild"]>>)
    /\ UNCHANGED <<attempts, index, lock, thrown, faults>>

\* The process dies: whatever it has written stays, and so does the lock file.
StoreDies(r) ==
    /\ faults < MaxFaults
    /\ faults' = faults + 1
    /\ call' = [call EXCEPT ![r] = NoCall]
    /\ lock' = IF lock = r THEN "abandoned" ELSE lock
    /\ UNCHANGED <<attempts, index, thrown>>
=============================================================================

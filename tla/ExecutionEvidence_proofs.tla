---------------------- MODULE ExecutionEvidence_proofs ----------------------
(***************************************************************************)
(* The evidence of a session stays usable for any number of runtimes,      *)
(* jobs, attempts, tags and deaths of runtimes: a canonical attempt found  *)
(* in the index carries the envelope of its job, the health that is        *)
(* indexed is current between the calls, and an entry has one tag.  A call *)
(* is described by the steps it still has to make.                         *)
(***************************************************************************)
EXTENDS ExecutionEvidence, SequenceTheorems, TLAPS

Kinds == {"open", "succeeded", "failed"}
Verdicts == {"none", "clean", "error"}

IdsOf(j) == {j} \X (0 .. MaxTries)
EnvelopesOf(j) == [job : {j}, refs : SUBSET Ids, closed : Kinds]

Enveloped(id) == attempts[id] # None /\ attempts[id].envelope # None

\* The attempts of a job that a reader may take for its canonical one.
Canonicals(j) == {id \in IdsOf(j) : Enveloped(id)}

AttemptOf(a, j) ==
    /\ a \in Attempts
    /\ a.job \in {j, None}
    /\ a.canonical \in Canonicals(j) \cup {None}
    /\ a.envelope \in EnvelopesOf(j) \cup {None}

\* An attempt says nothing of another job, and calls canonical only what is.
FilesOK ==
    /\ attempts \in [Ids -> Attempts \cup {None}]
    /\ \A j \in Jobs : \A id \in IdsOf(j) :
          attempts[id] # None => AttemptOf(attempts[id], j)

IndexOK ==
    /\ index \in Indexes
    /\ \A j \in Jobs : index.jobs[j].canonical \in Canonicals(j) \cup {None}

-----------------------------------------------------------------------------
(* The calls *)

ChangesOf(j, canonicals) ==
    [envelope : EnvelopesOf(j)] \cup [job : {j}, canonical : canonicals] \cup [link : Ids]
    \cup [error : BOOLEAN] \cup [lineage : Verdicts] \cup [error : BOOLEAN, lineage : Verdicts]

PatchesOf(j, canonicals) ==
    [op : {"patch"}, id : IdsOf(j), change : ChangesOf(j, canonicals)]

RegistersOf(j, canonicals) ==
    [op : {"register"}, job : {j}, canonical : canonicals, id : IdsOf(j)]

\* What a lane asks of the store of attempts that are there.
StepsOf(j, canonicals) == PatchesOf(j, canonicals) \cup RegistersOf(j, canonicals)

CallOf(r, j) == call[r].caller = j /\ RuntimeOf[j] = r

\* An attempt is recorded, where none is.
Writing(r, j) ==
    /\ CallOf(r, j)
    /\ call[r].todo = <<Step(r)>>
    /\ Step(r) \in [op : {"write"}, id : IdsOf(j), attempt : Attempts]
    /\ AttemptOf(Step(r).attempt, j)
    /\ call[r].phase = "file" <=> attempts[Step(r).id] = None

\* Attempts are linked to a canonical attempt that has its envelope.
Linking(r, j) ==
    /\ CallOf(r, j)
    /\ call[r].todo \in Seq(StepsOf(j, Canonicals(j))) /\ call[r].todo # <<>>
    /\ call[r].phase # "file" /\ Step(r).op = "patch" => attempts[Step(r).id] # None

\* The envelope is put on an attempt, and what follows calls it canonical.
Establishing(r, j) ==
    /\ CallOf(r, j)
    /\ call[r].phase = "file" /\ call[r].todo # <<>>
    /\ Step(r) \in [op : {"patch"}, id : IdsOf(j), change : [envelope : EnvelopesOf(j)]]
    /\ attempts[Step(r).id] # None
    /\ Tail(call[r].todo) \in Seq(StepsOf(j, Canonicals(j) \cup {Step(r).id}))

Rebuilding(r) == call[r].caller = None /\ call[r].todo = <<[op |-> "rebuild"]>>

Making(t) ==
    {<<[op |-> "number"], Scope(t), [op |-> "tag"], [op |-> "list"]>>,
     <<Scope(t), [op |-> "tag"], [op |-> "list"]>>,
     <<[op |-> "tag"], [op |-> "list"]>>, <<[op |-> "list"]>>}

Deleting == {<<[op |-> "unlink"], [op |-> "unlist"]>>, <<[op |-> "unlist"]>>}

Tagging(r, t) ==
    /\ r = TagRuntime /\ call[r].caller = t
    /\ call[r].todo \in Making(t) \cup Deleting
    /\ Step(r).op # "scope" => call[r].phase = "file"

CallOK(r) ==
    /\ call[r].todo = <<>> => call[r] = NoCall
    /\ \/ call[r] = NoCall
       \/ \E j \in Jobs : Writing(r, j) \/ Linking(r, j) \/ Establishing(r, j)
       \/ Rebuilding(r)
       \/ \E t \in Tags : Tagging(r, t)

AnySteps ==
    [op : {"write"}, id : Ids, attempt : Attempts]
    \cup (UNION {StepsOf(j, IdsOf(j)) : j \in Jobs})
    \cup {Scope(t) : t \in Tags}
    \cup [op : {"rebuild", "number", "tag", "list", "unlink", "unlist"}]

CallSet ==
    [todo : Seq(AnySteps), phase : Phases, view : Indexes \cup {None},
     caller : Callers \cup {None}]

CallsOK == call \in [Runtimes -> CallSet] /\ \A r \in Runtimes : CallOK(r)

\* Who has the lock changes the index as it found it, and nobody else does.
LockOK ==
    /\ lock \in Runtimes \cup {"free", "abandoned"}
    /\ \A r \in Runtimes :
          /\ lock = r <=> call[r].phase \in {"index", "unlock"}
          /\ call[r].phase = "index" => call[r].view = index

-----------------------------------------------------------------------------
(* The lanes *)

Live(j) == lane[j].stage \notin {"idle", "done", "dead"}

Pending(j, id) ==
    LET r == RuntimeOf[j]
    IN  call[r].caller = j /\ call[r].phase = "file" /\ call[r].todo # <<>> /\ Step(r).id = id

Recording(j, n) == Pending(j, <<j, n>>) /\ Step(RuntimeOf[j]).op = "write"

LaneTyped(j) ==
    /\ lane[j].canonical \in IdsOf(j) \cup {None}
    /\ lane[j].envelope \in EnvelopesOf(j)
    /\ lane[j].stage = "idle" => lane[j] = NewLane(j)
    /\ lane[j].stage \in {"inferred", "joined", "closing"} => lane[j].tries > 0
    /\ lane[j].stage \in {"joined", "closing"} => lane[j].canonical # None

LaneFiled(j) ==
    /\ \A n \in 0 .. MaxTries :
          attempts[<<j, n>>] # None \/ Recording(j, n) =>
              lane[j].stage # "idle" /\ n <= lane[j].tries
    /\ Live(j) => \A n \in 1 .. lane[j].tries :
          attempts[<<j, n>>] # None \/ Recording(j, n)
    /\ Live(j) /\ lane[j].canonical # None =>
          \/ lane[j].canonical \in Canonicals(j)
          \/ Pending(j, lane[j].canonical) /\ Establishing(RuntimeOf[j], j)

LanesOK == lane \in [Jobs -> Lanes] /\ \A j \in Jobs : LaneTyped(j) /\ LaneFiled(j)

-----------------------------------------------------------------------------
(* The health and the tags *)

\* Whoever changed an attempt is going to derive the health again.
Refreshing(r) ==
    call[r].phase \in {"lock", "index"} /\ call[r].todo # <<>> /\ Step(r).op \in FileOps

HealthOK ==
    /\ thrown \in SUBSET Callers /\ faults \in Nat
    /\ thrown = {} /\ faults = 0 =>
          index = HealthIndexed(index) \/ \E r \in Runtimes : Refreshing(r)

TagIndexes == [next : Nat, ids : SUBSET Tags, byEntry : [Entries -> Tags \cup {None}]]

Rivals(t) == {o \in tagIndex.ids : EntryOf[o] = EntryOf[t] /\ tagFile[o] # None} \ {t}

\* A tag with a file is the one of its entry; while one is made there is no other.
TagsOK ==
    /\ tagIndex \in TagIndexes
    /\ DOMAIN tagFile = Tags /\ DOMAIN request = Tags
    /\ \A t \in Tags : "stage" \in DOMAIN request[t]
    /\ \A t \in tagIndex.ids :
          /\ request[t].stage \in {"made", "deleting", "deleted", "dead"}
          /\ tagFile[t] # None => tagIndex.byEntry[EntryOf[t]] = t
    /\ \A t \in Tags :
          call[TagRuntime].caller = t /\ call[TagRuntime].todo \in Making(t) =>
              request[t].stage = "making" /\ Rivals(t) = {}

EvidenceInv ==
    /\ FilesOK /\ IndexOK /\ CallsOK /\ LockOK /\ LanesOK /\ HealthOK /\ TagsOK

-----------------------------------------------------------------------------
(* The data *)

\* The identities of two jobs are different, and null is none of them.
LEMMA IdsApart ==
    /\ \A j \in Jobs : IdsOf(j) \subseteq Ids /\ None \notin IdsOf(j)
    /\ \A j, k \in Jobs : j # k => IdsOf(j) \cap IdsOf(k) = {}
    /\ \A id \in Ids : \E j \in Jobs : id \in IdsOf(j)
    /\ \A j \in Jobs, n \in 0 .. MaxTries : <<j, n>> \in IdsOf(j)
    /\ \A j \in Jobs : \A id \in IdsOf(j) : \E n \in 0 .. MaxTries : id = <<j, n>>
    /\ 0 \in 0 .. MaxTries /\ 1 \in 0 .. MaxTries
<1>1. \A j \in Jobs : IdsOf(j) \subseteq Ids
    BY DEF IdsOf, Ids
<1>2. None \notin Ids
    BY NoneIsNoData
<1>3. MaxTries \in Nat \ {0}
    BY EvidenceAssumption
<1> QED
    BY <1>1, <1>2, <1>3 DEF IdsOf, Ids

\* Null is no envelope.
LEMMA EnvelopesApart ==
    \A j \in Jobs : EnvelopesOf(j) \subseteq Envelopes /\ None \notin EnvelopesOf(j)
<1>1. \A j \in Jobs : EnvelopesOf(j) \subseteq Envelopes
    BY DEF EnvelopesOf, Envelopes, Kinds
<1> QED
    BY <1>1, NoneIsNoData

\* What may be asked grows with the canonical attempts.
LEMMA StepsGrow ==
    ASSUME NEW j, NEW C, NEW D, C \subseteq D
    PROVE  Seq(StepsOf(j, C)) \subseteq Seq(StepsOf(j, D))
<1>1. ChangesOf(j, C) \subseteq ChangesOf(j, D)
    BY DEF ChangesOf
<1>2. StepsOf(j, C) \subseteq StepsOf(j, D)
    BY <1>1 DEF StepsOf, PatchesOf, RegistersOf
<1> QED
    BY <1>2

\* Health changes nothing else of an attempt.
LEMMA HealthTyped ==
    ASSUME NEW a \in Attempts
    PROVE  /\ WithHealth(a) \in Attempts
           /\ WithHealth(a).job = a.job
           /\ WithHealth(a).canonical = a.canonical
           /\ WithHealth(a).envelope = a.envelope
<1>1. Structural(a) \in {"unknown", "valid", "invalid"}
    BY DEF Structural, Attempts
<1>2. Recovery(a) \in {"none", "attempted", "recovered", "unrecovered"}
    BY DEF Recovery, Attempts
<1> QED
    BY <1>1, <1>2 DEF WithHealth, Attempts

\* An attempt with a change laid over it.
Overlaid(a, change) ==
    WithHealth([f \in DOMAIN a |-> IF f \in DOMAIN change THEN change[f] ELSE a[f]])

\* A patched attempt is one of its job, and keeps an envelope it has.
LEMMA PatchTyped ==
    ASSUME NEW j \in Jobs, NEW a, AttemptOf(a, j), NEW change \in ChangesOf(j, Canonicals(j))
    PROVE  /\ AttemptOf(Overlaid(a, change), j)
           /\ a.envelope # None => Overlaid(a, change).envelope # None
           /\ change \in [envelope : EnvelopesOf(j)] => Overlaid(a, change).envelope # None
<1> DEFINE laid == [f \in DOMAIN a |-> IF f \in DOMAIN change THEN change[f] ELSE a[f]]
<1>1. a \in Attempts /\ DOMAIN a = {"kind", "parent", "job", "canonical", "envelope", "link",
                                    "error", "lineage", "structural", "recovery"}
    BY DEF AttemptOf, Attempts
<1>2. SUFFICES /\ AttemptOf(laid, j)
               /\ a.envelope # None => laid.envelope # None
               /\ change \in [envelope : EnvelopesOf(j)] => laid.envelope # None
    <2>1. laid \in Attempts => WithHealth(laid) \in Attempts /\ WithHealth(laid).job = laid.job
            /\ WithHealth(laid).canonical = laid.canonical
            /\ WithHealth(laid).envelope = laid.envelope
        BY HealthTyped
    <2> QED
        BY <2>1 DEF AttemptOf, Overlaid
<1>3. CASE change \in [envelope : EnvelopesOf(j)]
    <2>1. laid = [a EXCEPT !.envelope = change.envelope]
        BY <1>1, <1>3
    <2> QED
        BY <1>1, <1>3, <2>1, EnvelopesApart DEF AttemptOf, Attempts
<1>4. CASE change \in [job : {j}, canonical : Canonicals(j)]
    <2>1. laid = [a EXCEPT !.job = change.job, !.canonical = change.canonical]
        BY <1>1, <1>4
    <2>2. Canonicals(j) \subseteq Ids
        BY IdsApart DEF Canonicals
    <2>3. "envelope" \notin DOMAIN change
        BY <1>4
    <2> QED
        BY <1>1, <1>4, <2>1, <2>2, <2>3 DEF AttemptOf, Attempts
<1>5. CASE change \in [link : Ids]
    <2>1. laid = [a EXCEPT !.link = change.link]
        BY <1>1, <1>5
    <2>3. "envelope" \notin DOMAIN change
        BY <1>5
    <2> QED
        BY <1>1, <1>5, <2>1, <2>3 DEF AttemptOf, Attempts
<1>6. CASE change \in [error : BOOLEAN]
    <2>1. laid = [a EXCEPT !.error = change.error]
        BY <1>1, <1>6
    <2>3. "envelope" \notin DOMAIN change
        BY <1>6
    <2> QED
        BY <1>1, <1>6, <2>1, <2>3 DEF AttemptOf, Attempts
<1>7. CASE change \in [lineage : Verdicts]
    <2>1. laid = [a EXCEPT !.lineage = change.lineage]
        BY <1>1, <1>7
    <2>3. "envelope" \notin DOMAIN change
        BY <1>7
    <2> QED
        BY <1>1, <1>7, <2>1, <2>3 DEF AttemptOf, Attempts, Verdicts
<1>8. CASE change \in [error : BOOLEAN, lineage : Verdicts]
    <2>1. laid = [a EXCEPT !.error = change.error, !.lineage = change.lineage]
        BY <1>1, <1>8
    <2>3. "envelope" \notin DOMAIN change
        BY <1>8
    <2> QED
        BY <1>1, <1>8, <2>1, <2>3 DEF AttemptOf, Attempts, Verdicts
<1> QED
    BY <1>3, <1>4, <1>5, <1>6, <1>7, <1>8 DEF ChangesOf

-----------------------------------------------------------------------------
(* The calls, step by step *)

\* What a step is tells what the call is.
LEMMA StepShape ==
    ASSUME CallsOK, NEW r \in Runtimes, ~Waits(r)
    PROVE  /\ Step(r).op = "write" => \E j \in Jobs : Writing(r, j)
           /\ Step(r).op = "patch" => \E j \in Jobs : Linking(r, j) \/ Establishing(r, j)
           /\ Step(r).op = "register" => \E j \in Jobs : Linking(r, j)
           /\ Step(r).op = "rebuild" => Rebuilding(r)
           /\ Step(r).op \notin FileOps \cup {"register", "rebuild"} =>
                \E t \in Tags : Tagging(r, t)
<1>1. call[r] # NoCall /\ call[r] \in CallSet
    BY DEF Waits, NoCall, CallsOK
<1>2. ASSUME NEW j \in Jobs, Writing(r, j) PROVE Step(r).op = "write"
    BY <1>2 DEF Writing
<1>3. ASSUME NEW j \in Jobs, Linking(r, j) PROVE Step(r).op \in {"patch", "register"}
    <2>1. Step(r) \in StepsOf(j, Canonicals(j))
        BY <1>3 DEF Linking, Step
    <2> QED
        BY <2>1 DEF StepsOf, PatchesOf, RegistersOf
<1>4. ASSUME NEW j \in Jobs, Establishing(r, j) PROVE Step(r).op = "patch"
    BY <1>4 DEF Establishing
<1>5. ASSUME Rebuilding(r) PROVE Step(r).op = "rebuild"
    BY <1>5 DEF Rebuilding, Step
<1>6. ASSUME NEW t \in Tags, Tagging(r, t)
      PROVE  Step(r).op \in {"number", "scope", "tag", "list", "unlink", "unlist"}
    BY <1>6 DEF Tagging, Making, Deleting, Step, Scope
<1> QED
    BY <1>1, <1>2, <1>3, <1>4, <1>5, <1>6 DEF CallsOK, CallOK, FileOps

\* A call that another runtime makes stays what it is when attempts are added, or
\* get envelopes, that are not of its job.
LEMMA CallKept ==
    ASSUME NEW q \in Runtimes, CallOK(q), call'[q] = call[q],
           \A id \in Ids : attempts[id] # None => attempts'[id] # None,
           \A j \in Jobs : Canonicals(j) \subseteq Canonicals(j)',
           \A j \in Jobs : RuntimeOf[j] = q =>
               \A id \in IdsOf(j) : attempts'[id] = attempts[id]
    PROVE  CallOK(q)'
<1>1. ASSUME NEW j \in Jobs, Writing(q, j) PROVE Writing(q, j)'
    <2>1. AttemptOf(Step(q).attempt, j)'
        BY <1>1 DEF Writing, AttemptOf, Step
    <2> QED
        BY <1>1, <2>1 DEF Writing, CallOf, Step
<1>2. ASSUME NEW j \in Jobs, Linking(q, j) PROVE Linking(q, j)'
    <2>1. call[q].todo \in Seq(StepsOf(j, Canonicals(j)'))
        BY <1>2, StepsGrow DEF Linking
    <2>2. StepsOf(j, Canonicals(j)') = StepsOf(j, Canonicals(j))'
        BY DEF StepsOf, PatchesOf, RegistersOf, ChangesOf
    <2>3. Step(q) \in StepsOf(j, Canonicals(j))
        BY <1>2 DEF Linking, Step
    <2>4. Step(q).op = "patch" => Step(q).id \in Ids
        BY <2>3, IdsApart DEF StepsOf, PatchesOf, RegistersOf
    <2> QED
        BY <1>2, <2>1, <2>2, <2>4 DEF Linking, CallOf, Step
<1>3. ASSUME NEW j \in Jobs, Establishing(q, j) PROVE Establishing(q, j)'
    <2>1. Tail(call[q].todo) \in Seq(StepsOf(j, Canonicals(j)' \cup {Step(q).id}))
        BY <1>3, StepsGrow DEF Establishing
    <2>2. StepsOf(j, Canonicals(j)' \cup {Step(q).id})
            = StepsOf(j, Canonicals(j) \cup {Step(q).id})'
        BY DEF StepsOf, PatchesOf, RegistersOf, ChangesOf, Step
    <2>4. Step(q).id \in Ids
        BY <1>3, IdsApart DEF Establishing
    <2> QED
        BY <1>3, <2>1, <2>2, <2>4 DEF Establishing, CallOf, Step
<1>4. Rebuilding(q) => Rebuilding(q)'
    BY DEF Rebuilding
<1>5. ASSUME NEW t \in Tags, Tagging(q, t) PROVE Tagging(q, t)'
    BY <1>5 DEF Tagging, Step
<1> QED
    BY <1>1, <1>2, <1>3, <1>4, <1>5 DEF CallOK

\* A call of the index that goes through its phases stays what it is.
LEMMA CallTurns ==
    ASSUME CallsOK, NEW r \in Runtimes, ~Waits(r), call[r].phase # "file",
           NEW phase \in Phases \ {"file"}, NEW view \in Indexes \cup {None},
           call' = [call EXCEPT ![r] = [@ EXCEPT !.phase = phase, !.view = view]],
           attempts' = attempts
    PROVE  CallsOK'
<1>1. call[r] \in CallSet
    BY DEF CallsOK
<1>2. call'[r].todo = call[r].todo /\ call'[r].caller = call[r].caller
      /\ call'[r].phase = phase /\ Step(r)' = Step(r)
    BY <1>1 DEF CallsOK, CallSet, Step
<1>3. \A j \in Jobs : Canonicals(j)' = Canonicals(j)
    BY DEF Canonicals, Enveloped
<1>4. ASSUME NEW j \in Jobs, Writing(r, j) PROVE Writing(r, j)'
    BY <1>2, <1>3, <1>4 DEF Writing, CallOf, AttemptOf
<1>5. ASSUME NEW j \in Jobs, Linking(r, j) PROVE Linking(r, j)'
    <2>1. StepsOf(j, Canonicals(j))' = StepsOf(j, Canonicals(j))
        BY <1>3 DEF StepsOf, PatchesOf, RegistersOf, ChangesOf
    <2> QED
        BY <1>2, <1>5, <2>1 DEF Linking, CallOf
<1>6. ASSUME NEW j \in Jobs PROVE ~Establishing(r, j)
    BY DEF Establishing
<1>7. Rebuilding(r) => Rebuilding(r)'
    BY <1>2 DEF Rebuilding
<1>8. ASSUME NEW t \in Tags, Tagging(r, t) PROVE Tagging(r, t)'
    BY <1>2, <1>8 DEF Tagging
<1>9. CallOK(r)'
    <2>1. call[r] # NoCall
        BY DEF Waits, NoCall
    <2>2. \/ \E j \in Jobs : Writing(r, j) \/ Linking(r, j)
          \/ Rebuilding(r)
          \/ \E t \in Tags : Tagging(r, t)
        BY <1>6, <2>1 DEF CallsOK, CallOK
    <2>3. call'[r].todo # <<>>
        BY <1>2 DEF Waits
    <2> QED
        BY <1>4, <1>5, <1>7, <1>8, <2>2, <2>3 DEF CallOK
<1>10. ASSUME NEW q \in Runtimes, q # r PROVE CallOK(q)'
    BY <1>3, <1>10, CallKept DEF CallsOK
<1>11. call' \in [Runtimes -> CallSet]
    BY <1>1 DEF CallsOK, CallSet
<1> QED
    BY <1>9, <1>10, <1>11 DEF CallsOK

\* The rest of a sequence of tag steps.
LEMMA TagRest ==
    ASSUME NEW t, NEW todo \in Making(t) \cup Deleting
    PROVE  /\ Tail(todo) # <<>> => Tail(todo) \in Making(t) \cup Deleting
           /\ Tail(todo) # <<>> /\ todo \in Deleting => Tail(todo) \notin UNION {Making(o) : o \in Tags}
           /\ Tail(todo) # <<>> =>
                FirstPhase(Head(Tail(todo))) = IF Head(Tail(todo)).op = "scope" THEN "lock" ELSE "file"
<1>1. CASE todo = <<[op |-> "number"], Scope(t), [op |-> "tag"], [op |-> "list"]>>
    BY <1>1 DEF Making, Deleting, FirstPhase, IndexOps, FileOps, Scope
<1>2. CASE todo = <<Scope(t), [op |-> "tag"], [op |-> "list"]>>
    BY <1>2 DEF Making, Deleting, FirstPhase, IndexOps, FileOps, Scope
<1>3. CASE todo = <<[op |-> "tag"], [op |-> "list"]>>
    BY <1>3 DEF Making, Deleting, FirstPhase, IndexOps, FileOps, Scope
<1>4. CASE todo = <<[op |-> "list"]>>
    BY <1>4
<1>5. CASE todo = <<[op |-> "unlink"], [op |-> "unlist"]>>
    BY <1>5 DEF Making, Deleting, FirstPhase, IndexOps, FileOps, Scope
<1>6. CASE todo = <<[op |-> "unlist"]>>
    BY <1>6
<1> QED
    BY <1>1, <1>2, <1>3, <1>4, <1>5, <1>6 DEF Making, Deleting

\* What remains of a call when a step of it is done.
LEMMA CallContinues ==
    ASSUME CallsOK, NEW r \in Runtimes, ~Waits(r), Continues(r), attempts' = attempts,
           \A j \in Jobs : ~Establishing(r, j)
    PROVE  CallsOK'
<1> DEFINE rest == Tail(call[r].todo)
<1>1. call[r] \in CallSet /\ call[r].todo # <<>> /\ rest \in Seq(AnySteps)
    BY DEF CallsOK, CallSet, Waits
<1>2. NoCall \in CallSet
    BY DEF CallSet, NoCall, Phases
<1>3. \A j \in Jobs : Canonicals(j)' = Canonicals(j)
    BY DEF Canonicals, Enveloped
<1>4. CASE rest = <<>>
    <2>1. call' = [call EXCEPT ![r] = NoCall]
        BY <1>4 DEF Continues
    <2>2. CallOK(r)'
        BY <2>1 DEF CallOK, CallsOK
    <2> QED
        BY <1>2, <1>3, <2>1, <2>2, CallKept DEF CallsOK
<1>5. CASE rest # <<>>
    <2>1. call' = [call EXCEPT ![r] = [@ EXCEPT !.todo = rest, !.phase = FirstPhase(Head(rest))]]
        BY <1>5 DEF Continues
    <2>2. FirstPhase(Head(rest)) \in {"file", "lock"}
        BY DEF FirstPhase
    <2>3. call' \in [Runtimes -> CallSet] /\ call'[r].todo = rest
          /\ call'[r].phase = FirstPhase(Head(rest)) /\ call'[r].caller = call[r].caller
        BY <1>1, <2>1, <2>2 DEF CallsOK, CallSet, Phases
    <2>4. ASSUME NEW j \in Jobs, Linking(r, j) PROVE Linking(r, j)'
        <3>1. rest \in Seq(StepsOf(j, Canonicals(j)))
            BY <2>4 DEF Linking
        <3>2. StepsOf(j, Canonicals(j))' = StepsOf(j, Canonicals(j))
            BY <1>3 DEF StepsOf, PatchesOf, RegistersOf, ChangesOf
        <3>3. Step(r)' = Head(rest)
            BY <2>3 DEF Step
        <3>4. Head(rest).op = "patch" => FirstPhase(Head(rest)) = "file"
            BY DEF FirstPhase, IndexOps, FileOps
        <3> QED
            BY <1>5, <2>3, <2>4, <3>1, <3>2, <3>3, <3>4 DEF Linking, CallOf
    <2>10. \A x : Tail(<<x>>) = <<>>
        OBVIOUS
    <2>5. ASSUME NEW j \in Jobs PROVE ~Writing(r, j)
        BY <1>5, <2>10 DEF Writing
    <2>6. ~Rebuilding(r)
        BY <1>5, <2>10 DEF Rebuilding
    <2>7. ASSUME NEW t \in Tags, Tagging(r, t) PROVE Tagging(r, t)'
        BY <1>5, <2>3, <2>7, TagRest DEF Tagging, Step
    <2>8. call[r] # NoCall
        BY <1>1 DEF NoCall
    <2>9. CallOK(r)'
        BY <1>5, <2>3, <2>4, <2>5, <2>6, <2>7, <2>8 DEF CallsOK, CallOK
    <2> QED
        BY <1>3, <2>1, <2>3, <2>9, CallKept DEF CallsOK
<1> QED
    BY <1>4, <1>5

\* A call that is over.
LEMMA CallEnds ==
    ASSUME CallsOK, NEW r \in Runtimes, call' = [call EXCEPT ![r] = NoCall], attempts' = attempts
    PROVE  CallsOK'
<1>1. NoCall \in CallSet
    BY DEF CallSet, NoCall, Phases
<1>2. \A j \in Jobs : Canonicals(j)' = Canonicals(j)
    BY DEF Canonicals, Enveloped
<1>3. CallOK(r)'
    BY DEF CallOK, CallsOK
<1> QED
    BY <1>1, <1>2, <1>3, CallKept DEF CallsOK

-----------------------------------------------------------------------------
(* The steps that change an attempt *)

\* The change of an attempt keeps all that the invariant says of the rest.
LEMMA FileChanges ==
    ASSUME EvidenceInv, NEW r \in Runtimes, NEW j \in Jobs, NEW a,
           CallOf(r, j), call[r].phase = "file", ~Waits(r),
           Step(r).op \in FileOps, Step(r).id \in IdsOf(j),
           AttemptOf(a, j), Enveloped(Step(r).id) => a.envelope # None,
           attempts' = [attempts EXCEPT ![Step(r).id] = a],
           call' = [call EXCEPT ![r].phase = "lock"],
           UNCHANGED <<index, lock, thrown, faults, lane, tagVars>>,
           CallOK(r)', LaneFiled(j)'
    PROVE  EvidenceInv'
<1> DEFINE id == Step(r).id
<1>1. a # None /\ id \in Ids
    BY NoneIsNoData, IdsApart DEF AttemptOf
<1>2. \A k \in Ids : attempts'[k] = IF k = id THEN a ELSE attempts[k]
    BY <1>1 DEF EvidenceInv, FilesOK
<1>3. \A k \in Jobs : Canonicals(k) \subseteq Canonicals(k)'
    BY <1>1, <1>2, IdsApart DEF Canonicals, Enveloped
<1>4. \A k \in Jobs : k # j => \A n \in IdsOf(k) : attempts'[n] = attempts[n]
    BY <1>2, IdsApart
<1>5. /\ call' \in [Runtimes -> CallSet]
      /\ \A q \in Runtimes : q # r => call'[q] = call[q]
      /\ call'[r].todo = call[r].todo /\ call'[r].caller = call[r].caller
      /\ call'[r].phase = "lock" /\ call'[r].view = call[r].view
    BY DEF EvidenceInv, CallsOK, CallSet, Phases
<1>6. FilesOK'
    <2>1. ASSUME NEW k \in Jobs, NEW n \in IdsOf(k), attempts'[n] # None
          PROVE  AttemptOf(attempts[n], k)'
        <3>1. AttemptOf(attempts'[n], k)
            BY <1>2, <2>1, IdsApart DEF EvidenceInv, FilesOK
        <3> QED
            BY <1>3, <3>1 DEF AttemptOf
    <2>2. attempts' \in [Ids -> Attempts \cup {None}]
        BY <1>1 DEF EvidenceInv, FilesOK, AttemptOf
    <2> QED
        BY <2>1, <2>2 DEF FilesOK
<1>7. IndexOK'
    BY <1>3 DEF EvidenceInv, IndexOK
<1>8. CallsOK'
    <2>1. ASSUME NEW q \in Runtimes, q # r PROVE CallOK(q)'
        <3>1. \A k \in Jobs : RuntimeOf[k] = q => k # j
            BY <2>1 DEF CallOf
        <3> QED
            BY <1>1, <1>2, <1>3, <1>4, <1>5, <2>1, <3>1, CallKept DEF EvidenceInv, CallsOK
    <2> QED
        BY <1>5, <2>1 DEF CallsOK
<1>9. LockOK'
    BY <1>5 DEF EvidenceInv, LockOK
<1>10. LanesOK'
    <2>1. ASSUME NEW k \in Jobs, k # j PROVE LaneFiled(k)'
        <3>1. call'[RuntimeOf[k]] = call[RuntimeOf[k]]
              \/ (call[RuntimeOf[k]].caller # k /\ call'[RuntimeOf[k]].caller # k)
            <4>1. RuntimeOf[k] \in Runtimes
                BY JobsAssumption
            <4>2. call[r].caller = j
                BY DEF CallOf
            <4> QED
                BY <1>5, <2>1, <4>1, <4>2
        <3>2. LaneFiled(k)
            BY DEF EvidenceInv, LanesOK
        <3>3. \A n \in 0 .. MaxTries : attempts'[<<k, n>>] = attempts[<<k, n>>]
            BY <1>4, <2>1, IdsApart
        <3>4. \A n \in 0 .. MaxTries : Recording(k, n)' <=> Recording(k, n)
            BY <3>1 DEF Recording, Pending, Step
        <3>5. (Live(k) /\ lane[k].canonical # None)' =>
                (lane[k].canonical \in Canonicals(k)
                    \/ (Pending(k, lane[k].canonical) /\ Establishing(RuntimeOf[k], k)))'
            <4>0. lane' = lane
                OBVIOUS
            <4>1. SUFFICES ASSUME Live(k), lane[k].canonical # None,
                                  lane[k].canonical \notin Canonicals(k)
                           PROVE  (Pending(k, lane[k].canonical) /\ Establishing(RuntimeOf[k], k))'
                BY <1>3, <4>0 DEF Live
            <4>2. Pending(k, lane[k].canonical) /\ Establishing(RuntimeOf[k], k)
                BY <3>2, <4>1 DEF LaneFiled
            <4>3. call'[RuntimeOf[k]] = call[RuntimeOf[k]]
                BY <3>1, <4>2 DEF Pending
            <4>4. attempts'[Step(RuntimeOf[k]).id] # None
                BY <1>1, <1>2, <4>2, IdsApart DEF Establishing
            <4>5. Tail(call[RuntimeOf[k]].todo)
                    \in Seq(StepsOf(k, Canonicals(k)' \cup {Step(RuntimeOf[k]).id}))
                BY <1>3, <4>2, StepsGrow DEF Establishing
            <4>6. StepsOf(k, Canonicals(k)' \cup {Step(RuntimeOf[k]).id})
                    = StepsOf(k, Canonicals(k) \cup {Step(RuntimeOf[k]).id})'
                BY <4>3 DEF StepsOf, PatchesOf, RegistersOf, ChangesOf, Step
            <4> QED
                BY <4>2, <4>3, <4>4, <4>5, <4>6 DEF Pending, Establishing, CallOf, Step
        <3>6. \A n \in 1 .. lane[k].tries : n \in 0 .. MaxTries
            BY EvidenceAssumption DEF EvidenceInv, LanesOK, Lanes
        <3> QED
            BY <3>2, <3>3, <3>4, <3>5, <3>6 DEF LaneFiled, Live
    <2>2. \A k \in Jobs : LaneTyped(k)'
        BY DEF EvidenceInv, LanesOK, LaneTyped, NewLane
    <2> QED
        BY <2>1, <2>2 DEF EvidenceInv, LanesOK
<1>11. HealthOK'
    <2>1. Refreshing(r)'
        BY <1>5 DEF Refreshing, Waits, Step
    <2> QED
        BY <2>1 DEF EvidenceInv, HealthOK
<1>12. TagsOK'
    <2>1. call'[TagRuntime].todo = call[TagRuntime].todo
          /\ call'[TagRuntime].caller = call[TagRuntime].caller
        BY <1>5, TagsAssumption
    <2> QED
        BY <2>1 DEF EvidenceInv, TagsOK, Rivals, Making, tagVars
<1> QED
    BY <1>6, <1>7, <1>8, <1>9, <1>10, <1>11, <1>12 DEF EvidenceInv

LEMMA WriteFileKeeps ==
    ASSUME EvidenceInv, NEW r \in Runtimes, WriteFile(r), UNCHANGED <<lane, tagVars>>
    PROVE  EvidenceInv'
<1>1. ~Waits(r) /\ Step(r).op = "write" /\ call[r].phase = "file"
    BY DEF WriteFile, At
<1>2. PICK j \in Jobs : Writing(r, j)
    BY <1>1, StepShape DEF EvidenceInv
<1> DEFINE id == Step(r).id  a == Step(r).attempt
<1>3. id \in IdsOf(j) /\ AttemptOf(a, j) /\ attempts[id] = None /\ CallOf(r, j) /\ a # None
    BY <1>1, <1>2, NoneIsNoData DEF Writing, AttemptOf
<1>4. attempts' = [attempts EXCEPT ![id] = a] /\ call' = [call EXCEPT ![r].phase = "lock"]
    BY DEF WriteFile, Turns
<1>5. call'[r].todo = call[r].todo /\ call'[r].caller = j /\ call'[r].phase = "lock"
      /\ Step(r)' = Step(r)
    BY <1>3, <1>4 DEF EvidenceInv, CallsOK, CallSet, Step, CallOf
<1>6. \A k \in Ids : attempts'[k] = IF k = id THEN a ELSE attempts[k]
    BY <1>4 DEF EvidenceInv, FilesOK
<1>7. Canonicals(j) \subseteq Canonicals(j)'
    BY <1>3, <1>6, IdsApart DEF Canonicals, Enveloped
<1>8. CallOK(r)'
    <2>1. AttemptOf(a, j)'
        BY <1>3, <1>5, <1>7 DEF AttemptOf
    <2>2. Writing(r, j)'
        BY <1>2, <1>3, <1>5, <1>6, <2>1, IdsApart DEF Writing, CallOf
    <2> QED
        BY <1>2, <1>5, <2>2 DEF CallOK, Writing
<1>9. LaneFiled(j)'
    <2>1. LaneFiled(j) /\ lane[j].tries \in 0 .. MaxTries
        BY DEF EvidenceInv, LanesOK, Lanes
    <2>2. PICK n \in 0 .. MaxTries : id = <<j, n>>
        BY <1>3, IdsApart
    <2>3. \A m \in 0 .. MaxTries : Recording(j, m) <=> m = n
        BY <1>1, <1>3, <2>2 DEF Recording, Pending, CallOf, Waits
    <2>4. \A m \in 0 .. MaxTries :
            /\ m # n => attempts'[<<j, m>>] = attempts[<<j, m>>]
            /\ m = n => attempts'[<<j, m>>] # None
        BY <1>3, <1>6, <2>2, IdsApart
    <2>5. \A m \in 0 .. MaxTries : ~Recording(j, m)'
        BY <1>3, <1>5 DEF Recording, Pending, CallOf
    <2>6. ~Establishing(RuntimeOf[j], j)
        BY <1>1, <1>3 DEF Establishing, CallOf
    <2>7. \A m \in 1 .. lane[j].tries : m \in 0 .. MaxTries
        BY <2>1, EvidenceAssumption
    <2> QED
        BY <1>7, <2>1, <2>3, <2>4, <2>5, <2>6, <2>7 DEF LaneFiled, Live
<1> QED
    BY <1>1, <1>3, <1>4, <1>8, <1>9, FileChanges DEF WriteFile, Enveloped, FileOps

\* An attempt is recorded by the first step of a call, and a tag is made from the
\* first step on.
LEMMA StepsAhead ==
    ASSUME CallsOK, NEW r \in Runtimes, ~Waits(r), Tail(call[r].todo) # <<>>
    PROVE  /\ Head(Tail(call[r].todo)).op # "write"
           /\ \A t \in Tags : call[r].caller = t /\ Tail(call[r].todo) \in Making(t) =>
                call[r].todo \in Making(t)
<1>1. \A x : Tail(<<x>>) = <<>>
    OBVIOUS
<1>2. call[r] # NoCall /\ call[r] \in CallSet
    BY DEF Waits, NoCall, CallsOK
<1>3. \A j \in Jobs : ~Writing(r, j)
    BY <1>1 DEF Writing
<1>4. ~Rebuilding(r)
    BY <1>1 DEF Rebuilding
<1>5. ASSUME NEW j \in Jobs, Linking(r, j) \/ Establishing(r, j)
      PROVE  Head(Tail(call[r].todo)).op # "write" /\ call[r].caller \notin Tags
    <2>1. PICK C : Tail(call[r].todo) \in Seq(StepsOf(j, C))
        BY <1>5 DEF Linking, Establishing
    <2>2. Head(Tail(call[r].todo)) \in StepsOf(j, C)
        BY <2>1
    <2> QED
        BY <1>5, <2>2, EvidenceAssumption
        DEF StepsOf, PatchesOf, RegistersOf, Linking, Establishing, CallOf
<1>6. ASSUME NEW t \in Tags, Tagging(r, t)
      PROVE  /\ Head(Tail(call[r].todo)).op # "write"
             /\ Tail(call[r].todo) \in Making(t) => call[r].todo \in Making(t)
    <2>1. Tail(call[r].todo) \in Making(t) \cup Deleting
        BY <1>6, TagRest DEF Tagging
    <2>2. \A todo \in Making(t) \cup Deleting : Head(todo).op # "write"
        BY DEF Making, Deleting, Scope
    <2> QED
        BY <1>6, <2>1, <2>2, TagRest DEF Tagging
<1> QED
    BY <1>2, <1>3, <1>4, <1>5, <1>6 DEF CallsOK, CallOK, Tagging

-----------------------------------------------------------------------------
(* The steps that leave the attempts as they are *)

\* A step of a call that changes no attempt leaves attempts, lanes and tags right.
LEMMA QuietStep ==
    ASSUME EvidenceInv, NEW r \in Runtimes, ~Waits(r), CallsOK',
           Step(r).op = "write" => call[r].phase # "file",
           \A j \in Jobs : ~Establishing(r, j),
           \A q \in Runtimes : q # r => call'[q] = call[q],
           \/ call'[r] = NoCall
           \/ call'[r].todo = call[r].todo /\ call'[r].caller = call[r].caller
                /\ call'[r].phase # "file"
           \/ call'[r].todo = Tail(call[r].todo) /\ call'[r].caller = call[r].caller
                /\ Tail(call[r].todo) # <<>>,
           UNCHANGED <<attempts, lane>>
    PROVE  /\ FilesOK' /\ LanesOK'
           /\ UNCHANGED tagVars => TagsOK'
           /\ \A t \in Tags :
                call'[TagRuntime].caller = t /\ call'[TagRuntime].todo \in Making(t) =>
                    call[TagRuntime].caller = t /\ call[TagRuntime].todo \in Making(t)
<1>1. \A k \in Jobs : Canonicals(k)' = Canonicals(k)
    BY DEF Canonicals, Enveloped
<1>2. FilesOK'
    BY <1>1 DEF EvidenceInv, FilesOK, AttemptOf
<1>3. Tail(call[r].todo) # <<>> =>
        /\ Head(Tail(call[r].todo)).op # "write"
        /\ \A t \in Tags : call[r].caller = t /\ Tail(call[r].todo) \in Making(t) =>
             call[r].todo \in Making(t)
    BY StepsAhead DEF EvidenceInv
<1>4. LanesOK'
    <2>1. ASSUME NEW k \in Jobs PROVE LaneFiled(k)'
        <3>1. LaneFiled(k) /\ RuntimeOf[k] \in Runtimes
            BY JobsAssumption DEF EvidenceInv, LanesOK
        <3>2. CASE RuntimeOf[k] # r
            <4>1. call'[RuntimeOf[k]] = call[RuntimeOf[k]]
                BY <3>1, <3>2
            <4>2. Establishing(RuntimeOf[k], k) => Establishing(RuntimeOf[k], k)'
                <5>1. StepsOf(k, Canonicals(k) \cup {Step(RuntimeOf[k]).id})
                        = StepsOf(k, Canonicals(k) \cup {Step(RuntimeOf[k]).id})'
                    BY <1>1, <4>1 DEF StepsOf, PatchesOf, RegistersOf, ChangesOf, Step
                <5> QED
                    BY <4>1, <5>1 DEF Establishing, CallOf, Step
            <4>3. \A n \in 0 .. MaxTries : Recording(k, n)' <=> Recording(k, n)
                BY <4>1 DEF Recording, Pending, Step
            <4>4. (Pending(k, lane[k].canonical))' <=> Pending(k, lane[k].canonical)
                BY <4>1 DEF Pending, Step
            <4>5. \A n \in 1 .. lane[k].tries : n \in 0 .. MaxTries
                BY EvidenceAssumption DEF EvidenceInv, LanesOK, Lanes
            <4> QED
                BY <1>1, <3>1, <4>2, <4>3, <4>4, <4>5 DEF LaneFiled, Live
        <3>3. CASE RuntimeOf[k] = r
            <4>1. \A n \in 0 .. MaxTries : ~Recording(k, n)
                BY <3>3 DEF Recording, Pending
            <4>2. \A n \in 0 .. MaxTries : ~Recording(k, n)'
                <5>1. Step(r)' = Head(call'[r].todo)
                    BY DEF Step
                <5>2. call'[r].todo # <<>> /\ call'[r].phase = "file" => Head(call'[r].todo).op # "write"
                    <6>1. NoCall.todo = <<>>
                        BY DEF NoCall
                    <6>2. CASE call'[r].todo = Tail(call[r].todo) /\ Tail(call[r].todo) # <<>>
                        BY <1>3, <6>2
                    <6> QED
                        BY <6>1, <6>2
                <5> QED
                    BY <3>3, <5>1, <5>2 DEF Recording, Pending
            <4>3. ~Establishing(RuntimeOf[k], k)
                BY <3>3
            <4>5. \A n \in 1 .. lane[k].tries : n \in 0 .. MaxTries
                BY EvidenceAssumption DEF EvidenceInv, LanesOK, Lanes
            <4> QED
                BY <1>1, <3>1, <4>1, <4>2, <4>3, <4>5 DEF LaneFiled, Live
        <3> QED
            BY <3>2, <3>3
    <2>2. \A k \in Jobs : LaneTyped(k)'
        BY DEF EvidenceInv, LanesOK, LaneTyped, NewLane
    <2> QED
        BY <2>1, <2>2 DEF EvidenceInv, LanesOK
<1>5. \A t \in Tags : call'[TagRuntime].caller = t /\ call'[TagRuntime].todo \in Making(t) =>
            call[TagRuntime].caller = t /\ call[TagRuntime].todo \in Making(t)
    <2>1. \A t \in Tags : NoCall.caller # t
        BY EvidenceAssumption DEF NoCall
    <2> QED
        BY <1>3, <2>1, TagsAssumption
<1>6. ASSUME UNCHANGED tagVars PROVE TagsOK'
    <2>1. \A t : Making(t)' = Making(t)
        BY DEF Making
    <2> QED
        BY <1>5, <1>6, <2>1 DEF EvidenceInv, TagsOK, Rivals, tagVars
<1> QED
    BY <1>2, <1>4, <1>5, <1>6

\* The canonical attempts of an index stay canonical while no attempt changes.
LEMMA IndexKept ==
    ASSUME IndexOK, UNCHANGED <<attempts, index>>
    PROVE  IndexOK'
    BY DEF IndexOK, Canonicals, Enveloped

\* Who is about to derive the health stays so while others make their steps.
LEMMA HealthKept ==
    ASSUME EvidenceInv, NEW r \in Runtimes, UNCHANGED <<attempts, index, faults>>,
           thrown' \in SUBSET Callers, thrown \subseteq thrown',
           \A q \in Runtimes : q # r => call'[q] = call[q],
           Refreshing(r) /\ thrown' = {} => Refreshing(r)'
    PROVE  HealthOK'
<1>1. HealthIndexed(index)' = HealthIndexed(index)
    BY DEF HealthIndexed, IsRecoveredPrimaryFailure
<1>2. \A q \in Runtimes : Refreshing(q) /\ thrown' = {} => Refreshing(q)'
    BY DEF Refreshing, Step
<1> QED
    BY <1>1, <1>2 DEF EvidenceInv, HealthOK

LEMMA PatchFileKeeps ==
    ASSUME EvidenceInv, NEW r \in Runtimes, PatchFile(r), UNCHANGED <<lane, tagVars>>
    PROVE  EvidenceInv'
<1>1. ~Waits(r) /\ Step(r).op = "patch" /\ call[r].phase = "file"
    BY DEF PatchFile, At
<1>2. PICK j \in Jobs : Linking(r, j) \/ Establishing(r, j)
    BY <1>1, StepShape DEF EvidenceInv
<1> DEFINE id == Step(r).id  a == Overlaid(attempts[id], Step(r).change)
<1>3. Step(r) \in PatchesOf(j, Canonicals(j)) /\ CallOf(r, j) /\ id \in IdsOf(j) /\ id \in Ids
    <2>1. CASE Linking(r, j)
        <3>1. Step(r) \in StepsOf(j, Canonicals(j))
            BY <2>1 DEF Linking, Step
        <3> QED
            BY <1>1, <2>1, <3>1, IdsApart DEF StepsOf, PatchesOf, RegistersOf, Linking
    <2>2. CASE Establishing(r, j)
        BY <2>2, IdsApart DEF Establishing, PatchesOf, ChangesOf
    <2> QED
        BY <1>2, <2>1, <2>2
<1>4. CASE attempts[id] = None
    <2>1. Continues(r) /\ attempts' = attempts
        BY <1>4 DEF PatchFile
    <2>2. \A k \in Jobs : ~Establishing(r, k)
        BY <1>4 DEF Establishing
    <2>3. CallsOK'
        BY <1>1, <2>1, <2>2, CallContinues DEF EvidenceInv
    <2>4. /\ \A q \in Runtimes : q # r => call'[q] = call[q]
          /\ \/ call'[r] = NoCall
             \/ /\ call'[r].todo = Tail(call[r].todo) /\ call'[r].caller = call[r].caller
                /\ Tail(call[r].todo) # <<>>
          /\ call'[r].phase \in {"file", "lock"}
        BY <2>1 DEF Continues, EvidenceInv, CallsOK, CallSet, NoCall, FirstPhase
    <2>5. FilesOK' /\ LanesOK' /\ TagsOK'
        BY <1>1, <2>1, <2>2, <2>3, <2>4, QuietStep
    <2>6. IndexOK'
        BY <2>1, IndexKept DEF EvidenceInv, PatchFile
    <2>7. LockOK'
        BY <1>1, <2>4 DEF EvidenceInv, LockOK, PatchFile
    <2>8. HealthOK'
        BY <1>1, <2>1, <2>4, HealthKept DEF PatchFile, Refreshing, EvidenceInv, HealthOK
    <2> QED
        BY <2>3, <2>5, <2>6, <2>7, <2>8 DEF EvidenceInv
<1>5. CASE attempts[id] # None
    <2>1. attempts' = [attempts EXCEPT ![id] = a] /\ call' = [call EXCEPT ![r].phase = "lock"]
        BY <1>5 DEF PatchFile, Overlaid, Turns
    <2>2. AttemptOf(attempts[id], j) /\ Step(r).change \in ChangesOf(j, Canonicals(j))
        BY <1>3, <1>5 DEF EvidenceInv, FilesOK, PatchesOf
    <2>3. /\ AttemptOf(a, j) /\ a # None
          /\ attempts[id].envelope # None => a.envelope # None
          /\ Step(r).change \in [envelope : EnvelopesOf(j)] => a.envelope # None
        BY <2>2, PatchTyped, NoneIsNoData DEF AttemptOf
    <2>4. call'[r].todo = call[r].todo /\ call'[r].caller = j /\ call'[r].phase = "lock"
          /\ Step(r)' = Step(r)
        BY <1>3, <2>1 DEF EvidenceInv, CallsOK, CallSet, Step, CallOf
    <2>5. \A k \in Ids : attempts'[k] = IF k = id THEN a ELSE attempts[k]
        BY <2>1 DEF EvidenceInv, FilesOK
    <2>6. Canonicals(j) \subseteq Canonicals(j)'
        BY <2>3, <2>5, IdsApart DEF Canonicals, Enveloped
    <2>7. Linking(r, j)'
        <3>1. call[r].todo \in Seq(StepsOf(j, Canonicals(j)'))
            <4>1. CASE Linking(r, j)
                BY <2>6, <4>1, StepsGrow DEF Linking
            <4>2. CASE Establishing(r, j)
                <5>1. id \in Canonicals(j)'
                    BY <1>3, <2>3, <2>5, <4>2 DEF Canonicals, Enveloped, Establishing
                <5>2. Tail(call[r].todo) \in Seq(StepsOf(j, Canonicals(j)'))
                    BY <2>6, <4>2, <5>1, StepsGrow DEF Establishing
                <5>3. Step(r) \in StepsOf(j, Canonicals(j)')
                    BY <4>2 DEF Establishing, StepsOf, PatchesOf, ChangesOf
                <5>4. call[r].todo \in Seq(AnySteps) /\ call[r].todo # <<>>
                    BY <1>1 DEF EvidenceInv, CallsOK, CallSet, Waits
                <5>5. \A n \in 1 .. Len(call[r].todo) :
                        call[r].todo[n] \in StepsOf(j, Canonicals(j)')
                    <6>1. Step(r) = call[r].todo[1]
                        BY DEF Step
                    <6>2. \A n \in 2 .. Len(call[r].todo) :
                            n - 1 \in 1 .. Len(Tail(call[r].todo))
                            /\ call[r].todo[n] = Tail(call[r].todo)[n - 1]
                        BY <5>4
                    <6> QED
                        BY <5>2, <5>3, <5>4, <6>1, <6>2
                <5> QED
                    BY <5>4, <5>5
            <4> QED
                BY <1>2, <4>1, <4>2
        <3>2. StepsOf(j, Canonicals(j)') = StepsOf(j, Canonicals(j))'
            BY DEF StepsOf, PatchesOf, RegistersOf, ChangesOf
        <3> QED
            BY <1>1, <1>3, <2>3, <2>4, <2>5, <3>1, <3>2 DEF Linking, CallOf, Waits
    <2>8. CallOK(r)'
        BY <1>1, <2>4, <2>7 DEF CallOK, Waits
    <2>9. LaneFiled(j)'
        <3>1. LaneFiled(j) /\ lane[j].tries \in 0 .. MaxTries
            BY DEF EvidenceInv, LanesOK, Lanes
        <3>2. \A m \in 0 .. MaxTries : ~Recording(j, m) /\ ~Recording(j, m)'
            BY <1>1, <1>3, <2>4 DEF Recording, Pending, CallOf
        <3>3. \A m \in 0 .. MaxTries : attempts'[<<j, m>>] # None <=> attempts[<<j, m>>] # None
            BY <1>5, <2>3, <2>5, IdsApart
        <3>4. Establishing(RuntimeOf[j], j) /\ Pending(j, lane[j].canonical) =>
                lane[j].canonical \in Canonicals(j)'
            BY <1>3, <2>3, <2>5 DEF Establishing, Pending, Canonicals, Enveloped, CallOf
        <3>5. \A m \in 1 .. lane[j].tries : m \in 0 .. MaxTries
            BY <3>1, EvidenceAssumption
        <3> QED
            BY <2>6, <3>1, <3>2, <3>3, <3>4, <3>5 DEF LaneFiled, Live
    <2> QED
        BY <1>1, <1>3, <2>1, <2>3, <2>8, <2>9, FileChanges DEF PatchFile, Enveloped, FileOps
<1> QED
    BY <1>4, <1>5

LEMMA TakeLockKeeps ==
    ASSUME EvidenceInv, NEW r \in Runtimes, TakeLock(r), UNCHANGED <<lane, tagVars>>
    PROVE  EvidenceInv'
<1>1. ~Waits(r) /\ call[r].phase = "lock" /\ lock = "free" /\ call[r] \in CallSet
    BY DEF TakeLock, At, LockIsFree, EvidenceInv, CallsOK
<1>2. index \in Indexes
    BY DEF EvidenceInv, IndexOK
<1>3. call' = [call EXCEPT ![r] = [@ EXCEPT !.phase = "index", !.view = index]]
    BY <1>1 DEF TakeLock, EvidenceInv, CallsOK, CallSet
<1>4. CallsOK'
    BY <1>1, <1>2, <1>3, CallTurns DEF EvidenceInv, TakeLock, Phases
<1>5. /\ \A q \in Runtimes : q # r => call'[q] = call[q]
      /\ call'[r].todo = call[r].todo /\ call'[r].caller = call[r].caller
      /\ call'[r].phase = "index" /\ call'[r].view = index
    BY <1>1, <1>3 DEF EvidenceInv, CallsOK, CallSet
<1>6. FilesOK' /\ LanesOK' /\ TagsOK'
    <2>1. \A k \in Jobs : ~Establishing(r, k)
        BY <1>1 DEF Establishing
    <2> QED
        BY <1>1, <1>4, <1>5, <2>1, QuietStep DEF TakeLock
<1>7. IndexOK'
    BY IndexKept DEF EvidenceInv, TakeLock
<1>8. LockOK'
    BY <1>1, <1>5, EvidenceAssumption DEF EvidenceInv, LockOK, TakeLock
<1>9. HealthOK'
    <2>1. Refreshing(r) => Refreshing(r)'
        BY <1>5 DEF Refreshing, Step
    <2> QED
        BY <1>5, <2>1, HealthKept DEF TakeLock, EvidenceInv, HealthOK
<1> QED
    BY <1>4, <1>6, <1>7, <1>8, <1>9 DEF EvidenceInv

LEMMA LockTimeoutKeeps ==
    ASSUME EvidenceInv, NEW r \in Runtimes, LockTimeout(r), UNCHANGED <<lane, tagVars>>
    PROVE  EvidenceInv'
<1>1. ~Waits(r) /\ call[r].phase = "lock" /\ call[r] \in CallSet
    BY DEF LockTimeout, At, EvidenceInv, CallsOK
<1>2. \A k \in Jobs : ~Establishing(r, k)
    BY <1>1 DEF Establishing
<1>3. UNCHANGED <<attempts, index, lock, faults>>
    BY DEF LockTimeout
<1>4. CallsOK'
    BY <1>1, <1>2, <1>3, CallContinues, CallEnds DEF LockTimeout, EvidenceInv
<1>5. /\ \A q \in Runtimes : q # r => call'[q] = call[q]
      /\ \/ call'[r] = NoCall
         \/ /\ call'[r].todo = Tail(call[r].todo) /\ call'[r].caller = call[r].caller
            /\ Tail(call[r].todo) # <<>>
      /\ call'[r].phase \in {"file", "lock"}
    <2>1. CASE Continues(r)
        BY <2>1 DEF Continues, EvidenceInv, CallsOK, CallSet, NoCall, FirstPhase
    <2>2. CASE call' = [call EXCEPT ![r] = NoCall]
        BY <2>2 DEF EvidenceInv, CallsOK, NoCall
    <2> QED
        BY <2>1, <2>2 DEF LockTimeout
<1>6. FilesOK' /\ LanesOK' /\ TagsOK'
    BY <1>1, <1>2, <1>3, <1>4, <1>5, QuietStep
<1>7. IndexOK'
    BY <1>3, IndexKept DEF EvidenceInv
<1>8. LockOK'
    BY <1>1, <1>3, <1>5 DEF EvidenceInv, LockOK
<1>9. HealthOK'
    <2>1. thrown' \in SUBSET Callers /\ thrown \subseteq thrown'
        BY <1>1 DEF LockTimeout, EvidenceInv, HealthOK, CallSet
    <2>2. Refreshing(r) => thrown' # {}
        <3>1. SUFFICES ASSUME Refreshing(r) PROVE thrown' # {}
            OBVIOUS
        <3>2. Step(r).op \in {"write", "patch"}
            BY <3>1 DEF Refreshing, FileOps
        <3>3. thrown' = thrown \cup ({call[r].caller} \ {None})
            BY <3>2 DEF LockTimeout
        <3>4. \E j \in Jobs : call[r].caller = j
            BY <1>1, <3>2, StepShape DEF Writing, Linking, Establishing, CallOf, EvidenceInv
        <3> QED
            BY <3>3, <3>4, EvidenceAssumption
    <2> QED
        BY <1>3, <1>5, <2>1, <2>2, HealthKept
<1> QED
    BY <1>4, <1>6, <1>7, <1>8, <1>9 DEF EvidenceInv

LEMMA ReleaseLockKeeps ==
    ASSUME EvidenceInv, NEW r \in Runtimes, ReleaseLock(r), UNCHANGED <<lane, tagVars>>
    PROVE  EvidenceInv'
<1>1. ~Waits(r) /\ call[r].phase = "unlock" /\ lock = r
    BY DEF ReleaseLock, At, EvidenceInv, LockOK
<1>2. \A k \in Jobs : ~Establishing(r, k)
    BY <1>1 DEF Establishing
<1>3. UNCHANGED <<attempts, index, thrown, faults>> /\ lock' = "free" /\ Continues(r)
    BY DEF ReleaseLock
<1>4. CallsOK'
    BY <1>1, <1>2, <1>3, CallContinues DEF EvidenceInv
<1>5. /\ \A q \in Runtimes : q # r => call'[q] = call[q]
      /\ \/ call'[r] = NoCall
         \/ /\ call'[r].todo = Tail(call[r].todo) /\ call'[r].caller = call[r].caller
            /\ Tail(call[r].todo) # <<>>
      /\ call'[r].phase \in {"file", "lock"}
    BY <1>3 DEF Continues, EvidenceInv, CallsOK, CallSet, NoCall, FirstPhase
<1>6. FilesOK' /\ LanesOK' /\ TagsOK'
    BY <1>1, <1>2, <1>3, <1>4, <1>5, QuietStep
<1>7. IndexOK'
    BY <1>3, IndexKept DEF EvidenceInv
<1>8. LockOK'
    BY <1>1, <1>3, <1>5, EvidenceAssumption DEF EvidenceInv, LockOK
<1>9. HealthOK'
    BY <1>1, <1>3, <1>5, HealthKept DEF Refreshing, EvidenceInv, HealthOK
<1> QED
    BY <1>4, <1>6, <1>7, <1>8, <1>9 DEF EvidenceInv

-----------------------------------------------------------------------------
(* The index *)

\* The health that is derived is current, and nothing else of the index changes.
LEMMA HealthDerived ==
    ASSUME NEW ix \in Indexes
    PROVE  /\ HealthIndexed(ix) \in Indexes
           /\ HealthIndexed(ix).jobs = ix.jobs
           /\ HealthIndexed(HealthIndexed(ix)) = HealthIndexed(ix)
    BY DEF HealthIndexed, Indexes

\* A job's entry names as canonical what its attempt calls so.
LEMMA JobIndexedOK ==
    ASSUME FilesOK, NEW ix \in Indexes, NEW j \in Jobs, NEW id \in IdsOf(j),
           \A k \in Jobs : ix.jobs[k].canonical \in Canonicals(k) \cup {None},
           attempts[id] # None
    PROVE  /\ JobIndexed(ix, id, attempts[id]) \in Indexes
           /\ \A k \in Jobs :
                JobIndexed(ix, id, attempts[id]).jobs[k].canonical \in Canonicals(k) \cup {None}
<1> DEFINE a == attempts[id]
           canonical == IF a.envelope # None THEN id ELSE a.canonical
           entry == [ix.jobs[j] EXCEPT !.canonical = IF canonical # None THEN canonical ELSE @,
                                       !.attempts = @ \cup {id}]
<1>1. AttemptOf(a, j) /\ id \in Ids
    BY IdsApart DEF FilesOK
<1>2. canonical \in Canonicals(j) \cup {None}
    BY <1>1 DEF AttemptOf, Canonicals, Enveloped
<1>3. Canonicals(j) \subseteq Ids
    BY IdsApart DEF Canonicals
<1>4. a.envelope # None => a.envelope.job = j
    BY <1>1 DEF AttemptOf, EnvelopesOf
<1>5. \/ JobIndexed(ix, id, a) = ix
      \/ JobIndexed(ix, id, a) = [ix EXCEPT !.jobs[j].canonical = IF canonical # None THEN canonical ELSE @,
                                            !.jobs[j].attempts = @ \cup {id}]
    BY <1>1, <1>4 DEF JobIndexed, AttemptOf
<1>6. ix.jobs[j] \in [canonical : Ids \cup {None}, attempts : SUBSET Ids]
      /\ ix.jobs \in [Jobs -> [canonical : Ids \cup {None}, attempts : SUBSET Ids]]
    BY DEF Indexes
<1>7. [ix EXCEPT !.jobs[j].canonical = IF canonical # None THEN canonical ELSE @,
                 !.jobs[j].attempts = @ \cup {id}]
        = [ix EXCEPT !.jobs = [ix.jobs EXCEPT ![j] = entry]]
    BY <1>6 DEF Indexes
<1>8. entry \in [canonical : Ids \cup {None}, attempts : SUBSET Ids]
      /\ entry.canonical \in Canonicals(j) \cup {None}
    BY <1>1, <1>2, <1>3, <1>6
<1>9. [ix.jobs EXCEPT ![j] = entry] \in [Jobs -> [canonical : Ids \cup {None}, attempts : SUBSET Ids]]
      /\ \A k \in Jobs : [ix.jobs EXCEPT ![j] = entry][k].canonical \in Canonicals(k) \cup {None}
    BY <1>6, <1>8
<1>10. [ix EXCEPT !.jobs = [ix.jobs EXCEPT ![j] = entry]] \in Indexes
       /\ [ix EXCEPT !.jobs = [ix.jobs EXCEPT ![j] = entry]].jobs = [ix.jobs EXCEPT ![j] = entry]
    BY <1>9 DEF Indexes
<1> HIDE DEF entry, canonical
<1> QED
    BY <1>5, <1>7, <1>9, <1>10

LEMMA WriteIndexKeeps ==
    ASSUME EvidenceInv, NEW r \in Runtimes, WriteIndex(r), UNCHANGED <<lane, tagVars>>
    PROVE  EvidenceInv'
<1>1. ~Waits(r) /\ call[r].phase = "index" /\ lock = r /\ call[r].view = index
      /\ Step(r).op \in IndexOps /\ call[r] \in CallSet
    BY DEF WriteIndex, At, EvidenceInv, LockOK, CallsOK
<1>2. \A k \in Jobs : ~Establishing(r, k)
    BY <1>1 DEF Establishing
<1>3. UNCHANGED <<attempts, lock, thrown, faults>> /\ index' = Mutated(index, Step(r))
    BY <1>1 DEF WriteIndex
<1>4. call' = [call EXCEPT ![r] = [@ EXCEPT !.phase = "unlock", !.view = None]]
    BY <1>1 DEF WriteIndex, EvidenceInv, CallsOK, CallSet
<1>5. CallsOK'
    BY <1>1, <1>3, <1>4, CallTurns DEF EvidenceInv, Phases
<1>6. /\ \A q \in Runtimes : q # r => call'[q] = call[q]
      /\ call'[r].todo = call[r].todo /\ call'[r].caller = call[r].caller
      /\ call'[r].phase = "unlock"
    BY <1>1, <1>4 DEF EvidenceInv, CallsOK, CallSet
<1>7. FilesOK' /\ LanesOK' /\ TagsOK'
    BY <1>1, <1>2, <1>3, <1>5, <1>6, QuietStep
<1>8. LockOK'
    BY <1>1, <1>3, <1>6 DEF EvidenceInv, LockOK
<1>9. index \in Indexes /\ FilesOK
      /\ \A k \in Jobs : index.jobs[k].canonical \in Canonicals(k) \cup {None}
    BY DEF EvidenceInv, IndexOK
<1>10. /\ index' \in Indexes
       /\ \A k \in Jobs : index'.jobs[k].canonical \in Canonicals(k) \cup {None}
       /\ Step(r).op \in FileOps => index' = HealthIndexed(index')
       /\ index = HealthIndexed(index) => index' = HealthIndexed(index')
    <2>1. CASE Step(r).op \in FileOps
        <3>1. PICK j \in Jobs : Step(r).id \in IdsOf(j) /\ attempts[Step(r).id] # None
            <4>1. CASE Step(r).op = "write"
                BY <1>1, <4>1, StepShape DEF EvidenceInv, Writing
            <4>2. CASE Step(r).op = "patch"
                <5>1. PICK j \in Jobs : Linking(r, j)
                    BY <1>1, <1>2, <4>2, StepShape DEF EvidenceInv
                <5>2. Step(r) \in StepsOf(j, Canonicals(j))
                    BY <5>1 DEF Linking, Step
                <5> QED
                    BY <1>1, <4>2, <5>1, <5>2 DEF Linking, StepsOf, PatchesOf, RegistersOf
            <4> QED
                BY <2>1, <4>1, <4>2 DEF FileOps
        <3> DEFINE id == Step(r).id
        <3>2. CASE Step(r).op = "write"
            <4> DEFINE ix == [index EXCEPT !.listed = @ \cup {id}]
            <4>1. ix \in Indexes /\ ix.jobs = index.jobs
                BY <1>9, <3>1, IdsApart DEF Indexes
            <4>2. JobIndexed(ix, id, attempts[id]) \in Indexes
                  /\ \A k \in Jobs :
                       JobIndexed(ix, id, attempts[id]).jobs[k].canonical \in Canonicals(k) \cup {None}
                BY <1>9, <3>1, <4>1, JobIndexedOK
            <4>3. index' = HealthIndexed(JobIndexed(ix, id, attempts[id]))
                BY <1>3, <3>2 DEF Mutated, AttemptIndexed
            <4> QED
                BY <4>2, <4>3, HealthDerived
        <3>3. CASE Step(r).op = "patch"
            <4>1. JobIndexed(index, id, attempts[id]) \in Indexes
                  /\ \A k \in Jobs :
                       JobIndexed(index, id, attempts[id]).jobs[k].canonical \in Canonicals(k) \cup {None}
                BY <1>9, <3>1, JobIndexedOK
            <4>2. index' = HealthIndexed(JobIndexed(index, id, attempts[id]))
                BY <1>3, <3>3 DEF Mutated, DecisionIndexed
            <4> QED
                BY <4>1, <4>2, HealthDerived
        <3> QED
            BY <2>1, <3>2, <3>3 DEF FileOps
    <2>2. CASE Step(r).op = "register"
        <3>1. PICK j \in Jobs : Linking(r, j)
            BY <1>1, <2>2, StepShape DEF EvidenceInv
        <3>2. Step(r) \in RegistersOf(j, Canonicals(j))
            <4>1. Step(r) \in StepsOf(j, Canonicals(j))
                BY <3>1 DEF Linking, Step
            <4> QED
                BY <2>2, <4>1 DEF StepsOf, PatchesOf, RegistersOf
        <3>3. index' = JobRegistered(index, j, Step(r).canonical, Step(r).id)
            BY <1>3, <2>2, <3>2 DEF Mutated, RegistersOf
        <3>4. Step(r).canonical \in Canonicals(j) /\ Step(r).canonical \in Ids /\ Step(r).id \in Ids
            BY <3>2, IdsApart DEF RegistersOf, Canonicals
        <3>5. index' \in Indexes
            BY <1>9, <3>3, <3>4 DEF JobRegistered, Indexes
        <3>6. \A k \in Jobs : index'.jobs[k].canonical \in Canonicals(k) \cup {None}
            BY <1>9, <3>3, <3>4 DEF JobRegistered, Indexes
        <3>7. index'.listed = index.listed /\ index'.invalid = index.invalid
              /\ index'.recovered = index.recovered
            BY <1>9, <3>3 DEF JobRegistered, Indexes
        <3>8. index = HealthIndexed(index) => index' = HealthIndexed(index')
            BY <1>9, <3>5, <3>7 DEF HealthIndexed, Indexes
        <3> QED
            BY <2>2, <3>5, <3>6, <3>8 DEF FileOps
    <2>3. CASE Step(r).op = "scope"
        <3>1. PICK t \in Tags : Step(r).tag = t
            <4>1. PICK t \in Tags : Tagging(r, t)
                BY <1>1, <2>3, StepShape DEF EvidenceInv, FileOps
            <4> QED
                BY <2>3, <4>1 DEF Tagging, Making, Deleting, Step, Scope
        <3>2. index' = [index EXCEPT !.scopes = @ \cup {t}]
            BY <1>3, <2>3, <3>1 DEF Mutated
        <3>3. index' \in Indexes /\ index'.jobs = index.jobs
              /\ index'.listed = index.listed /\ index'.invalid = index.invalid
              /\ index'.recovered = index.recovered
            BY <1>9, <3>2 DEF Indexes
        <3>4. index = HealthIndexed(index) => index' = HealthIndexed(index')
            BY <1>9, <3>3 DEF HealthIndexed, Indexes
        <3> QED
            BY <1>9, <2>3, <3>3, <3>4 DEF FileOps
    <2>4. CASE Step(r).op = "rebuild"
        <3>1. [index EXCEPT !.scopes = {}] \in Indexes /\ [index EXCEPT !.scopes = {}].jobs = index.jobs
            BY <1>9 DEF Indexes
        <3>2. index' = HealthIndexed([index EXCEPT !.scopes = {}])
            BY <1>3, <2>4 DEF Mutated, Rebuilt
        <3> QED
            BY <1>9, <2>4, <3>1, <3>2, HealthDerived DEF FileOps
    <2> QED
        BY <1>1, <2>1, <2>2, <2>3, <2>4 DEF IndexOps
<1>11. IndexOK'
    BY <1>3, <1>10 DEF IndexOK, Canonicals, Enveloped
<1>12. HealthOK'
    <2>1. HealthIndexed(index)' = HealthIndexed(index')
        BY <1>3 DEF HealthIndexed, IsRecoveredPrimaryFailure
    <2>2. CASE Step(r).op \in FileOps
        BY <1>3, <1>10, <2>1, <2>2 DEF EvidenceInv, HealthOK
    <2>3. CASE Step(r).op \notin FileOps
        <3>1. ~Refreshing(r)
            BY <2>3 DEF Refreshing
        <3>2. \A q \in Runtimes : Refreshing(q) => Refreshing(q)'
            BY <1>6, <3>1 DEF Refreshing, Step
        <3> QED
            BY <1>3, <1>10, <2>1, <3>2 DEF EvidenceInv, HealthOK
    <2> QED
        BY <2>2, <2>3
<1> QED
    BY <1>5, <1>7, <1>8, <1>11, <1>12 DEF EvidenceInv

\* A step of the store keeps the invariant.
LEMMA StoreKeeps ==
    ASSUME EvidenceInv, NEW r \in Runtimes, StoreProgress(r)
    PROVE  EvidenceInv'
    BY WriteFileKeeps, PatchFileKeeps, TakeLockKeeps, LockTimeoutKeeps, WriteIndexKeeps,
       ReleaseLockKeeps
    DEF StoreProgress, StoreStep

-----------------------------------------------------------------------------
(* New calls *)

\* A call begins where none was, and changes nothing yet.
LEMMA CallStarts ==
    ASSUME EvidenceInv, NEW r \in Runtimes, NEW caller \in Callers \cup {None},
           NEW steps \in Seq(AnySteps), steps # <<>>, Calls(r, caller, steps),
           UNCHANGED <<attempts, index, lock, thrown, faults>>, CallOK(r)'
    PROVE  /\ FilesOK' /\ IndexOK' /\ CallsOK' /\ LockOK' /\ HealthOK'
           /\ \A k \in Jobs : Canonicals(k)' = Canonicals(k)
           /\ \A k \in Jobs : k # caller /\ LaneFiled(k) /\ lane[k] \in Lanes /\ lane'[k] = lane[k]
                => LaneFiled(k)'
<1>1. call[r] = NoCall /\ call[r].phase = "file" /\ call[r].caller = None /\ call[r].todo = <<>>
    BY DEF Calls, Waits, EvidenceInv, CallsOK, CallOK, NoCall
<1>2. call' = [call EXCEPT ![r] = [todo |-> steps, phase |-> FirstPhase(Head(steps)),
                                   view |-> None, caller |-> caller]]
    BY DEF Calls
<1>3. FirstPhase(Head(steps)) \in {"file", "lock"}
    BY DEF FirstPhase
<1>4. /\ \A q \in Runtimes : q # r => call'[q] = call[q]
      /\ call'[r].todo = steps /\ call'[r].phase \in {"file", "lock"} /\ call'[r].caller = caller
      /\ call' \in [Runtimes -> CallSet]
    BY <1>2, <1>3 DEF EvidenceInv, CallsOK, CallSet, Phases
<1>5. \A k \in Jobs : Canonicals(k)' = Canonicals(k)
    BY DEF Canonicals, Enveloped
<1>6. FilesOK'
    BY <1>5 DEF EvidenceInv, FilesOK, AttemptOf
<1>7. IndexOK'
    BY IndexKept DEF EvidenceInv
<1>8. CallsOK'
    BY <1>4, <1>5, CallKept DEF EvidenceInv, CallsOK
<1>9. LockOK'
    BY <1>1, <1>4 DEF EvidenceInv, LockOK
<1>10. HealthOK'
    BY <1>1, <1>4, HealthKept DEF Refreshing, EvidenceInv, HealthOK
<1>11. ASSUME NEW k \in Jobs, k # caller, LaneFiled(k), lane[k] \in Lanes, lane'[k] = lane[k]
       PROVE  LaneFiled(k)'
    <2>1. RuntimeOf[k] \in Runtimes /\ k # None
        BY JobsAssumption, EvidenceAssumption
    <2>2. CASE RuntimeOf[k] = r
        <3>1. \A n \in 0 .. MaxTries : ~Recording(k, n) /\ ~Recording(k, n)'
            BY <1>1, <1>4, <1>11, <2>1, <2>2 DEF Recording, Pending
        <3>2. ~Establishing(RuntimeOf[k], k)
            BY <1>1, <2>1, <2>2 DEF Establishing, CallOf
        <3>3. \A n \in 1 .. lane[k].tries : n \in 0 .. MaxTries
            BY <1>11, EvidenceAssumption DEF Lanes
        <3> QED
            BY <1>5, <1>11, <3>1, <3>2, <3>3 DEF LaneFiled, Live
    <2>3. CASE RuntimeOf[k] # r
        <3>1. call'[RuntimeOf[k]] = call[RuntimeOf[k]]
            BY <1>4, <2>1, <2>3
        <3>2. Establishing(RuntimeOf[k], k) => Establishing(RuntimeOf[k], k)'
            <4>1. StepsOf(k, Canonicals(k) \cup {Step(RuntimeOf[k]).id})
                    = StepsOf(k, Canonicals(k) \cup {Step(RuntimeOf[k]).id})'
                BY <1>5, <3>1 DEF StepsOf, PatchesOf, RegistersOf, ChangesOf, Step
            <4> QED
                BY <3>1, <4>1 DEF Establishing, CallOf, Step
        <3>3. \A n \in 0 .. MaxTries : Recording(k, n)' <=> Recording(k, n)
            BY <3>1 DEF Recording, Pending, Step
        <3>4. (Pending(k, lane[k].canonical))' <=> Pending(k, lane[k].canonical)
            BY <1>11, <3>1 DEF Pending, Step
        <3>5. \A n \in 1 .. lane[k].tries : n \in 0 .. MaxTries
            BY <1>11, EvidenceAssumption DEF Lanes
        <3> QED
            BY <1>5, <1>11, <3>2, <3>3, <3>4, <3>5 DEF LaneFiled, Live
    <2> QED
        BY <2>2, <2>3
<1> QED
    BY <1>5, <1>6, <1>7, <1>8, <1>9, <1>10, <1>11

LEMMA RebuildKeeps ==
    ASSUME EvidenceInv, NEW r \in Runtimes, Rebuild(r), UNCHANGED <<lane, tagVars>>
    PROVE  EvidenceInv'
<1> DEFINE steps == <<[op |-> "rebuild"]>>
<1>1. steps \in Seq(AnySteps) /\ steps # <<>>
    <2>1. [op |-> "rebuild"] \in [op : {"rebuild", "number", "tag", "list", "unlink", "unlist"}]
        OBVIOUS
    <2>2. [op |-> "rebuild"] \in AnySteps
        BY <2>1 DEF AnySteps
    <2> QED
        BY <2>2
<1>2. call'[r].todo = steps /\ call'[r].caller = None
      /\ \A q \in Runtimes : q # r => call'[q] = call[q]
    BY DEF Rebuild, Calls, EvidenceInv, CallsOK
<1>3. CallOK(r)'
    BY <1>2 DEF CallOK, Rebuilding
<1>4. /\ FilesOK' /\ IndexOK' /\ CallsOK' /\ LockOK' /\ HealthOK'
      /\ \A k \in Jobs : k # None /\ LaneFiled(k) /\ lane[k] \in Lanes /\ lane'[k] = lane[k]
           => LaneFiled(k)'
    BY <1>1, <1>3, CallStarts DEF Rebuild
<1>5. LanesOK'
    BY <1>4, EvidenceAssumption DEF EvidenceInv, LanesOK, LaneTyped, NewLane
<1>6. TagsOK'
    <2>1. \A t \in Tags : call'[TagRuntime].caller = t => call'[TagRuntime] = call[TagRuntime]
        BY <1>2, TagsAssumption, EvidenceAssumption
    <2> QED
        BY <2>1 DEF EvidenceInv, TagsOK, Rivals, tagVars, Making
<1> QED
    BY <1>4, <1>5, <1>6 DEF EvidenceInv

-----------------------------------------------------------------------------
(* The lanes, step by step *)

\* Where a lane goes on, what it did is in the files.
LEMMA LaneSettled ==
    ASSUME EvidenceInv, NEW j \in Jobs, Live(j), Waits(RuntimeOf[j])
    PROVE  /\ RuntimeOf[j] \in Runtimes /\ lane[j] \in Lanes /\ LaneTyped(j)
           /\ \A n \in 1 .. lane[j].tries : n \in 0 .. MaxTries /\ attempts[<<j, n>>] # None
           /\ \A n \in 0 .. MaxTries : attempts[<<j, n>>] # None => n <= lane[j].tries
           /\ lane[j].canonical \in Canonicals(j) \cup {None}
<1>1. RuntimeOf[j] \in Runtimes /\ lane[j] \in Lanes /\ LaneTyped(j) /\ LaneFiled(j)
    BY JobsAssumption DEF EvidenceInv, LanesOK
<1>2. \A n \in 1 .. lane[j].tries : n \in 0 .. MaxTries
    BY <1>1, EvidenceAssumption DEF Lanes
<1>3. \A id : ~Pending(j, id)
    BY DEF Pending, Waits
<1> QED
    BY <1>1, <1>2, <1>3 DEF LaneFiled, Recording

\* A lane that makes a call keeps the invariant when the call is right and what it
\* takes to be done is in the files, or is the first step of the call.
LEMMA LaneCallKeeps ==
    ASSUME EvidenceInv, NEW j \in Jobs, NEW steps \in Seq(AnySteps), steps # <<>>,
           LaneCalls(j, steps), UNCHANGED tagVars,
           lane' \in [Jobs -> Lanes], \A k \in Jobs : k # j => lane'[k] = lane[k],
           LaneTyped(j)', LaneFiled(j)', CallOK(RuntimeOf[j])'
    PROVE  EvidenceInv'
<1>1. RuntimeOf[j] \in Runtimes /\ j \in Callers
    BY JobsAssumption DEF Callers
<1>2. /\ FilesOK' /\ IndexOK' /\ CallsOK' /\ LockOK' /\ HealthOK'
      /\ \A k \in Jobs : k # j /\ LaneFiled(k) /\ lane[k] \in Lanes /\ lane'[k] = lane[k]
           => LaneFiled(k)'
    BY <1>1, CallStarts DEF LaneCalls
<1>3. LanesOK'
    BY <1>2 DEF EvidenceInv, LanesOK, LaneTyped, NewLane
<1>4. TagsOK'
    <2>1. call'[RuntimeOf[j]].caller = j
          /\ \A q \in Runtimes : q # RuntimeOf[j] => call'[q] = call[q]
        BY <1>1 DEF LaneCalls, Calls, EvidenceInv, CallsOK
    <2>2. \A t \in Tags : call'[TagRuntime].caller = t => call'[TagRuntime] = call[TagRuntime]
        BY <2>1, TagsAssumption, EvidenceAssumption
    <2> QED
        BY <2>2 DEF EvidenceInv, TagsOK, Rivals, tagVars, Making
<1> QED
    BY <1>2, <1>3, <1>4 DEF EvidenceInv

\* A lane that goes on by itself.
LEMMA LaneAloneKeeps ==
    ASSUME EvidenceInv, NEW j \in Jobs, UNCHANGED storeVars, UNCHANGED tagVars,
           lane' \in [Jobs -> Lanes], \A k \in Jobs : k # j => lane'[k] = lane[k],
           LaneTyped(j)', LaneFiled(j)'
    PROVE  EvidenceInv'
<1>1. UNCHANGED <<attempts, index, lock, call, thrown, faults>>
    BY DEF storeVars
<1>2. \A k \in Jobs : Canonicals(k)' = Canonicals(k)
    BY <1>1 DEF Canonicals, Enveloped
<1>3. FilesOK' /\ IndexOK' /\ LockOK'
    BY <1>1, <1>2 DEF EvidenceInv, FilesOK, AttemptOf, IndexOK, LockOK
<1>4. CallsOK'
    BY <1>1, <1>2, CallKept DEF EvidenceInv, CallsOK
<1>5. HealthOK'
    BY <1>1 DEF EvidenceInv, HealthOK, HealthIndexed, IsRecoveredPrimaryFailure, Refreshing, Step
<1>6. TagsOK'
    BY <1>1 DEF EvidenceInv, TagsOK, Rivals, tagVars, Making
<1>7. ASSUME NEW k \in Jobs, k # j PROVE LaneTyped(k)' /\ LaneFiled(k)'
    <2>1. lane'[k] = lane[k] /\ LaneTyped(k) /\ LaneFiled(k)
        BY <1>7 DEF EvidenceInv, LanesOK
    <2>2. \A n : Recording(k, n)' <=> Recording(k, n)
        BY <1>1 DEF Recording, Pending, Step
    <2>3. (Pending(k, lane[k].canonical))' <=> Pending(k, lane[k].canonical)
        BY <1>1, <2>1 DEF Pending, Step
    <2>4. Establishing(RuntimeOf[k], k)' <=> Establishing(RuntimeOf[k], k)
        <3>1. StepsOf(k, Canonicals(k) \cup {Step(RuntimeOf[k]).id})
                = StepsOf(k, Canonicals(k) \cup {Step(RuntimeOf[k]).id})'
            BY <1>1, <1>2 DEF StepsOf, PatchesOf, RegistersOf, ChangesOf, Step
        <3> QED
            BY <1>1, <3>1 DEF Establishing, CallOf, Step
    <2> QED
        BY <1>1, <1>2, <2>1, <2>2, <2>3, <2>4 DEF LaneTyped, LaneFiled, Live, NewLane
<1> QED
    BY <1>3, <1>4, <1>5, <1>6, <1>7 DEF EvidenceInv, LanesOK

\* The steps of a job are steps.
LEMMA StepsAny ==
    ASSUME NEW j \in Jobs, NEW C, C \subseteq IdsOf(j)
    PROVE  StepsOf(j, C) \subseteq AnySteps
<1>1. ChangesOf(j, C) \subseteq ChangesOf(j, IdsOf(j))
    BY DEF ChangesOf
<1>2. StepsOf(j, C) \subseteq StepsOf(j, IdsOf(j))
    BY <1>1 DEF StepsOf, PatchesOf, RegistersOf
<1> QED
    BY <1>2 DEF AnySteps

\* What a lane that has something in the files may ask for.
LEMMA StepsKnown ==
    ASSUME NEW j \in Jobs, NEW C, NEW id \in IdsOf(j)
    PROVE  /\ \A e \in EnvelopesOf(j) : Patch(id, [envelope |-> e]) \in StepsOf(j, C)
           /\ \A c \in C : Patch(id, [job |-> j, canonical |-> c]) \in StepsOf(j, C)
           /\ \A c \in C : Register(j, c, id) \in StepsOf(j, C)
           /\ \A other \in Ids : Patch(id, [link |-> other]) \in StepsOf(j, C)
           /\ \A b \in BOOLEAN : Patch(id, [error |-> b]) \in StepsOf(j, C)
           /\ \A v \in Verdicts : Patch(id, [lineage |-> v]) \in StepsOf(j, C)
           /\ \A v \in Verdicts : Patch(id, [error |-> TRUE, lineage |-> v]) \in StepsOf(j, C)
<1>1. \A change \in ChangesOf(j, C) : Patch(id, change) \in StepsOf(j, C)
    BY DEF Patch, StepsOf, PatchesOf
<1>2. \A c \in C : Register(j, c, id) \in StepsOf(j, C)
    BY DEF Register, StepsOf, RegistersOf
<1>3. \A e \in EnvelopesOf(j) : [envelope |-> e] \in ChangesOf(j, C)
    BY DEF ChangesOf
<1>4. \A c \in C : [job |-> j, canonical |-> c] \in ChangesOf(j, C)
    BY DEF ChangesOf
<1>5. \A other \in Ids : [link |-> other] \in ChangesOf(j, C)
    BY DEF ChangesOf
<1>6. \A b \in BOOLEAN : [error |-> b] \in ChangesOf(j, C)
    BY DEF ChangesOf
<1>7. \A v \in Verdicts : [lineage |-> v] \in ChangesOf(j, C)
    BY DEF ChangesOf
<1>8. \A v \in Verdicts : [error |-> TRUE, lineage |-> v] \in ChangesOf(j, C)
    BY DEF ChangesOf
<1> QED
    BY <1>1, <1>2, <1>3, <1>4, <1>5, <1>6, <1>7, <1>8

\* The record of an inference is a call that may be made where there is no record.
LEMMA RecordStarts ==
    ASSUME EvidenceInv, NEW j \in Jobs, NEW n \in 0 .. MaxTries,
           NEW kind \in {"upstream", "primary", "correction"},
           lane[j] \in Lanes, lane[j].canonical \in Canonicals(j) \cup {None},
           attempts[<<j, n>>] = None,
           LaneCalls(j, <<Write(<<j, n>>, Recorded(j, kind, n))>>)
    PROVE  /\ <<Write(<<j, n>>, Recorded(j, kind, n))>> \in Seq(AnySteps) \ {<<>>}
           /\ CallOK(RuntimeOf[j])'
           /\ \A m \in 0 .. MaxTries : Recording(j, m)' <=> m = n
           /\ ~Establishing(RuntimeOf[j], j)'
<1> DEFINE a == Recorded(j, kind, n)  r == RuntimeOf[j]  w == Write(<<j, n>>, a)
<1>1. r \in Runtimes /\ <<j, n>> \in IdsOf(j) /\ <<j, n>> \in Ids
    BY JobsAssumption, IdsApart
<1>2. lane[j].canonical \in Ids \cup {None}
    BY DEF Lanes
<1>3. a \in Attempts /\ a.job \in {j, None} /\ a.canonical = lane[j].canonical /\ a.envelope = None
    <2>1. Parented \subseteq Jobs /\ (j \in Parented) \in BOOLEAN
        BY JobsAssumption
    <2> QED
        BY <1>2, <2>1 DEF Recorded, Attempts
<1>4. AttemptOf(WithHealth(a), j)
    BY <1>3, HealthTyped DEF AttemptOf
<1>5. w \in [op : {"write"}, id : Ids, attempt : Attempts]
      /\ w \in [op : {"write"}, id : IdsOf(j), attempt : Attempts]
      /\ w.attempt = WithHealth(a) /\ w.id = <<j, n>> /\ w.op = "write"
    BY <1>1, <1>3, HealthTyped DEF Write
<1>6. <<w>> \in Seq(AnySteps) \ {<<>>}
    <2>1. w \in AnySteps
        BY <1>5 DEF AnySteps
    <2> QED
        BY <2>1
<1>7. PICK v : v = w
    OBVIOUS
<1>8. call'[r] = [todo |-> <<v>>, phase |-> "file", view |-> None, caller |-> j]
    <2>1. FirstPhase(w) = "file"
        BY <1>5 DEF FirstPhase, FileOps
    <2>2. Head(<<w>>) = w
        OBVIOUS
    <2>3. call' = [call EXCEPT ![r] = [todo |-> <<w>>, phase |-> FirstPhase(Head(<<w>>)),
                                       view |-> None, caller |-> j]]
        BY DEF LaneCalls, Calls
    <2> HIDE DEF w
    <2> QED
        BY <1>1, <1>7, <2>1, <2>2, <2>3 DEF EvidenceInv, CallsOK
<1>9. Step(r)' = v
    BY <1>8 DEF Step
<1>10. CallOK(r)'
    <2>1. Canonicals(j)' = Canonicals(j) /\ attempts' = attempts
        BY DEF LaneCalls, Canonicals, Enveloped
    <2>2. AttemptOf(v.attempt, j)'
        BY <1>4, <1>5, <1>7, <2>1 DEF AttemptOf
    <2>3. v \in [op : {"write"}, id : IdsOf(j), attempt : Attempts] /\ v.id = <<j, n>>
        BY <1>5, <1>7
    <2>4. call'[r].todo = <<v>> /\ call'[r].caller = j /\ call'[r].phase = "file"
        BY <1>8
    <2>5. Writing(r, j)'
        BY <1>9, <2>1, <2>2, <2>3, <2>4 DEF Writing, CallOf
    <2> QED
        BY <2>4, <2>5 DEF CallOK
<1>11. \A m \in 0 .. MaxTries : Recording(j, m)' <=> m = n
    <2>1. v.op = "write" /\ v.id = <<j, n>>
        BY <1>5, <1>7
    <2>2. call'[r].todo = <<v>> /\ call'[r].caller = j /\ call'[r].phase = "file"
        BY <1>8
    <2> QED
        BY <1>9, <2>1, <2>2 DEF Recording, Pending
<1>12. ~Establishing(r, j)'
    BY <1>5, <1>7, <1>9 DEF Establishing
<1> QED
    BY <1>6, <1>10, <1>11, <1>12

LEMMA OpenKeeps ==
    ASSUME EvidenceInv, NEW j \in Jobs, Open(j), UNCHANGED tagVars
    PROVE  EvidenceInv'
<1>1. lane[j] \in Lanes /\ LaneTyped(j) /\ LaneFiled(j) /\ lane[j].stage = "idle"
    BY DEF Open, Runs, EvidenceInv, LanesOK
<1>2. lane[j].canonical = None /\ lane[j].tries = 0 /\ lane[j].envelope \in EnvelopesOf(j)
    BY <1>1 DEF LaneTyped, NewLane
<1>3. \A n \in 0 .. MaxTries : attempts[<<j, n>>] = None
    BY <1>1 DEF LaneFiled
<1> DEFINE steps == <<Write(<<j, 0>>, Recorded(j, "upstream", 0))>>
<1>4. LaneCalls(j, steps) /\ lane' = [lane EXCEPT ![j].stage = "opened"]
    BY DEF Open, Upstream
<1>5. /\ steps \in Seq(AnySteps) \ {<<>>}
      /\ CallOK(RuntimeOf[j])'
      /\ \A m \in 0 .. MaxTries : Recording(j, m)' <=> m = 0
    <2> HIDE DEF steps
    <2> QED
        BY <1>1, <1>2, <1>3, <1>4, RecordStarts, IdsApart DEF steps
<1>6. lane' \in [Jobs -> Lanes] /\ lane'[j].stage = "opened" /\ lane'[j].canonical = None
      /\ lane'[j].tries = 0 /\ lane'[j].envelope = lane[j].envelope
      /\ \A k \in Jobs : k # j => lane'[k] = lane[k]
    BY <1>1, <1>2, <1>4 DEF EvidenceInv, LanesOK, Lanes, Stages
<1>7. LaneTyped(j)'
    BY <1>2, <1>6 DEF LaneTyped
<1>8. LaneFiled(j)'
    <2>1. attempts' = attempts
        BY <1>4 DEF LaneCalls
    <2> QED
        BY <1>3, <1>5, <1>6, <2>1 DEF LaneFiled
<1> HIDE DEF steps
<1> QED
    BY <1>4, <1>5, <1>6, <1>7, <1>8, LaneCallKeeps

LEMMA InferKeeps ==
    ASSUME EvidenceInv, NEW j \in Jobs, Infer(j), UNCHANGED tagVars
    PROVE  EvidenceInv'
<1> DEFINE n == lane[j].tries + 1
           kind == IF KindOf[j] = "mediation" /\ n > 1 THEN "correction" ELSE "primary"
           steps == <<Write(<<j, n>>, Recorded(j, kind, n))>>
<1>1. lane[j].stage = "opened" /\ Waits(RuntimeOf[j]) /\ lane[j].tries < MaxTries
    BY DEF Infer, Runs
<1>2. /\ lane[j] \in Lanes /\ LaneTyped(j)
      /\ \A m \in 1 .. lane[j].tries : m \in 0 .. MaxTries /\ attempts[<<j, m>>] # None
      /\ \A m \in 0 .. MaxTries : attempts[<<j, m>>] # None => m <= lane[j].tries
      /\ lane[j].canonical \in Canonicals(j) \cup {None}
    BY <1>1, LaneSettled DEF Live
<1>3. n \in 1 .. MaxTries /\ n \in 0 .. MaxTries /\ lane[j].tries \in Nat
    BY <1>1, <1>2, EvidenceAssumption DEF Lanes
<1>4. attempts[<<j, n>>] = None
    BY <1>2, <1>3
<1>5. PICK outcome \in Outcomes :
        lane' = [lane EXCEPT ![j].stage = "inferred", ![j].tries = n, ![j].outcome = outcome]
    BY DEF Infer
<1>6. LaneCalls(j, steps)
    BY DEF Infer
<1>7. kind \in {"upstream", "primary", "correction"}
    OBVIOUS
<1>8. /\ steps \in Seq(AnySteps) \ {<<>>}
      /\ CallOK(RuntimeOf[j])'
      /\ \A m \in 0 .. MaxTries : Recording(j, m)' <=> m = n
    <2> HIDE DEF n, kind
    <2> QED
        BY <1>2, <1>3, <1>4, <1>6, <1>7, RecordStarts
<1>9. lane' \in [Jobs -> Lanes] /\ lane'[j].stage = "inferred"
      /\ lane'[j].canonical = lane[j].canonical
      /\ lane'[j].tries = n /\ lane'[j].envelope = lane[j].envelope
      /\ \A k \in Jobs : k # j => lane'[k] = lane[k]
    <2> HIDE DEF n
    <2> QED
        BY <1>2, <1>3, <1>5 DEF EvidenceInv, LanesOK, Lanes, Stages
<1>10. LaneTyped(j)'
    BY <1>2, <1>3, <1>9 DEF LaneTyped
<1>11. LaneFiled(j)'
    <2>1. attempts' = attempts /\ Canonicals(j)' = Canonicals(j)
        BY <1>6 DEF LaneCalls, Canonicals, Enveloped
    <2>2. \A m \in 0 .. MaxTries : attempts'[<<j, m>>] # None \/ Recording(j, m)' => m <= n
        BY <1>2, <1>3, <1>8, <2>1
    <2>3. \A m \in 1 .. n : attempts'[<<j, m>>] # None \/ Recording(j, m)'
        BY <1>2, <1>3, <1>8, <2>1
    <2> HIDE DEF n
    <2> QED
        BY <1>2, <1>9, <2>1, <2>2, <2>3 DEF LaneFiled
<1> HIDE DEF steps
<1> QED
    BY <1>6, <1>8, <1>9, <1>10, <1>11, LaneCallKeeps

\* A lane links attempts to canonical ones.
LEMMA LinksKeep ==
    ASSUME EvidenceInv, NEW j \in Jobs, Live(j), Waits(RuntimeOf[j]), UNCHANGED tagVars,
           NEW steps \in Seq(StepsOf(j, Canonicals(j))), steps # <<>>, LaneCalls(j, steps),
           lane' \in [Jobs -> Lanes], \A k \in Jobs : k # j => lane'[k] = lane[k],
           LaneTyped(j)', lane'[j].tries = lane[j].tries, lane'[j].stage # "idle",
           lane'[j].canonical \in Canonicals(j) \cup {None}
    PROVE  EvidenceInv'
<1> DEFINE r == RuntimeOf[j]
<1>1. /\ r \in Runtimes /\ lane[j] \in Lanes
      /\ \A n \in 1 .. lane[j].tries : n \in 0 .. MaxTries /\ attempts[<<j, n>>] # None
      /\ \A n \in 0 .. MaxTries : attempts[<<j, n>>] # None => n <= lane[j].tries
    BY LaneSettled
<1>2. steps \in Seq(AnySteps)
    BY StepsAny DEF Canonicals
<1>3. Head(steps) \in StepsOf(j, Canonicals(j))
    OBVIOUS
<1>4. Head(steps).op \in {"patch", "register"}
    BY <1>3 DEF StepsOf, PatchesOf, RegistersOf
<1>5. call'[r].todo = steps /\ call'[r].phase = FirstPhase(Head(steps)) /\ call'[r].caller = j
    BY <1>1 DEF LaneCalls, Calls, EvidenceInv, CallsOK
<1>6. attempts' = attempts /\ Canonicals(j)' = Canonicals(j)
    BY DEF LaneCalls, Canonicals, Enveloped
<1>7. CallOK(r)'
    <2>1. StepsOf(j, Canonicals(j))' = StepsOf(j, Canonicals(j))
        BY <1>6 DEF StepsOf, PatchesOf, RegistersOf, ChangesOf
    <2>2. Step(r)' = Head(steps)
        BY <1>5 DEF Step
    <2>3. Head(steps).op = "patch" => FirstPhase(Head(steps)) = "file"
        BY DEF FirstPhase, IndexOps, FileOps
    <2>4. Linking(r, j)'
        BY <1>5, <2>1, <2>2, <2>3 DEF Linking, CallOf
    <2> QED
        BY <1>5, <2>4 DEF CallOK
<1>8. LaneFiled(j)'
    <2>1. \A n : ~Recording(j, n)'
        BY <1>4, <1>5 DEF Recording, Step
    <2> QED
        BY <1>1, <1>6, <2>1 DEF LaneFiled
<1> QED
    BY <1>1, <1>2, <1>7, <1>8, LaneCallKeeps

\* A lane puts the envelope on an attempt and takes it for its canonical one.
LEMMA EnvelopeKeeps ==
    ASSUME EvidenceInv, NEW j \in Jobs, Live(j), Waits(RuntimeOf[j]), UNCHANGED tagVars,
           NEW id \in IdsOf(j), attempts[id] # None, NEW envelope \in EnvelopesOf(j),
           NEW rest \in Seq(StepsOf(j, Canonicals(j) \cup {id})),
           LaneCalls(j, EstablishCalls(j, envelope, id) \o rest),
           lane' \in [Jobs -> Lanes], \A k \in Jobs : k # j => lane'[k] = lane[k],
           LaneTyped(j)', lane'[j].tries = lane[j].tries, lane'[j].stage # "idle",
           lane'[j].canonical = id
    PROVE  EvidenceInv'
<1> DEFINE r == RuntimeOf[j]  C == Canonicals(j) \cup {id}
           p == Patch(id, [envelope |-> envelope])
           q == Patch(id, [job |-> j, canonical |-> id])
           g == Register(j, id, id)
           steps == <<p, q, g>> \o rest
<1>1. /\ r \in Runtimes /\ lane[j] \in Lanes
      /\ \A n \in 1 .. lane[j].tries : n \in 0 .. MaxTries /\ attempts[<<j, n>>] # None
      /\ \A n \in 0 .. MaxTries : attempts[<<j, n>>] # None => n <= lane[j].tries
    BY LaneSettled
<1>2. p \in StepsOf(j, C) /\ q \in StepsOf(j, C) /\ g \in StepsOf(j, C) /\ C \subseteq IdsOf(j)
    BY StepsKnown DEF Canonicals
<1>3. p \in [op : {"patch"}, id : IdsOf(j), change : [envelope : EnvelopesOf(j)]] /\ p.op = "patch"
      /\ p.id = id
    BY DEF Patch
<1>4. LaneCalls(j, steps)
    BY DEF EstablishCalls
<1>5. steps \in Seq(StepsOf(j, C)) /\ steps # <<>> /\ Head(steps) = p
      /\ Tail(steps) \in Seq(StepsOf(j, C))
    <2> DEFINE S == StepsOf(j, C)  t == <<p, q, g>>
    <2>1. p \in S /\ q \in S /\ g \in S /\ rest \in Seq(S)
        BY <1>2
    <2> HIDE DEF p, q, g, S
    <2>2. t \in Seq(S) /\ Len(t) = 3 /\ t[1] = p
        BY <2>1
    <2> HIDE DEF t
    <2>3. t \o rest \in Seq(S) /\ Len(t \o rest) = 3 + Len(rest) /\ (t \o rest)[1] = p
        <3>1. /\ t \o rest \in Seq(S) /\ Len(t \o rest) = Len(t) + Len(rest)
              /\ \A i \in 1 .. Len(t) + Len(rest) :
                    (t \o rest)[i] = IF i <= Len(t) THEN t[i] ELSE rest[i - Len(t)]
            BY <2>1, <2>2, ConcatProperties
        <3>2. Len(rest) \in Nat
            BY <2>1
        <3>3. 1 \in 1 .. Len(t) + Len(rest) /\ 1 <= Len(t)
            BY <2>2, <3>2
        <3> QED
            BY <2>2, <3>1, <3>3
    <2>4. Head(t \o rest) = p /\ t \o rest # <<>> /\ Tail(t \o rest) \in Seq(S)
        BY <2>1, <2>3
    <2> QED
        BY <2>3, <2>4 DEF t, S
<1>6. steps \in Seq(AnySteps)
    BY <1>2, <1>5, StepsAny
<1>7. PICK s, head : s = steps /\ head = p
    OBVIOUS
<1> HIDE DEF steps, p, q, g
<1>8. call'[r].todo = s /\ call'[r].phase = FirstPhase(Head(s)) /\ call'[r].caller = j
    <2>1. LaneCalls(j, s)
        BY <1>4, <1>7
    <2>2. call \in [Runtimes -> CallSet]
        BY DEF EvidenceInv, CallsOK
    <2>3. call' = [call EXCEPT ![r] = [todo |-> s, phase |-> FirstPhase(Head(s)),
                                       view |-> None, caller |-> j]]
        BY <2>1 DEF LaneCalls, Calls
    <2> QED
        BY <1>1, <2>2, <2>3
<1>9. FirstPhase(Head(s)) = "file" /\ Step(r)' = head /\ head.op = "patch" /\ head.id = id
    BY <1>3, <1>5, <1>7, <1>8 DEF FirstPhase, IndexOps, FileOps, Step
<1>10. attempts' = attempts /\ Canonicals(j)' = Canonicals(j)
    BY <1>4 DEF LaneCalls, Canonicals, Enveloped
<1>11. Establishing(r, j)'
    <2>1. StepsOf(j, Canonicals(j) \cup {Step(r).id})' = StepsOf(j, Canonicals(j) \cup {id})
        BY <1>9, <1>10 DEF StepsOf, PatchesOf, RegistersOf, ChangesOf
    <2>2. Tail(s) \in Seq(StepsOf(j, Canonicals(j) \cup {id})) /\ s # <<>>
        BY <1>5, <1>7
    <2>3. head \in [op : {"patch"}, id : IdsOf(j), change : [envelope : EnvelopesOf(j)]]
        BY <1>3, <1>7
    <2> QED
        BY <1>8, <1>9, <1>10, <2>1, <2>2, <2>3 DEF Establishing, CallOf
<1>12. CallOK(r)'
    BY <1>11 DEF CallOK, Establishing
<1>13. LaneFiled(j)'
    <2>1. \A n : ~Recording(j, n)'
        BY <1>9 DEF Recording
    <2>2. (Pending(j, lane[j].canonical))'
        BY <1>8, <1>9, <1>11 DEF Pending, Establishing
    <2> QED
        BY <1>1, <1>10, <1>11, <2>1, <2>2 DEF LaneFiled
<1> QED
    BY <1>1, <1>4, <1>5, <1>6, <1>12, <1>13, LaneCallKeeps

\* The links of a lane are steps of its job.
LEMMA LinksKnown ==
    ASSUME NEW j \in Jobs, NEW C, NEW n \in 0 .. MaxTries
    PROVE  LinkCalls(Upstream(j), <<j, n>>) \in Seq(StepsOf(j, C))
<1>1. Upstream(j) \in IdsOf(j) /\ Upstream(j) \in Ids /\ <<j, n>> \in IdsOf(j) /\ <<j, n>> \in Ids
    BY IdsApart DEF Upstream
<1>2. Patch(Upstream(j), [link |-> <<j, n>>]) \in StepsOf(j, C)
      /\ Patch(<<j, n>>, [link |-> Upstream(j)]) \in StepsOf(j, C)
    BY <1>1, StepsKnown
<1> QED
    BY <1>2 DEF LinkCalls

\* So is what attaches an attempt to a canonical one.
LEMMA AttachKnown ==
    ASSUME NEW j \in Jobs, NEW C, NEW canonical \in C, canonical \in IdsOf(j),
           NEW id \in IdsOf(j), NEW envelope \in EnvelopesOf(j)
    PROVE  AttachCalls(j, envelope, canonical, id) \in Seq(StepsOf(j, C)) \ {<<>>}
<1>1. /\ Patch(id, [job |-> j, canonical |-> canonical]) \in StepsOf(j, C)
      /\ Register(j, canonical, id) \in StepsOf(j, C)
      /\ Patch(canonical, [envelope |-> envelope]) \in StepsOf(j, C)
    BY StepsKnown
<1> QED
    BY <1>1 DEF AttachCalls

\* One list of steps after another.
LEMMA JoinedSteps ==
    ASSUME NEW S, NEW s \in Seq(S), NEW t \in Seq(S)
    PROVE  s \o t \in Seq(S) /\ (s # <<>> \/ t # <<>> => s \o t # <<>>)
<1>1. s \o t \in Seq(S) /\ Len(s \o t) = Len(s) + Len(t) /\ Len(s) \in Nat /\ Len(t) \in Nat
    BY ConcatProperties
<1>2. (s # <<>> => Len(s) # 0) /\ (t # <<>> => Len(t) # 0)
    OBVIOUS
<1> QED
    BY <1>1, <1>2

LEMMA JoinMediationKeeps ==
    ASSUME EvidenceInv, NEW j \in Jobs, JoinMediation(j), UNCHANGED tagVars
    PROVE  EvidenceInv'
<1> DEFINE first == With(lane[j].envelope, {Primary(j)})
           last == With(first, {Final(j)})
           C == Canonicals(j) \cup {Primary(j)}
           rest == IF lane[j].tries = 1 THEN <<>> ELSE AttachCalls(j, last, Primary(j), Final(j))
<1>1. lane[j].stage = "inferred" /\ Waits(RuntimeOf[j]) /\ Live(j)
    BY DEF JoinMediation, Runs, Live
<1>2. /\ lane[j] \in Lanes /\ LaneTyped(j)
      /\ \A m \in 1 .. lane[j].tries : m \in 0 .. MaxTries /\ attempts[<<j, m>>] # None
    BY <1>1, LaneSettled
<1>3. lane[j].tries \in 1 .. lane[j].tries /\ 1 \in 1 .. lane[j].tries
    BY <1>1, <1>2, EvidenceAssumption DEF LaneTyped, Lanes
<1>4. /\ Primary(j) \in IdsOf(j) /\ Final(j) \in IdsOf(j) /\ attempts[Primary(j)] # None
      /\ Primary(j) \in Ids /\ Final(j) \in Ids
    BY <1>2, <1>3, IdsApart DEF Primary, Final
<1>5. first \in EnvelopesOf(j) /\ last \in EnvelopesOf(j)
    <2>1. lane[j].envelope \in EnvelopesOf(j)
        BY <1>2 DEF LaneTyped
    <2>2. \A e \in EnvelopesOf(j), id \in Ids : With(e, {id}) \in EnvelopesOf(j)
        BY DEF With, EnvelopesOf
    <2> QED
        BY <1>4, <2>1, <2>2
<1>6. rest \in Seq(StepsOf(j, C))
    <2>1. Primary(j) \in C
        OBVIOUS
    <2> HIDE DEF first, last, C
    <2>2. AttachCalls(j, last, Primary(j), Final(j)) \in Seq(StepsOf(j, C))
        BY <1>4, <1>5, <2>1, AttachKnown
    <2> QED
        BY <2>2
<1>7. LaneCalls(j, EstablishCalls(j, first, Primary(j)) \o rest)
      /\ lane' = [lane EXCEPT ![j].stage = "joined", ![j].canonical = Primary(j), ![j].envelope = last]
    BY DEF JoinMediation
<1> HIDE DEF first, last, rest, C
<1>8. lane' \in [Jobs -> Lanes] /\ lane'[j].stage = "joined" /\ lane'[j].canonical = Primary(j)
      /\ lane'[j].tries = lane[j].tries /\ lane'[j].envelope = last
      /\ \A k \in Jobs : k # j => lane'[k] = lane[k]
    <2>1. last \in Envelopes
        BY <1>5, EnvelopesApart
    <2> QED
        BY <1>2, <1>4, <1>7, <2>1 DEF EvidenceInv, LanesOK, Lanes, Stages
<1>9. LaneTyped(j)'
    <2>1. lane[j].tries > 0 /\ Primary(j) # None
        BY <1>1, <1>2, <1>4, IdsApart DEF LaneTyped
    <2> QED
        BY <1>4, <1>5, <1>8, <2>1 DEF LaneTyped
<1> QED
    BY <1>1, <1>4, <1>5, <1>6, <1>7, <1>8, <1>9, EnvelopeKeeps DEF C

LEMMA JoinSelectionKeeps ==
    ASSUME EvidenceInv, NEW j \in Jobs, JoinSelection(j), UNCHANGED tagVars
    PROVE  EvidenceInv'
<1> DEFINE envelope == With(lane[j].envelope, {Final(j)})
           links == IF lane[j].outcome = "failed" THEN <<>> ELSE LinkCalls(Upstream(j), Final(j))
<1>1. lane[j].stage = "inferred" /\ Waits(RuntimeOf[j]) /\ Live(j)
    BY DEF JoinSelection, Runs, Live
<1>2. /\ lane[j] \in Lanes /\ LaneTyped(j)
      /\ \A m \in 1 .. lane[j].tries : m \in 0 .. MaxTries /\ attempts[<<j, m>>] # None
      /\ lane[j].canonical \in Canonicals(j) \cup {None}
    BY <1>1, LaneSettled
<1>3. lane[j].tries \in 1 .. lane[j].tries /\ lane[j].tries > 0
    BY <1>1, <1>2, EvidenceAssumption DEF LaneTyped, Lanes
<1>4. Final(j) \in IdsOf(j) /\ attempts[Final(j)] # None /\ Final(j) \in Ids /\ Final(j) # None
    BY <1>2, <1>3, IdsApart DEF Final
<1>5. envelope \in EnvelopesOf(j)
    <2>1. lane[j].envelope \in EnvelopesOf(j)
        BY <1>2 DEF LaneTyped
    <2>2. \A e \in EnvelopesOf(j), id \in Ids : With(e, {id}) \in EnvelopesOf(j)
        BY DEF With, EnvelopesOf
    <2> QED
        BY <1>4, <2>1, <2>2
<1>6. \A C : links \in Seq(StepsOf(j, C))
    BY <1>2, <1>3, LinksKnown DEF Final
<1>7. LaneCalls(j, Joining(j, envelope) \o links)
      /\ lane' = [lane EXCEPT ![j].stage = "joined", ![j].envelope = envelope,
                              ![j].canonical = IF @ = None THEN Final(j) ELSE @]
    BY DEF JoinSelection
<1> HIDE DEF envelope, links
<1>8. lane' \in [Jobs -> Lanes] /\ lane'[j].stage = "joined" /\ lane'[j].envelope = envelope
      /\ lane'[j].canonical = (IF lane[j].canonical = None THEN Final(j) ELSE lane[j].canonical)
      /\ lane'[j].tries = lane[j].tries
      /\ \A k \in Jobs : k # j => lane'[k] = lane[k]
    <2>1. envelope \in Envelopes
        BY <1>5, EnvelopesApart
    <2> QED
        BY <1>2, <1>4, <1>7, <2>1 DEF EvidenceInv, LanesOK, Lanes, Stages
<1>9. LaneTyped(j)'
    BY <1>2, <1>3, <1>4, <1>5, <1>8 DEF LaneTyped
<1>10. CASE lane[j].canonical = None
    <2>1. LaneCalls(j, EstablishCalls(j, envelope, Final(j)) \o links)
        BY <1>7, <1>10 DEF Joining
    <2> QED
        BY <1>1, <1>4, <1>5, <1>6, <1>8, <1>9, <1>10, <2>1, EnvelopeKeeps
<1>11. CASE lane[j].canonical # None
    <2> DEFINE attach == AttachCalls(j, envelope, lane[j].canonical, Final(j))
    <2>1. attach \in Seq(StepsOf(j, Canonicals(j))) \ {<<>>}
        BY <1>2, <1>4, <1>5, <1>11, AttachKnown DEF Canonicals
    <2>2. LaneCalls(j, attach \o links)
        BY <1>7, <1>11 DEF Joining
    <2> HIDE DEF attach
    <2>3. attach \o links \in Seq(StepsOf(j, Canonicals(j))) /\ attach \o links # <<>>
        BY <1>6, <2>1, JoinedSteps
    <2> QED
        BY <1>1, <1>2, <1>8, <1>9, <1>11, <2>2, <2>3, LinksKeep
<1> QED
    BY <1>10, <1>11

\* A lane closes its envelope behind what it still has to say.
LEMMA ClosesKeeps ==
    ASSUME EvidenceInv, NEW j \in Jobs, Runs(j, "joined"), UNCHANGED tagVars,
           NEW accepted \in BOOLEAN, NEW steps \in Seq(StepsOf(j, Canonicals(j))),
           Closes(j, accepted, steps)
    PROVE  EvidenceInv'
<1>1. lane[j].stage = "joined" /\ Waits(RuntimeOf[j]) /\ Live(j)
    BY DEF Runs, Live
<1>2. /\ lane[j] \in Lanes /\ LaneTyped(j)
      /\ lane[j].canonical \in Canonicals(j) \cup {None}
    BY <1>1, LaneSettled
<1>3. lane[j].canonical \in Canonicals(j) /\ lane[j].canonical \in IdsOf(j)
    BY <1>1, <1>2 DEF LaneTyped, Canonicals
<1>4. ClosedEnvelope(j, accepted) \in EnvelopesOf(j)
    BY <1>2 DEF LaneTyped, ClosedEnvelope, EnvelopesOf, Kinds
<1> DEFINE close == Patch(lane[j].canonical, [envelope |-> ClosedEnvelope(j, accepted)])
<1>5. close \in StepsOf(j, Canonicals(j))
    BY <1>3, <1>4, StepsKnown
<1>6. LaneCalls(j, steps \o <<close>>)
      /\ lane' = [lane EXCEPT ![j].stage = "closing", ![j].accepted = accepted,
                              ![j].envelope = ClosedEnvelope(j, accepted)]
    BY DEF Closes
<1>7. lane' \in [Jobs -> Lanes] /\ lane'[j].stage = "closing"
      /\ lane'[j].envelope = ClosedEnvelope(j, accepted)
      /\ lane'[j].canonical = lane[j].canonical /\ lane'[j].tries = lane[j].tries
      /\ \A k \in Jobs : k # j => lane'[k] = lane[k]
    <2>1. ClosedEnvelope(j, accepted) \in Envelopes
        BY <1>4, EnvelopesApart
    <2> QED
        BY <1>2, <1>6, <2>1 DEF EvidenceInv, LanesOK, Lanes, Stages
<1>8. LaneTyped(j)'
    BY <1>1, <1>2, <1>4, <1>7 DEF LaneTyped
<1> HIDE DEF close
<1>9. steps \o <<close>> \in Seq(StepsOf(j, Canonicals(j))) /\ steps \o <<close>> # <<>>
    <2>1. <<close>> \in Seq(StepsOf(j, Canonicals(j))) /\ <<close>> # <<>>
        BY <1>5
    <2> QED
        BY <2>1, JoinedSteps
<1> QED
    BY <1>1, <1>2, <1>6, <1>7, <1>8, <1>9, LinksKeep

LEMMA EndSelectionKeeps ==
    ASSUME EvidenceInv, NEW j \in Jobs, EndSelection(j), UNCHANGED tagVars
    PROVE  EvidenceInv'
<1>1. <<>> \in Seq(StepsOf(j, Canonicals(j)))
    OBVIOUS
<1> QED
    BY <1>1, ClosesKeeps DEF EndSelection

LEMMA EndMediationKeeps ==
    ASSUME EvidenceInv, NEW j \in Jobs, EndMediation(j), UNCHANGED tagVars
    PROVE  EvidenceInv'
<1> DEFINE S == StepsOf(j, Canonicals(j))
<1>1. lane[j].stage = "joined" /\ Waits(RuntimeOf[j]) /\ Live(j)
    BY DEF EndMediation, Runs, Live
<1>2. /\ lane[j] \in Lanes /\ LaneTyped(j)
      /\ \A m \in 1 .. lane[j].tries : m \in 0 .. MaxTries
    BY <1>1, LaneSettled
<1>3. lane[j].tries \in 0 .. MaxTries /\ 1 \in 0 .. MaxTries
    BY <1>2, IdsApart DEF Lanes
<1>4. Primary(j) = <<j, 1>> /\ Final(j) = <<j, lane[j].tries>>
      /\ Primary(j) \in IdsOf(j) /\ Final(j) \in IdsOf(j)
    BY <1>3, IdsApart DEF Primary, Final
<1>5. Lineage(j) \in Verdicts
    BY DEF Lineage, Verdicts
<1> DEFINE failed == <<Patch(Primary(j), [error |-> lane[j].outcome # "read"])>>
           lined == <<Patch(Final(j), [lineage |-> Lineage(j)])>>
           both == <<Patch(Primary(j), [error |-> TRUE, lineage |-> Lineage(j)])>>
           linked == LinkCalls(Upstream(j), Primary(j))
           corrected == LinkCalls(Upstream(j), Final(j))
<1>6. failed \in Seq(S) /\ lined \in Seq(S) /\ both \in Seq(S)
    <2>1. Patch(Primary(j), [error |-> lane[j].outcome # "read"]) \in S
        BY <1>4, StepsKnown
    <2>2. Patch(Final(j), [lineage |-> Lineage(j)]) \in S
        BY <1>4, <1>5, StepsKnown
    <2>3. Patch(Primary(j), [error |-> TRUE, lineage |-> Lineage(j)]) \in S
        BY <1>4, <1>5, StepsKnown
    <2> QED
        BY <2>1, <2>2, <2>3
<1>7. linked \in Seq(S) /\ corrected \in Seq(S)
    BY <1>3, <1>4, LinksKnown
<1>8. MediationCalls(j) = IF lane[j].tries = 1 THEN failed \o linked
                          ELSE lined \o corrected \o both \o linked
    BY DEF MediationCalls
<1>9. MediationCalls(j) \in Seq(S)
    <2> HIDE DEF failed, lined, both, linked, corrected, S
    <2>1. failed \o linked \in Seq(S) /\ lined \o corrected \in Seq(S)
        BY <1>6, <1>7, JoinedSteps
    <2>2. lined \o corrected \o both \in Seq(S)
        BY <1>6, <2>1, JoinedSteps
    <2>3. lined \o corrected \o both \o linked \in Seq(S)
        BY <1>7, <2>2, JoinedSteps
    <2> QED
        BY <1>8, <2>1, <2>3
<1> QED
    BY <1>9, ClosesKeeps DEF EndMediation

\* A lane that only changes its stage.
LEMMA LaneStaged ==
    ASSUME EvidenceInv, NEW j \in Jobs, NEW stage \in {"opened", "done", "dead"},
           stage = "opened" => Live(j), lane' = [lane EXCEPT ![j].stage = stage],
           UNCHANGED storeVars, UNCHANGED tagVars
    PROVE  EvidenceInv'
<1>1. lane[j] \in Lanes /\ LaneTyped(j) /\ LaneFiled(j)
    BY DEF EvidenceInv, LanesOK
<1>2. lane' \in [Jobs -> Lanes] /\ lane'[j].stage = stage /\ lane'[j].canonical = lane[j].canonical
      /\ lane'[j].tries = lane[j].tries /\ lane'[j].envelope = lane[j].envelope
      /\ \A k \in Jobs : k # j => lane'[k] = lane[k]
    BY <1>1 DEF EvidenceInv, LanesOK, Lanes, Stages
<1>3. LaneTyped(j)'
    BY <1>1, <1>2 DEF LaneTyped
<1>4. LaneFiled(j)'
    <2>1. UNCHANGED <<attempts, call>> /\ Canonicals(j)' = Canonicals(j)
        BY DEF storeVars, Canonicals, Enveloped
    <2>2. \A n : Recording(j, n)' <=> Recording(j, n)
        BY <2>1 DEF Recording, Pending, Step
    <2>3. (Pending(j, lane[j].canonical))' <=> Pending(j, lane[j].canonical)
        BY <1>2, <2>1 DEF Pending, Step
    <2>4. Establishing(RuntimeOf[j], j)' <=> Establishing(RuntimeOf[j], j)
        <3>1. StepsOf(j, Canonicals(j) \cup {Step(RuntimeOf[j]).id})
                = StepsOf(j, Canonicals(j) \cup {Step(RuntimeOf[j]).id})'
            BY <2>1 DEF StepsOf, PatchesOf, RegistersOf, ChangesOf, Step
        <3> QED
            BY <2>1, <3>1 DEF Establishing, CallOf, Step
    <2>5. (Live(j))' => Live(j)
        BY <1>2 DEF Live
    <2> QED
        BY <1>1, <1>2, <2>1, <2>2, <2>3, <2>4, <2>5 DEF LaneFiled
<1> QED
    BY <1>2, <1>3, <1>4, LaneAloneKeeps

\* A step of a lane keeps the invariant.
LEMMA LaneKeeps ==
    ASSUME EvidenceInv, NEW j \in Jobs, LaneStep(j), UNCHANGED tagVars
    PROVE  EvidenceInv'
<1>1. CASE Open(j)
    BY <1>1, OpenKeeps
<1>2. CASE Infer(j)
    BY <1>2, InferKeeps
<1>3. CASE Correct(j)
    BY <1>3, LaneStaged DEF Correct, Runs, Live
<1>4. CASE JoinMediation(j)
    BY <1>4, JoinMediationKeeps
<1>5. CASE JoinSelection(j)
    BY <1>5, JoinSelectionKeeps
<1>6. CASE TryAgain(j)
    BY <1>6, LaneStaged DEF TryAgain, Runs, Live
<1>7. CASE EndSelection(j)
    BY <1>7, EndSelectionKeeps
<1>8. CASE EndMediation(j)
    BY <1>8, EndMediationKeeps
<1>9. CASE JobDone(j)
    BY <1>9, LaneStaged DEF JobDone
<1>10. CASE Throw(j)
    BY <1>10, LaneStaged DEF Throw
<1>11. CASE Fail(j)
    BY <1>11, LaneStaged DEF Fail
<1> QED
    BY <1>1, <1>2, <1>3, <1>4, <1>5, <1>6, <1>7, <1>8, <1>9, <1>10, <1>11 DEF LaneStep

-----------------------------------------------------------------------------
(* Deaths *)

\* A runtime that dies leaves its calls cut short, and the lock.
LEMMA DiesKeeps ==
    ASSUME EvidenceInv, NEW r \in Runtimes, Dies(r)
    PROVE  EvidenceInv'
<1>1. UNCHANGED <<attempts, index, thrown, tagFile, tagIndex>> /\ faults' = faults + 1
      /\ call' = [call EXCEPT ![r] = NoCall] /\ lock' = IF lock = r THEN "abandoned" ELSE lock
    BY DEF Dies, StoreDies
<1>2. \A k \in Jobs : Canonicals(k)' = Canonicals(k)
    BY <1>1 DEF Canonicals, Enveloped
<1>3. call'[r] = NoCall /\ \A q \in Runtimes : q # r => call'[q] = call[q]
    BY <1>1 DEF EvidenceInv, CallsOK
<1>4. FilesOK'
    BY <1>1, <1>2 DEF EvidenceInv, FilesOK, AttemptOf
<1>5. IndexOK'
    BY <1>1, IndexKept DEF EvidenceInv
<1>6. CallsOK'
    BY <1>1, CallEnds DEF EvidenceInv
<1>7. LockOK'
    BY <1>1, <1>3, EvidenceAssumption DEF EvidenceInv, LockOK, NoCall
<1>8. HealthOK'
    BY <1>1 DEF EvidenceInv, HealthOK
<1>9. LanesOK'
    <2>1. lane' = [k \in Jobs |->
                     IF RuntimeOf[k] = r /\ lane[k].stage \notin {"idle", "done"}
                     THEN [lane[k] EXCEPT !.stage = "dead"] ELSE lane[k]]
        BY DEF Dies, JobsDie
    <2>2. ASSUME NEW k \in Jobs PROVE lane'[k] \in Lanes /\ LaneTyped(k)' /\ LaneFiled(k)'
        <3>1. /\ lane[k] \in Lanes /\ LaneTyped(k) /\ LaneFiled(k) /\ RuntimeOf[k] \in Runtimes
              /\ k # None
            BY JobsAssumption, EvidenceAssumption DEF EvidenceInv, LanesOK
        <3>2. \A n \in 1 .. lane[k].tries : n \in 0 .. MaxTries
            BY <3>1, EvidenceAssumption DEF Lanes
        <3>3. CASE RuntimeOf[k] = r
            <4>1. /\ lane'[k].canonical = lane[k].canonical /\ lane'[k].envelope = lane[k].envelope
                  /\ lane'[k].tries = lane[k].tries
                  /\ lane'[k].stage \in {"idle", "done", "dead"}
                  /\ lane'[k].stage = "idle" => lane'[k] = lane[k]
                  /\ lane[k].stage # "idle" => lane'[k].stage # "idle"
                  /\ lane'[k] \in Lanes
                BY <2>1, <3>1, <3>3 DEF Lanes, Stages
            <4>2. LaneTyped(k)'
                BY <3>1, <4>1 DEF LaneTyped, NewLane
            <4>3. \A n : ~Recording(k, n)'
                BY <1>3, <3>3 DEF Recording, Pending, NoCall
            <4>4. ~Live(k)'
                BY <4>1 DEF Live
            <4>5. LaneFiled(k)'
                BY <1>1, <3>1, <4>1, <4>3, <4>4 DEF LaneFiled
            <4> QED
                BY <4>1, <4>2, <4>5
        <3>4. CASE RuntimeOf[k] # r
            <4>1. lane'[k] = lane[k] /\ call'[RuntimeOf[k]] = call[RuntimeOf[k]]
                BY <1>3, <2>1, <3>1, <3>4
            <4>2. Establishing(RuntimeOf[k], k) => Establishing(RuntimeOf[k], k)'
                <5>1. StepsOf(k, Canonicals(k) \cup {Step(RuntimeOf[k]).id})
                        = StepsOf(k, Canonicals(k) \cup {Step(RuntimeOf[k]).id})'
                    BY <1>2, <4>1 DEF StepsOf, PatchesOf, RegistersOf, ChangesOf, Step
                <5> QED
                    BY <1>1, <4>1, <5>1 DEF Establishing, CallOf, Step
            <4>3. \A n \in 0 .. MaxTries : Recording(k, n)' <=> Recording(k, n)
                BY <4>1 DEF Recording, Pending, Step
            <4>4. (Pending(k, lane[k].canonical))' <=> Pending(k, lane[k].canonical)
                BY <4>1 DEF Pending, Step
            <4>5. LaneFiled(k)'
                BY <1>1, <1>2, <3>1, <3>2, <4>1, <4>2, <4>3, <4>4 DEF LaneFiled, Live
            <4> QED
                BY <3>1, <4>1, <4>5 DEF LaneTyped, NewLane
        <3> QED
            BY <3>3, <3>4
    <2> QED
        BY <2>1, <2>2 DEF LanesOK
<1>10. TagsOK'
    <2>1. request' = [t \in Tags |->
                        IF r = TagRuntime /\ request[t].stage \in {"asked", "making", "deleting"}
                        THEN [request[t] EXCEPT !.stage = "dead"] ELSE request[t]]
        BY DEF Dies, TagsDie
    <2>2. \A t \in Tags : "stage" \in DOMAIN request'[t]
            /\ (request'[t].stage = request[t].stage \/ request'[t].stage = "dead")
            /\ (r # TagRuntime => request'[t] = request[t])
        BY <2>1 DEF EvidenceInv, TagsOK
    <2>3. \A t \in Tags : call'[TagRuntime].caller = t =>
            r # TagRuntime /\ call'[TagRuntime] = call[TagRuntime]
        BY <1>3, TagsAssumption, EvidenceAssumption DEF NoCall
    <2>4. DOMAIN request' = Tags
        BY <2>1
    <2>5. \A t \in Tags : Rivals(t)' = Rivals(t) /\ Making(t)' = Making(t)
        BY <1>1 DEF Rivals, Making
    <2>6. tagIndex.ids \subseteq Tags
        BY DEF EvidenceInv, TagsOK, TagIndexes
    <2> QED
        BY <1>1, <2>2, <2>3, <2>4, <2>5, <2>6 DEF EvidenceInv, TagsOK
<1> QED
    BY <1>4, <1>5, <1>6, <1>7, <1>8, <1>9, <1>10 DEF EvidenceInv

-----------------------------------------------------------------------------
(* The tags *)

\* What does not touch the evidence leaves it right.
LEMMA EvidenceRests ==
    ASSUME EvidenceInv, UNCHANGED storeVars, UNCHANGED lane
    PROVE  FilesOK' /\ IndexOK' /\ CallsOK' /\ LockOK' /\ LanesOK' /\ HealthOK'
<1>1. UNCHANGED <<attempts, index, lock, call, thrown, faults>>
    BY DEF storeVars
<1>2. \A k \in Jobs : Canonicals(k)' = Canonicals(k)
    BY <1>1 DEF Canonicals, Enveloped
<1>3. FilesOK' /\ IndexOK' /\ LockOK'
    BY <1>1, <1>2 DEF EvidenceInv, FilesOK, AttemptOf, IndexOK, LockOK
<1>4. CallsOK'
    BY <1>1, <1>2, CallKept DEF EvidenceInv, CallsOK
<1>5. HealthOK'
    BY <1>1 DEF EvidenceInv, HealthOK, HealthIndexed, IsRecoveredPrimaryFailure, Refreshing, Step
<1>6. ASSUME NEW k \in Jobs PROVE LaneTyped(k)' /\ LaneFiled(k)'
    <2>1. LaneTyped(k) /\ LaneFiled(k)
        BY DEF EvidenceInv, LanesOK
    <2>2. \A n : Recording(k, n)' <=> Recording(k, n)
        BY <1>1 DEF Recording, Pending, Step
    <2>3. (Pending(k, lane[k].canonical))' <=> Pending(k, lane[k].canonical)
        BY <1>1 DEF Pending, Step
    <2>4. Establishing(RuntimeOf[k], k)' <=> Establishing(RuntimeOf[k], k)
        <3>1. StepsOf(k, Canonicals(k) \cup {Step(RuntimeOf[k]).id})
                = StepsOf(k, Canonicals(k) \cup {Step(RuntimeOf[k]).id})'
            BY <1>1, <1>2 DEF StepsOf, PatchesOf, RegistersOf, ChangesOf, Step
        <3> QED
            BY <1>1, <3>1 DEF Establishing, CallOf, Step
    <2> QED
        BY <1>1, <1>2, <2>1, <2>2, <2>3, <2>4 DEF LaneTyped, LaneFiled, Live, NewLane
<1> QED
    BY <1>3, <1>4, <1>5, <1>6 DEF EvidenceInv, LanesOK

\* A request that is not made yet goes on while the history is awaited.
LEMMA RequestKeeps ==
    ASSUME EvidenceInv, NEW t \in Tags, NEW from \in {"idle", "asked"}, Ready(t, from),
           NEW to, Staged(t, to), UNCHANGED <<storeVars, tagFile, tagIndex>>, UNCHANGED lane
    PROVE  EvidenceInv'
<1>1. FilesOK' /\ IndexOK' /\ CallsOK' /\ LockOK' /\ LanesOK' /\ HealthOK'
    BY EvidenceRests
<1>2. call' = call /\ call[TagRuntime].todo = <<>> /\ request[t].stage = from
    BY DEF storeVars, Ready, Waits
<1>3. \A o : call[TagRuntime].todo \notin Making(o)
    BY <1>2 DEF Making
<1>4. DOMAIN request' = Tags /\ \A o \in Tags : "stage" \in DOMAIN request'[o]
      /\ (o # t => request'[o] = request[o])
    BY DEF Staged, EvidenceInv, TagsOK
<1>5. t \notin tagIndex.ids /\ tagIndex.ids \subseteq Tags
    BY <1>2 DEF EvidenceInv, TagsOK, TagIndexes
<1>6. TagsOK'
    <2>1. \A o : Making(o)' = Making(o)
        BY DEF Making
    <2> QED
        BY <1>2, <1>3, <1>4, <1>5, <2>1 DEF EvidenceInv, TagsOK
<1> QED
    BY <1>1, <1>6 DEF EvidenceInv

\* A call of the tags begins.
LEMMA TagStarts ==
    ASSUME EvidenceInv, NEW t \in Tags, NEW steps \in Making(t) \cup Deleting,
           Head(steps).op # "scope", Calls(TagRuntime, t, steps),
           UNCHANGED <<attempts, index, lock, thrown, faults>>, UNCHANGED lane
    PROVE  /\ FilesOK' /\ IndexOK' /\ CallsOK' /\ LockOK' /\ LanesOK' /\ HealthOK'
           /\ call'[TagRuntime].caller = t /\ call'[TagRuntime].todo = steps
<1>1. TagRuntime \in Runtimes /\ t \in Callers /\ t \notin Jobs
    BY TagsAssumption, EvidenceAssumption DEF Callers
<1>2. steps \in Seq(AnySteps) /\ steps # <<>> /\ FirstPhase(Head(steps)) = "file"
    <2>1. Scope(t) \in AnySteps
        BY DEF AnySteps
    <2>2. \A op \in {"rebuild", "number", "tag", "list", "unlink", "unlist"} :
            [op |-> op] \in AnySteps
        BY DEF AnySteps
    <2>3. steps \in Seq(AnySteps) /\ steps # <<>>
        <3> DEFINE S == AnySteps
        <3>1. Scope(t) \in S /\ [op |-> "number"] \in S /\ [op |-> "tag"] \in S /\ [op |-> "list"] \in S
              /\ [op |-> "unlink"] \in S /\ [op |-> "unlist"] \in S
            BY <2>1, <2>2
        <3> HIDE DEF S
        <3>2. PICK n, s, g, l, u, x :
                /\ n = [op |-> "number"] /\ s = Scope(t) /\ g = [op |-> "tag"]
                /\ l = [op |-> "list"] /\ u = [op |-> "unlink"] /\ x = [op |-> "unlist"]
            OBVIOUS
        <3>3. n \in S /\ s \in S /\ g \in S /\ l \in S /\ u \in S /\ x \in S
            BY <3>1, <3>2
        <3>4. steps \in {<<n, s, g, l>>, <<s, g, l>>, <<g, l>>, <<l>>, <<u, x>>, <<x>>}
            BY <3>2 DEF Making, Deleting
        <3>5. <<n, s, g, l>> \in Seq(S) /\ <<s, g, l>> \in Seq(S) /\ <<g, l>> \in Seq(S)
            BY <3>3
        <3>6. <<l>> \in Seq(S) /\ <<u, x>> \in Seq(S) /\ <<x>> \in Seq(S)
            BY <3>3
        <3>7. /\ <<n, s, g, l>> # <<>> /\ <<s, g, l>> # <<>> /\ <<g, l>> # <<>>
              /\ <<l>> # <<>> /\ <<u, x>> # <<>> /\ <<x>> # <<>>
            OBVIOUS
        <3>8. steps \in Seq(S) /\ steps # <<>>
            BY <3>4, <3>5, <3>6, <3>7
        <3> QED
            BY <3>8 DEF S
    <2>4. FirstPhase(Head(steps)) = "file"
        BY DEF Making, Deleting, FirstPhase, IndexOps, FileOps, Scope
    <2> QED
        BY <2>3, <2>4
<1>3. call'[TagRuntime].todo = steps /\ call'[TagRuntime].caller = t
      /\ call'[TagRuntime].phase = "file"
    BY <1>1, <1>2 DEF Calls, EvidenceInv, CallsOK
<1>4. CallOK(TagRuntime)'
    <2>1. Making(t)' = Making(t) /\ Deleting' = Deleting
        BY DEF Making, Deleting
    <2>2. Tagging(TagRuntime, t)'
        BY <1>3, <2>1 DEF Tagging
    <2> QED
        BY <1>2, <1>3, <2>2 DEF CallOK
<1>5. /\ FilesOK' /\ IndexOK' /\ CallsOK' /\ LockOK' /\ HealthOK'
      /\ \A k \in Jobs : k # t /\ LaneFiled(k) /\ lane[k] \in Lanes /\ lane'[k] = lane[k]
           => LaneFiled(k)'
    BY <1>1, <1>2, <1>4, CallStarts
<1>6. LanesOK'
    BY <1>1, <1>5 DEF EvidenceInv, LanesOK, LaneTyped, NewLane
<1> QED
    BY <1>3, <1>5, <1>6

\* A tag is made where its entry has none.
LEMMA MakeTagKeeps ==
    ASSUME EvidenceInv, NEW t \in Tags, MakeTag(t), UNCHANGED lane
    PROVE  EvidenceInv'
<1> DEFINE steps == <<[op |-> "number"], Scope(t), [op |-> "tag"], [op |-> "list"]>>
<1>1. steps \in Making(t) \cup Deleting /\ Head(steps).op # "scope"
    BY DEF Making
<1>2. Calls(TagRuntime, t, steps) /\ UNCHANGED <<attempts, index, lock, thrown, faults>>
    BY DEF MakeTag
<1> HIDE DEF steps
<1>3. /\ FilesOK' /\ IndexOK' /\ CallsOK' /\ LockOK' /\ LanesOK' /\ HealthOK'
      /\ call'[TagRuntime].caller = t
    BY <1>1, <1>2, TagStarts
<1>4. request[t].stage = "asked" /\ ~Existing(EntryOf[t]) /\ UNCHANGED <<tagFile, tagIndex>>
    BY DEF MakeTag, Ready
<1>5. /\ DOMAIN request' = Tags /\ request'[t].stage = "making"
      /\ \A o \in Tags : "stage" \in DOMAIN request'[o] /\ (o # t => request'[o] = request[o])
    BY DEF MakeTag, Staged, EvidenceInv, TagsOK
<1>6. t \notin tagIndex.ids /\ tagIndex.ids \subseteq Tags
    BY <1>4 DEF EvidenceInv, TagsOK, TagIndexes
<1>7. Rivals(t) = {}
    <2>1. ASSUME NEW o \in tagIndex.ids, EntryOf[o] = EntryOf[t], tagFile[o] # None PROVE FALSE
        <3>1. tagIndex.byEntry[EntryOf[t]] = o /\ o # None
            BY <1>6, <2>1, EvidenceAssumption DEF EvidenceInv, TagsOK
        <3> QED
            BY <1>4, <2>1, <3>1 DEF Existing
    <2> QED
        BY <2>1 DEF Rivals
<1>8. TagsOK'
    <2>1. \A o : Making(o)' = Making(o) /\ Rivals(o)' = Rivals(o)
        BY <1>4 DEF Making, Rivals
    <2> QED
        BY <1>3, <1>4, <1>5, <1>6, <1>7, <2>1 DEF EvidenceInv, TagsOK
<1> QED
    BY <1>3, <1>8 DEF EvidenceInv

LEMMA DeleteTagKeeps ==
    ASSUME EvidenceInv, NEW t \in Tags, DeleteTag(t), UNCHANGED lane
    PROVE  EvidenceInv'
<1> DEFINE steps == <<[op |-> "unlink"], [op |-> "unlist"]>>
<1>1. steps \in Making(t) \cup Deleting /\ Head(steps).op = "unlink"
    BY DEF Deleting
<1>2. Calls(TagRuntime, t, steps) /\ UNCHANGED <<attempts, index, lock, thrown, faults>>
    BY DEF DeleteTag
<1> HIDE DEF steps
<1>3. /\ FilesOK' /\ IndexOK' /\ CallsOK' /\ LockOK' /\ LanesOK' /\ HealthOK'
      /\ call'[TagRuntime].todo = steps
    BY <1>1, <1>2, TagStarts
<1>4. UNCHANGED <<tagFile, tagIndex>>
    BY DEF DeleteTag
<1>5. /\ DOMAIN request' = Tags /\ request'[t].stage = "deleting"
      /\ \A o \in Tags : "stage" \in DOMAIN request'[o] /\ (o # t => request'[o] = request[o])
    BY DEF DeleteTag, Staged, EvidenceInv, TagsOK
<1>6. \A o : \A todo \in Making(o) : Head(todo).op # "unlink"
    BY DEF Making, Scope
<1>7. tagIndex.ids \subseteq Tags
    BY DEF EvidenceInv, TagsOK, TagIndexes
<1>8. TagsOK'
    <2>1. \A o : Making(o)' = Making(o) /\ Rivals(o)' = Rivals(o)
        BY <1>4 DEF Making, Rivals
    <2> QED
        BY <1>1, <1>3, <1>4, <1>5, <1>6, <1>7, <2>1 DEF EvidenceInv, TagsOK
<1> QED
    BY <1>3, <1>8 DEF EvidenceInv

\* A step of the tags touches nothing of the evidence, and comes from where it does.
LEMMA DoesKeeps ==
    ASSUME EvidenceInv, NEW t \in Tags, NEW op \in {"number", "tag", "list", "unlink", "unlist"},
           Does(t, op), UNCHANGED lane
    PROVE  /\ FilesOK' /\ IndexOK' /\ CallsOK' /\ LockOK' /\ LanesOK' /\ HealthOK'
           /\ call[TagRuntime].caller = t /\ Step(TagRuntime).op = op
           /\ call[TagRuntime].todo \in Making(t) \cup Deleting
           /\ \A o \in Tags :
                call'[TagRuntime].caller = o /\ call'[TagRuntime].todo \in Making(o) =>
                    o = t /\ call[TagRuntime].todo \in Making(t)
           /\ Tail(call[TagRuntime].todo) = <<>> => call'[TagRuntime].caller = None
<1> DEFINE r == TagRuntime
<1>1. ~Waits(r) /\ Step(r).op = op /\ call[r].phase = "file" /\ call[r].caller = t /\ Continues(r)
      /\ r \in Runtimes /\ UNCHANGED <<attempts, index, lock, thrown, faults>>
    BY TagsAssumption DEF Does, At
<1>2. PICK owner \in Tags : Tagging(r, owner)
    BY <1>1, StepShape DEF EvidenceInv, FileOps
<1>3. call[r].todo \in Making(t) \cup Deleting
    BY <1>1, <1>2 DEF Tagging
<1>4. \A k \in Jobs : ~Establishing(r, k)
    BY <1>1, EvidenceAssumption DEF Establishing, CallOf
<1>5. CallsOK'
    BY <1>1, <1>4, CallContinues DEF EvidenceInv
<1>6. /\ \A q \in Runtimes : q # r => call'[q] = call[q]
      /\ \/ call'[r] = NoCall
         \/ /\ call'[r].todo = Tail(call[r].todo) /\ call'[r].caller = call[r].caller
            /\ Tail(call[r].todo) # <<>>
      /\ call'[r].phase \in {"file", "lock"}
      /\ Tail(call[r].todo) = <<>> => call'[r] = NoCall
    BY <1>1 DEF Continues, EvidenceInv, CallsOK, CallSet, NoCall, FirstPhase
<1>7. /\ FilesOK' /\ LanesOK'
      /\ \A o \in Tags : call'[r].caller = o /\ call'[r].todo \in Making(o) =>
            call[r].caller = o /\ call[r].todo \in Making(o)
    BY <1>1, <1>4, <1>5, <1>6, QuietStep
<1>8. IndexOK'
    BY <1>1, IndexKept DEF EvidenceInv
<1>9. LockOK'
    BY <1>1, <1>6 DEF EvidenceInv, LockOK
<1>10. HealthOK'
    BY <1>1, <1>6, HealthKept DEF Refreshing, EvidenceInv, HealthOK
<1> QED
    BY <1>1, <1>3, <1>5, <1>6, <1>7, <1>8, <1>9, <1>10 DEF NoCall

\* The sequences of a tag are told apart by their first steps.
LEMMA TagSteps ==
    ASSUME NEW t, NEW todo \in Making(t) \cup Deleting
    PROVE  /\ Head(todo).op = "number" => todo \in Making(t)
           /\ Head(todo).op = "tag" => todo \in Making(t)
           /\ Head(todo).op = "list" => todo \in Making(t) /\ Tail(todo) = <<>>
           /\ Head(todo).op = "unlink" => todo \notin Making(t)
           /\ Head(todo).op = "unlist" => todo \notin Making(t)
<1>1. /\ \A s \in Making(t) : Head(s).op \in {"number", "scope", "tag", "list"}
      /\ \A s \in Deleting : Head(s).op \in {"unlink", "unlist"}
    BY DEF Making, Deleting, Scope
<1>2. Head(todo).op = "list" => todo = <<[op |-> "list"]>>
    BY DEF Making, Deleting, Scope
<1>3. \A x : Tail(<<x>>) = <<>>
    OBVIOUS
<1> QED
    BY <1>1, <1>2, <1>3

LEMMA TakeNumberKeeps ==
    ASSUME EvidenceInv, NEW t \in Tags, TakeNumber(t), UNCHANGED lane
    PROVE  EvidenceInv'
<1>1. /\ FilesOK' /\ IndexOK' /\ CallsOK' /\ LockOK' /\ LanesOK' /\ HealthOK'
      /\ call[TagRuntime].caller = t
      /\ \A o \in Tags : call'[TagRuntime].caller = o /\ call'[TagRuntime].todo \in Making(o) =>
            o = t /\ call[TagRuntime].todo \in Making(t)
    BY DoesKeeps DEF TakeNumber
<1>2. /\ DOMAIN request' = Tags
      /\ \A o \in Tags : "stage" \in DOMAIN request'[o] /\ request'[o].stage = request[o].stage
    BY DEF TakeNumber, EvidenceInv, TagsOK
<1>3. /\ tagIndex' \in TagIndexes /\ tagIndex'.ids = tagIndex.ids
      /\ tagIndex'.byEntry = tagIndex.byEntry /\ tagFile' = tagFile
    BY DEF TakeNumber, NumberTaken, EvidenceInv, TagsOK, TagIndexes
<1>4. \A o : Making(o)' = Making(o) /\ Rivals(o)' = Rivals(o)
    BY <1>3 DEF Making, Rivals
<1>5. tagIndex.ids \subseteq Tags
    BY DEF EvidenceInv, TagsOK, TagIndexes
<1> QED
    BY <1>1, <1>2, <1>3, <1>4, <1>5 DEF EvidenceInv, TagsOK

LEMMA WriteTagKeeps ==
    ASSUME EvidenceInv, NEW t \in Tags, WriteTag(t), UNCHANGED lane
    PROVE  EvidenceInv'
<1>1. /\ FilesOK' /\ IndexOK' /\ CallsOK' /\ LockOK' /\ LanesOK' /\ HealthOK'
      /\ call[TagRuntime].caller = t /\ Step(TagRuntime).op = "tag"
      /\ call[TagRuntime].todo \in Making(t) \cup Deleting
      /\ \A o \in Tags : call'[TagRuntime].caller = o /\ call'[TagRuntime].todo \in Making(o) => o = t
    BY DoesKeeps DEF WriteTag
<1>2. call[TagRuntime].todo \in Making(t)
    BY <1>1, TagSteps DEF Step
<1>3. request[t].stage = "making" /\ Rivals(t) = {} /\ t \notin tagIndex.ids
    BY <1>1, <1>2 DEF EvidenceInv, TagsOK
<1>4. UNCHANGED <<tagIndex, request>> /\ DOMAIN tagFile' = Tags
      /\ \A o \in Tags : o # t => tagFile'[o] = tagFile[o]
    BY DEF WriteTag, EvidenceInv, TagsOK
<1>5. tagIndex.ids \subseteq Tags
    BY DEF EvidenceInv, TagsOK, TagIndexes
<1>6. Rivals(t)' = {}
    BY <1>3, <1>4, <1>5 DEF Rivals
<1> QED
    BY <1>1, <1>3, <1>4, <1>5, <1>6 DEF EvidenceInv, TagsOK

LEMMA ListTagKeeps ==
    ASSUME EvidenceInv, NEW t \in Tags, ListTag(t), UNCHANGED lane
    PROVE  EvidenceInv'
<1>1. /\ FilesOK' /\ IndexOK' /\ CallsOK' /\ LockOK' /\ LanesOK' /\ HealthOK'
      /\ call[TagRuntime].caller = t /\ Step(TagRuntime).op = "list"
      /\ call[TagRuntime].todo \in Making(t) \cup Deleting
      /\ Tail(call[TagRuntime].todo) = <<>> => call'[TagRuntime].caller = None
    BY DoesKeeps DEF ListTag
<1>2. call[TagRuntime].todo \in Making(t) /\ call'[TagRuntime].caller = None
    BY <1>1, TagSteps DEF Step
<1>3. request[t].stage = "making" /\ Rivals(t) = {} /\ t \notin tagIndex.ids
    BY <1>1, <1>2 DEF EvidenceInv, TagsOK
<1>4. /\ DOMAIN request' = Tags /\ request'[t].stage = "made"
      /\ \A o \in Tags : "stage" \in DOMAIN request'[o] /\ (o # t => request'[o] = request[o])
    BY DEF ListTag, Staged, EvidenceInv, TagsOK
<1>5. EntryOf[t] \in Entries /\ tagIndex.ids \subseteq Tags /\ tagIndex \in TagIndexes
    BY DEF EvidenceInv, TagsOK, TagIndexes, Entries
<1>6. /\ tagIndex' \in TagIndexes /\ tagIndex'.ids = tagIndex.ids \cup {t} /\ tagFile' = tagFile
      /\ tagIndex'.byEntry = [tagIndex.byEntry EXCEPT ![EntryOf[t]] = t]
    BY <1>5 DEF ListTag, TagIndexes
<1>7. ASSUME NEW o \in tagIndex'.ids, tagFile'[o] # None
      PROVE  tagIndex'.byEntry[EntryOf[o]] = o
    <2>1. EntryOf[o] \in Entries /\ o \in Tags
        BY <1>5, <1>6 DEF Entries
    <2>2. CASE o = t
        BY <1>5, <1>6, <2>2 DEF TagIndexes
    <2>3. CASE o # t
        <3>1. o \in tagIndex.ids /\ tagFile[o] # None
            BY <1>6, <1>7, <2>3
        <3>2. EntryOf[o] # EntryOf[t]
            BY <1>3, <2>3, <3>1 DEF Rivals
        <3> QED
            BY <1>5, <1>6, <2>1, <3>1, <3>2 DEF EvidenceInv, TagsOK, TagIndexes
    <2> QED
        BY <2>2, <2>3
<1>8. \A o \in tagIndex'.ids : request'[o].stage \in {"made", "deleting", "deleted", "dead"}
    BY <1>4, <1>5, <1>6 DEF EvidenceInv, TagsOK
<1>9. \A o \in Tags : o # None
    BY EvidenceAssumption
<1> QED
    BY <1>1, <1>2, <1>4, <1>6, <1>7, <1>8, <1>9 DEF EvidenceInv, TagsOK

LEMMA UnlinkTagKeeps ==
    ASSUME EvidenceInv, NEW t \in Tags, UnlinkTag(t), UNCHANGED lane
    PROVE  EvidenceInv'
<1>1. /\ FilesOK' /\ IndexOK' /\ CallsOK' /\ LockOK' /\ LanesOK' /\ HealthOK'
      /\ Step(TagRuntime).op = "unlink"
      /\ call[TagRuntime].todo \in Making(t) \cup Deleting
      /\ \A o \in Tags : call'[TagRuntime].caller = o /\ call'[TagRuntime].todo \in Making(o) =>
            call[TagRuntime].todo \in Making(t)
    BY DoesKeeps DEF UnlinkTag
<1>2. call[TagRuntime].todo \notin Making(t)
    BY <1>1, TagSteps DEF Step
<1>3. UNCHANGED <<tagIndex, request>> /\ DOMAIN tagFile' = Tags
      /\ \A o \in Tags : tagFile'[o] # None => tagFile[o] # None
    BY DEF UnlinkTag, EvidenceInv, TagsOK
<1>4. tagIndex.ids \subseteq Tags
    BY DEF EvidenceInv, TagsOK, TagIndexes
<1>5. \A o : Making(o)' = Making(o)
    BY DEF Making
<1> QED
    BY <1>1, <1>2, <1>3, <1>4, <1>5 DEF EvidenceInv, TagsOK

LEMMA UnlistTagKeeps ==
    ASSUME EvidenceInv, NEW t \in Tags, UnlistTag(t), UNCHANGED lane
    PROVE  EvidenceInv'
<1>1. /\ FilesOK' /\ IndexOK' /\ CallsOK' /\ LockOK' /\ LanesOK' /\ HealthOK'
      /\ Step(TagRuntime).op = "unlist"
      /\ call[TagRuntime].todo \in Making(t) \cup Deleting
      /\ \A o \in Tags : call'[TagRuntime].caller = o /\ call'[TagRuntime].todo \in Making(o) =>
            call[TagRuntime].todo \in Making(t)
    BY DoesKeeps DEF UnlistTag
<1>2. call[TagRuntime].todo \notin Making(t)
    BY <1>1, TagSteps DEF Step
<1>3. /\ DOMAIN request' = Tags /\ request'[t].stage = "deleted"
      /\ \A o \in Tags : "stage" \in DOMAIN request'[o] /\ (o # t => request'[o] = request[o])
    BY DEF UnlistTag, Staged, EvidenceInv, TagsOK
<1>4. EntryOf[t] \in Entries /\ tagIndex.ids \subseteq Tags /\ tagIndex \in TagIndexes
    BY DEF EvidenceInv, TagsOK, TagIndexes, Entries
<1>5. /\ tagIndex' \in TagIndexes /\ tagIndex'.ids = tagIndex.ids \ {t} /\ tagFile' = tagFile
      /\ tagIndex'.byEntry = [tagIndex.byEntry EXCEPT ![EntryOf[t]] = IF @ = t THEN None ELSE @]
    BY <1>4 DEF UnlistTag, TagIndexes
<1>6. ASSUME NEW o \in tagIndex'.ids, tagFile'[o] # None
      PROVE  tagIndex'.byEntry[EntryOf[o]] = o
    <2>1. EntryOf[o] \in Entries /\ o \in tagIndex.ids /\ o # t
        BY <1>4, <1>5 DEF Entries
    <2>2. tagIndex.byEntry[EntryOf[o]] = o
        BY <1>5, <1>6, <2>1 DEF EvidenceInv, TagsOK
    <2> QED
        BY <1>4, <1>5, <2>1, <2>2 DEF TagIndexes
<1>7. \A o : Making(o)' = Making(o)
    BY DEF Making
<1> QED
    BY <1>1, <1>2, <1>3, <1>4, <1>5, <1>6, <1>7 DEF EvidenceInv, TagsOK

\* A step of a tag keeps the invariant.
LEMMA TagKeeps ==
    ASSUME EvidenceInv, NEW t \in Tags, TagStep(t), UNCHANGED lane
    PROVE  EvidenceInv'
<1>1. CASE Ask(t)
    BY <1>1, RequestKeeps DEF Ask
<1>2. CASE RefuseTag(t)
    BY <1>2, RequestKeeps DEF RefuseTag
<1>3. CASE FindTag(t)
    BY <1>3, RequestKeeps DEF FindTag
<1> QED
    BY <1>1, <1>2, <1>3, MakeTagKeeps, DeleteTagKeeps, TakeNumberKeeps, WriteTagKeeps,
       ListTagKeeps, UnlinkTagKeeps, UnlistTagKeeps
    DEF TagStep

-----------------------------------------------------------------------------
(* The invariant *)

LEMMA InvInitially ==
    ASSUME Init
    PROVE  EvidenceInv
<1>1. /\ attempts = [id \in Ids |-> None] /\ index = EmptyIndex /\ lock = "free"
      /\ call = [r \in Runtimes |-> NoCall] /\ thrown = {} /\ faults = 0
      /\ lane = [j \in Jobs |-> NewLane(j)]
    BY DEF Init, JobsInit, StoreInit
<1>2. FilesOK
    BY <1>1, IdsApart DEF FilesOK
<1>3. index \in Indexes /\ \A j \in Jobs : index.jobs[j].canonical = None
    BY <1>1 DEF EmptyIndex, Indexes
<1>4. IndexOK
    BY <1>3 DEF IndexOK
<1>5. CallsOK
    <2>1. NoCall \in CallSet
        BY DEF CallSet, NoCall, Phases
    <2> QED
        BY <1>1, <2>1 DEF CallsOK, CallOK
<1>6. LockOK
    BY <1>1, EvidenceAssumption DEF LockOK, NoCall
<1>7. LanesOK
    <2>1. ASSUME NEW j \in Jobs PROVE lane[j] \in Lanes /\ LaneTyped(j) /\ LaneFiled(j)
        <3>1. lane[j] = NewLane(j) /\ RuntimeOf[j] \in Runtimes /\ j # None
            BY <1>1, JobsAssumption, EvidenceAssumption
        <3>2. [job |-> j, refs |-> {}, closed |-> "open"] \in EnvelopesOf(j)
            BY DEF EnvelopesOf, Kinds
        <3>3. lane[j] \in Lanes
            BY <3>1, <3>2, EnvelopesApart, IdsApart DEF NewLane, Lanes, Stages, Outcomes
        <3>4. LaneTyped(j)
            BY <3>1, <3>2 DEF NewLane, LaneTyped
        <3>5. \A n : ~Recording(j, n)
            BY <1>1, <3>1 DEF Recording, Pending, NoCall
        <3>6. \A n \in 0 .. MaxTries : attempts[<<j, n>>] = None
            BY <1>1, IdsApart
        <3>7. LaneFiled(j)
            BY <3>1, <3>5, <3>6 DEF LaneFiled, Live, NewLane
        <3> QED
            BY <3>3, <3>4, <3>7
    <2> QED
        BY <1>1, <2>1 DEF LanesOK
<1>8. HealthOK
    <2>1. index.listed = {} /\ index.invalid = {} /\ index.recovered = {}
        BY <1>1 DEF EmptyIndex
    <2>2. index = HealthIndexed(index)
        BY <1>3, <2>1 DEF HealthIndexed, Indexes
    <2> QED
        BY <1>1, <2>2 DEF HealthOK
<1>9. TagsOK
    <2>1. /\ tagFile = [t \in Tags |-> None]
          /\ tagIndex = [next |-> 0, ids |-> {}, byEntry |-> [e \in Entries |-> None]]
          /\ request = [t \in Tags |-> [stage |-> "idle", number |-> None]]
        BY DEF Init, TagsInit
    <2>2. call[TagRuntime].caller = None /\ \A t \in Tags : t # None
        BY <1>1, TagsAssumption, EvidenceAssumption DEF NoCall
    <2> QED
        BY <2>1, <2>2 DEF TagsOK, TagIndexes
<1> QED
    BY <1>2, <1>4, <1>5, <1>6, <1>7, <1>8, <1>9 DEF EvidenceInv

LEMMA InvKept ==
    ASSUME EvidenceInv, [Next]_vars
    PROVE  EvidenceInv'
<1>1. ASSUME NEW r \in Runtimes, StoreProgress(r) PROVE EvidenceInv'
    BY <1>1, StoreKeeps
<1>2. ASSUME NEW r \in Runtimes, Rebuild(r), UNCHANGED <<lane, tagVars>> PROVE EvidenceInv'
    BY <1>2, RebuildKeeps
<1>3. ASSUME NEW r \in Runtimes, Dies(r) PROVE EvidenceInv'
    BY <1>3, DiesKeeps
<1>4. ASSUME NEW j \in Jobs, LaneStep(j), UNCHANGED tagVars PROVE EvidenceInv'
    BY <1>4, LaneKeeps
<1>5. ASSUME NEW t \in Tags, TagStep(t), UNCHANGED lane PROVE EvidenceInv'
    BY <1>5, TagKeeps
<1>6. CASE UNCHANGED vars
    <2>1. UNCHANGED storeVars /\ UNCHANGED lane /\ UNCHANGED tagVars
        BY <1>6 DEF vars, jobVars
    <2>2. call' = call
        BY <2>1 DEF storeVars
    <2>3. TagsOK'
        BY <2>1, <2>2 DEF EvidenceInv, TagsOK, Rivals, Making, tagVars
    <2> QED
        BY <2>1, <2>3, EvidenceRests DEF EvidenceInv
<1> QED
    BY <1>1, <1>2, <1>3, <1>4, <1>5, <1>6 DEF Next

\* The invariant holds for any number of runtimes, jobs, tags and deaths: calls are
\* made of steps of their job, the index is changed by who has its lock, and what a
\* lane takes for done is in the files or about to be.
THEOREM EvidenceInvariant == Spec => []EvidenceInv
<1>1. Init => EvidenceInv
    BY InvInitially
<1>2. EvidenceInv /\ [Next]_vars => EvidenceInv'
    BY InvKept
<1> QED
    BY <1>1, <1>2, PTL DEF Spec

-----------------------------------------------------------------------------
(* What it is for *)

\* A canonical attempt that the index names carries the envelope of its job, whatever
\* runtime died or timed out between the file and the index.
THEOREM HandlesRecover == Spec => []HandleRecoverable
<1>1. EvidenceInv => HandleRecoverable
    <2>1. ASSUME EvidenceInv, NEW j \in Jobs, index.jobs[j].canonical # None
          PROVE  /\ attempts[index.jobs[j].canonical].envelope # None
                 /\ attempts[index.jobs[j].canonical].envelope.job = j
        <3>1. index.jobs[j].canonical \in Canonicals(j)
            BY <2>1 DEF EvidenceInv, IndexOK
        <3>2. AttemptOf(attempts[index.jobs[j].canonical], j)
            BY <2>1, <3>1 DEF EvidenceInv, FilesOK, Canonicals, Enveloped
        <3> QED
            BY <3>1, <3>2 DEF Canonicals, Enveloped, AttemptOf, EnvelopesOf
    <2> QED
        BY <2>1 DEF HandleRecoverable
<1> QED
    BY <1>1, EvidenceInvariant, PTL

\* Between the calls of all runtimes the indexed health is that of the files, unless a
\* call was cut short: whoever changed an attempt derives it again under the lock.
THEOREM HealthStaysCurrent == Spec => []HealthIsCurrent
<1>1. EvidenceInv => HealthIsCurrent
    BY DEF EvidenceInv, HealthOK, HealthIsCurrent, Refreshing
<1> QED
    BY <1>1, EvidenceInvariant, PTL

\* Requests for a tag that cross, and deletions that were cut short, never leave an
\* entry with two tags.
THEOREM OneTagEach == Spec => []OneTagPerEntry
<1>1. EvidenceInv => OneTagPerEntry
    BY DEF EvidenceInv, TagsOK, OneTagPerEntry
<1> QED
    BY <1>1, EvidenceInvariant, PTL

=============================================================================

---------------------------- MODULE Story_proofs ----------------------------
(***************************************************************************)
(* Proofs about what a committed turn leaves behind.                       *)
(*                                                                         *)
(* PlotCognition, for any number of drivers, commits, changes and faults:  *)
(* no cognition is lost between handlers that cross, an update assimilates *)
(* what its model was shown, and an overlay that is behind the last        *)
(* recorded commit is withheld.                                            *)
(*                                                                         *)
(* ContinuityTurn, for any cast, moves and bounds: a resolved issue stays  *)
(* resolved, and nobody learns anything but from speech it could perceive, *)
(* of someone who knew.                                                    *)
(***************************************************************************)
EXTENDS PlotCognition, ContinuityTurn, WellFoundedInduction, TLAPS

-----------------------------------------------------------------------------
(* The invariant *)

\* Names and revisions found in the chronicle have an upper bound.
KeysBounded ==
    \E b \in Nat : /\ \A e \in chronicle.records : e.key[2] <= b
                   /\ \A t \in Threads : task[t].key[2] <= b

PriorsBounded ==
    /\ \A e \in chronicle.index : e.prior <= overlay.revision
    /\ \A t \in Threads : \A e \in task[t].index : e.prior <= overlay.revision

TypeInv ==
    /\ PlotTypeOK
    /\ host.issues <= changes
    /\ KeysBounded
    /\ PriorsBounded

AtWork == {"begin", "intent", "load", "replace", "completion", "index"}

\* The thread of a commit records the pending work of that commit, and a driver
\* any other mutation; only a driver that clears what is pending has no intent.
ThreadInv ==
    /\ task["commit"].at \in AtWork \cup {"idle"}
    /\ Kind("commit") = "pending"
    /\ task["commit"].at # "idle" => task["commit"].key[2] = host.commit /\ ~recorded
    /\ host.commit # 0
    /\ \A d \in Drivers : Kind(d) = "pending" => task[d].at \notin AtWork /\ task[d].key[2] = 0

\* A snapshot in hand is the one on disk, or an older one that cannot be saved.
CopyInv ==
    /\ \A t \in Threads : task[t].at \in {"replace", "clearReplace"} =>
         /\ task[t].copy.revision <= overlay.revision
         /\ task[t].copy.revision = overlay.revision => task[t].copy = overlay
    /\ \A t \in Threads : task[t].at = "replace" =>
         IF Kind(t) = "initialization" THEN task[t].copy.status = "absent"
         ELSE task[t].copy.status = "ready"
    /\ \A t \in Threads : task[t].at = "replace" /\ Kind(t) = "update" =>
         task[t].source.fingerprint = task[t].prompted.fingerprint
    /\ overlay.status = "absent" => overlay.content = {} /\ overlay.authority = NoSource

CognitionInv == TypeInv /\ ThreadInv /\ CopyInv /\ NoCognitionLost

\* The last commit's handler has recorded the pending work and has yet to say so.
CommitDone == task["commit"].at \in {"completion", "index"} /\ task["commit"].success

\* The last commit's work is on record: acknowledged, or about to be.
OnRecord == recorded \/ CommitDone

Through(source) == source.commit = host.commit

\* No record of the commit under way is in the chronicle before its handler
\* makes one, whatever copy of the index survives.
OwnRecord(e) ==
    e.key[1] = "pending" =>
        /\ e.key[2] <= host.commit
        /\ task["commit"].at = "begin" => e.key[2] # host.commit

OwnRecords ==
    /\ \A e \in chronicle.index : OwnRecord(e)
    /\ \A t \in Threads : \A e \in task[t].index : OwnRecord(e)

\* While handlers do not cross: what a driver is about to save or to clear is
\* through the last commit that is on record.
BehindInv ==
    ~crossed =>
        /\ (OnRecord /\ overlay.status = "ready" /\ overlay.authority # NoSource
              /\ overlay.authority.commit < host.commit) => overlay.pending # 0
        /\ \A d \in Drivers :
             /\ (task[d].at = "replace" /\ Kind(d) # "initialization" /\ RevisionMatches(d)) =>
                  Through(task[d].source) \/ ~OnRecord
             /\ task[d].at \in {"clearLoad", "clearReplace"} /\ Kind(d) # "pending" => overlay.pending = 0
             /\ task[d].at \in {"clearLoad", "clearReplace"} /\ Kind(d) = "pending" =>
                  overlay.status = "ready" /\ (Through(overlay.authority) \/ ~OnRecord)

PlotInv == CognitionInv /\ OwnRecords /\ BehindInv

-----------------------------------------------------------------------------
(* Numbers *)

LEMMA FirstExists ==
    ASSUME NEW T \in SUBSET Nat, T # {}
    PROVE  \E c \in T : \A d \in T : c <= d
<1> DEFINE R == OpToRel(<, Nat)
<1>1. IsWellFoundedOn(R, Nat)
  BY NatLessThanWellFounded
<1>2. \A x, y \in Nat : <<y, x>> \in R <=> y < x
  BY DEF OpToRel
<1> HIDE DEF R
<1>3. PICK x \in T : \A y \in T : ~(<<y, x>> \in R)
  BY <1>1, WFMin
<1>4. ASSUME NEW y \in T PROVE x <= y
  <2>1. x \in Nat /\ y \in Nat /\ ~(y < x)
    BY <1>2, <1>3
  <2>2. QED
    BY <2>1
<1>5. QED
  BY <1>4

\* Numbers with an upper bound have a greatest one among them.
LEMMA MaxExists ==
    ASSUME NEW S \in SUBSET Nat, S # {}, NEW b \in Nat, \A x \in S : x <= b
    PROVE  Max(S) \in S /\ Max(S) \in Nat /\ \A x \in S : x <= Max(S)
<1> DEFINE T == {n \in Nat : \E x \in S : n = b - x}
<1>1. T \in SUBSET Nat /\ T # {}
  <2>1. PICK x \in S : TRUE
    OBVIOUS
  <2>2. b - x \in T
    BY <2>1
  <2>3. QED
    BY <2>2
<1>2. PICK c \in T : \A d \in T : c <= d
  BY <1>1, FirstExists
<1>3. PICK m \in S : c = b - m
  BY <1>2
<1>4. \A x \in S : m >= x
  <2>1. TAKE x \in S
  <2>2. b - x \in T
    OBVIOUS
  <2>3. c <= b - x
    BY <1>2, <2>2
  <2>4. x \in Nat /\ m \in Nat
    OBVIOUS
  <2>5. QED
    BY <1>3, <2>3, <2>4
<1>5. Max(S) \in S /\ \A y \in S : Max(S) >= y
  BY <1>4 DEF Max
<1>6. QED
  BY <1>5

-----------------------------------------------------------------------------
(* Types *)

Chronicles == [records : SUBSET Entries, index : SUBSET Entries]

LEMMA IdleTyped == /\ Idle \in Tasks /\ Idle.at = "idle" /\ Idle.index = {} /\ Idle.success = FALSE
                   /\ Idle.key = <<"pending", 0>>
BY PlotAssumption DEF Idle, Tasks, Phases, Keys, Kinds, NoSource, Sources, NoSnapshot, Snapshots

\* What is gathered from the session and a snapshot is a source.
LEMMA GatheredTyped ==
    ASSUME host \in Hosts, NEW s \in Snapshots
    PROVE  /\ Fingerprint \in Nat
           /\ GatheredSources(s) \in Sources
           /\ GatheredSources(s).commit = host.commit /\ GatheredSources(s).fingerprint = Fingerprint
           /\ GatheredSources(s) # NoSource
<1>1. host.commit \in Nat /\ host.version \in Nat /\ host.issues \in Nat /\ host.since \in Nat
  BY PlotAssumption DEF Hosts
<1>2. MaxCommits + 1 \in Nat
  BY PlotAssumption
<1>3. host.since + (MaxCommits + 1) * host.issues \in Nat
  BY <1>1, <1>2
<1>4. Fingerprint \in Nat
  BY <1>1, <1>2, <1>3 DEF Fingerprint
<1>5. s.revision \in Nat
  BY DEF Snapshots
<1>6. GatheredSources(s).commit # NoSource.commit
  BY <1>1 DEF GatheredSources, NoSource
<1>7. QED
  BY <1>1, <1>4, <1>5, <1>6 DEF GatheredSources, Sources

\* A new proposal has a name.
LEMMA ProposalTyped == ASSUME TypeInv PROVE NewProposal \in Nat
<1> DEFINE R == {e.key[2] : e \in {x \in chronicle.records : x.key[1] = "update"}}
           D == {task[d].key[2] : d \in {x \in Drivers : Kind(x) = "update"}}
           S == {0} \cup R \cup D
<1>1. PICK b \in Nat : /\ \A e \in chronicle.records : e.key[2] <= b
                       /\ \A t \in Threads : task[t].key[2] <= b
  BY DEF TypeInv, KeysBounded
<1>2. \A e \in chronicle.records : e.key[2] \in Nat
  BY DEF TypeInv, PlotTypeOK, Entries, Keys
<1>3. \A d \in Drivers : task[d].key[2] \in Nat
  BY DEF TypeInv, PlotTypeOK, Tasks, Keys, Threads
<1>4. S \in SUBSET Nat /\ S # {}
  BY <1>2, <1>3
<1>5. \A x \in S : x <= b
  BY <1>1 DEF Threads
<1> HIDE DEF S
<1>6. Max(S) \in Nat
  BY <1>4, <1>5, MaxExists
<1>7. NewProposal = 1 + Max(S)
  BY DEF NewProposal, S
<1>8. QED
  BY <1>6, <1>7

\* A thread goes on alone.
LEMMA ThreadGoes ==
    ASSUME task \in [Threads -> Tasks], NEW t \in Threads, NEW now \in Tasks, Goes(t, now)
    PROVE  /\ task' \in [Threads -> Tasks] /\ task'[t] = now
           /\ \A o \in Threads : o # t => task'[o] = task[o]
BY DEF Goes

\* What a thread's step must do to keep the types.
LEMMA TypedStep ==
    ASSUME TypeInv, NEW t \in Threads, NEW now \in Tasks, Goes(t, now),
           UNCHANGED <<host, changes>>,
           overlay' \in Snapshots, overlay'.revision >= overlay.revision,
           chronicle' \in Chronicles,
           \A e \in chronicle'.records : e \in chronicle.records \/ e.key = task[t].key,
           \A e \in chronicle'.index : e.prior <= overlay'.revision,
           \A e \in now.index : e.prior <= overlay'.revision,
           landed' \in SUBSET Keys, {recorded', crossed'} \subseteq BOOLEAN, faults' \in 0 .. MaxFaults
    PROVE  TypeInv'
<1>1. /\ task' \in [Threads -> Tasks] /\ task'[t] = now
      /\ \A o \in Threads : o # t => task'[o] = task[o]
  BY ThreadGoes DEF TypeInv, PlotTypeOK
<1>2. PlotTypeOK'
  BY <1>1 DEF TypeInv, PlotTypeOK, Chronicles
<1>3. (host.issues <= changes)'
  BY DEF TypeInv
<1>4. KeysBounded'
  <2>1. PICK b \in Nat : /\ \A e \in chronicle.records : e.key[2] <= b
                         /\ \A o \in Threads : task[o].key[2] <= b
    BY DEF TypeInv, KeysBounded
  <2>2. now.key[2] \in Nat
    BY DEF Tasks, Keys
  <2>3. \A e \in chronicle'.records : e.key[2] <= b
    BY <2>1
  <2>4. \A e \in chronicle'.records : e.key[2] \in Nat
    BY DEF Chronicles, Entries, Keys
  <2>5. \A o \in Threads : task[o].key[2] \in Nat
    BY DEF TypeInv, PlotTypeOK, Tasks, Keys
  <2> DEFINE B == b + now.key[2]
  <2>6. B \in Nat /\ b <= B /\ now.key[2] <= B
    BY <2>2
  <2> HIDE DEF B
  <2>7. \A e \in chronicle'.records : e.key[2] <= B
    BY <2>3, <2>4, <2>6
  <2>8. \A o \in Threads : task'[o].key[2] <= B
    BY <1>1, <2>1, <2>5, <2>6
  <2>9. QED
    BY <2>6, <2>7, <2>8 DEF KeysBounded
<1>5. PriorsBounded'
  <2>1. overlay.revision \in Nat /\ overlay'.revision \in Nat
    BY DEF TypeInv, PlotTypeOK, Snapshots
  <2>2. ASSUME NEW o \in Threads, NEW e \in task'[o].index PROVE e.prior <= overlay'.revision
    <3>1. CASE o = t
      BY <1>1, <2>2, <3>1
    <3>2. CASE o # t
      <4>1. e \in task[o].index /\ e.prior <= overlay.revision
        BY <1>1, <2>2, <3>2 DEF TypeInv, PriorsBounded
      <4>2. e.prior \in Nat
        BY <4>1 DEF TypeInv, PlotTypeOK, Tasks, Entries
      <4>3. QED
        BY <2>1, <4>1, <4>2
    <3>3. QED
      BY <3>1, <3>2
  <2>3. QED
    BY <2>2 DEF PriorsBounded
<1>6. QED
  BY <1>2, <1>3, <1>4, <1>5 DEF TypeInv

-----------------------------------------------------------------------------
(* What each step makes of its thread *)

\* What a driver sets out to do.
LEMMA PlanDoes ==
    ASSUME TypeInv, NEW d \in Drivers, Plan(d)
    PROVE  \E now \in Tasks :
             /\ Goes(d, now) /\ now.index = {} /\ now.success = FALSE
             /\ \/ now.at = "preparing" /\ now.key = <<"pending", 0>>
                \/ now.at = "inferring" /\ now.key = <<"initialization", 0>>
                \/ /\ now.at = "clearLoad" /\ now.key = <<"pending", 0>>
                   /\ overlay.status = "ready" /\ AuthorityStatus = "fresh"
                \/ now.at = "begin" /\ now.key[1] \in {"authority_advance", "reconciliation"}
<1>1. overlay \in Snapshots /\ host \in Hosts
  BY DEF TypeInv, PlotTypeOK
<1>2. Fingerprint \in Nat /\ GatheredSources(overlay) \in Sources
  BY <1>1, GatheredTyped
<1>3. NoSource \in Sources
  BY DEF NoSource, Sources
<1>5. PlannedOperation # "none" /\ PlannedOperation \in
          {"none", "initialization", "reconciliation", "authority_advance", "clear_pending", "update"}
  BY DEF Plan, PlannedOperation
<1>6. "preparing" \in Phases /\ "inferring" \in Phases /\ "clearLoad" \in Phases /\ "begin" \in Phases
  BY DEF Phases
<1>7. /\ <<"authority_advance", Fingerprint>> \in Keys /\ <<"reconciliation", 0>> \in Keys
      /\ <<"initialization", 0>> \in Keys /\ <<"pending", 0>> \in Keys
  BY <1>2 DEF Keys, Kinds
<1>8. CASE PlannedOperation = "update"
  <2> DEFINE key == <<"pending", 0>>
             source == NoSource
             now == [Idle EXCEPT !.at = "preparing", !.key = key, !.source = source]
  <2>1. Goes(d, now)
    BY <1>8 DEF Plan
  <2>2. key \in Keys /\ source \in Sources
    BY <1>3, <1>6, <1>7
  <2>3. key[1] = "pending"
    OBVIOUS
  <2>7. key = <<"pending", 0>>
    OBVIOUS
  <2> HIDE DEF key, source
  <2>5. now \in Tasks /\ now.at = "preparing" /\ now.key = key /\ now.index = {} /\ now.success = FALSE
    BY <1>6, <2>2, IdleTyped DEF Tasks, Idle
  <2> HIDE DEF now
  <2>6. QED
    BY <2>1, <2>3, <2>7, <2>5
<1>9. CASE PlannedOperation = "initialization"
  <2> DEFINE key == <<"initialization", 0>>
             source == NoSource
             now == [Idle EXCEPT !.at = "inferring", !.key = key, !.source = source]
  <2>1. Goes(d, now)
    BY <1>9 DEF Plan
  <2>2. key \in Keys /\ source \in Sources
    BY <1>3, <1>6, <1>7
  <2>3. key[1] = "initialization"
    OBVIOUS
  <2>7. key = <<"initialization", 0>>
    OBVIOUS
  <2> HIDE DEF key, source
  <2>5. now \in Tasks /\ now.at = "inferring" /\ now.key = key /\ now.index = {} /\ now.success = FALSE
    BY <1>6, <2>2, IdleTyped DEF Tasks, Idle
  <2> HIDE DEF now
  <2>6. QED
    BY <2>1, <2>3, <2>7, <2>5
<1>10. CASE PlannedOperation = "clear_pending"
  <2> DEFINE key == <<"pending", 0>>
             source == NoSource
             now == [Idle EXCEPT !.at = "clearLoad", !.key = key, !.source = source]
  <2>1. Goes(d, now)
    BY <1>10 DEF Plan
  <2>2. key \in Keys /\ source \in Sources
    BY <1>3, <1>6, <1>7
  <2>3. key[1] = "pending"
    OBVIOUS
  <2>4. overlay.status = "ready" /\ AuthorityStatus = "fresh"
    BY <1>10 DEF PlannedOperation, Fresh
  <2>7. key = <<"pending", 0>>
    OBVIOUS
  <2> HIDE DEF key, source
  <2>5. now \in Tasks /\ now.at = "clearLoad" /\ now.key = key /\ now.index = {} /\ now.success = FALSE
    BY <1>6, <2>2, IdleTyped DEF Tasks, Idle
  <2> HIDE DEF now
  <2>6. QED
    BY <2>1, <2>3, <2>4, <2>7, <2>5
<1>11. CASE PlannedOperation = "authority_advance"
  <2> DEFINE key == <<"authority_advance", Fingerprint>>
             source == GatheredSources(overlay)
             now == [Idle EXCEPT !.at = "begin", !.key = key, !.source = source]
  <2>1. Goes(d, now)
    BY <1>11 DEF Plan
  <2>2. key \in Keys /\ source \in Sources
    BY <1>2, <1>6, <1>7
  <2>3. key[1] = "authority_advance"
    OBVIOUS
  <2> HIDE DEF key, source
  <2>5. now \in Tasks /\ now.at = "begin" /\ now.key = key /\ now.index = {} /\ now.success = FALSE
    BY <1>6, <2>2, IdleTyped DEF Tasks, Idle
  <2> HIDE DEF now
  <2>6. QED
    BY <2>1, <2>3, <2>5
<1>12. CASE PlannedOperation = "reconciliation"
  <2> DEFINE key == <<"reconciliation", 0>>
             source == NoSource
             now == [Idle EXCEPT !.at = "begin", !.key = key, !.source = source]
  <2>1. Goes(d, now)
    BY <1>12 DEF Plan
  <2>2. key \in Keys /\ source \in Sources
    BY <1>3, <1>6, <1>7
  <2>3. key[1] = "reconciliation"
    OBVIOUS
  <2> HIDE DEF key, source
  <2>5. now \in Tasks /\ now.at = "begin" /\ now.key = key /\ now.index = {} /\ now.success = FALSE
    BY <1>6, <2>2, IdleTyped DEF Tasks, Idle
  <2> HIDE DEF now
  <2>6. QED
    BY <2>1, <2>3, <2>5
<1>13. QED
  BY <1>5, <1>8, <1>9, <1>10, <1>11, <1>12

\* A model is shown what there is, and gives a proposal or nothing.
LEMMA DriverDoes ==
    ASSUME TypeInv, NEW d \in Drivers, Prepare(d) \/ Infer(d)
    PROVE  \E now \in Tasks :
             /\ Goes(d, now)
             /\ \/ now = Idle
                \/ now.at = "inferring" /\ now.key = task[d].key /\ now.index = task[d].index
                \/ /\ now.at = "begin" /\ now.key[1] \in {"initialization", "update"}
                   /\ now.index = task[d].index
<1>1. task[d] \in Tasks /\ overlay \in Snapshots /\ host \in Hosts
  BY DEF TypeInv, PlotTypeOK, Threads
<1>2. GatheredSources(overlay) \in Sources /\ NewProposal \in Nat
  BY <1>1, GatheredTyped, ProposalTyped
<1>3. Idle \in Tasks
  BY IdleTyped
<1>4. CASE Goes(d, Idle)
  BY <1>3, <1>4
<1>5. CASE Prepare(d) /\ ~Goes(d, Idle)
  <2> DEFINE now == [task[d] EXCEPT !.at = "inferring", !.prompted = GatheredSources(overlay)]
  <2>1. Goes(d, now)
    BY <1>5 DEF Prepare
  <2>2. now \in Tasks /\ now.at = "inferring" /\ now.key = task[d].key /\ now.index = task[d].index
    BY <1>1, <1>2 DEF Tasks, Phases
  <2> HIDE DEF now
  <2>3. QED
    BY <2>1, <2>2
<1>6. CASE Infer(d) /\ ~Goes(d, Idle)
  <2>1. CASE Kind(d) = "initialization"
    <3> DEFINE now == [task[d] EXCEPT !.at = "begin", !.key = task[d].key]
    <3>1. Goes(d, now)
      BY <1>6, <2>1 DEF Infer
    <3>2. now \in Tasks /\ now.at = "begin" /\ now.key = task[d].key /\ now.index = task[d].index
      BY <1>1 DEF Tasks, Phases
    <3> HIDE DEF now
    <3>3. QED
      BY <2>1, <3>1, <3>2 DEF Kind
  <2>2. CASE Kind(d) # "initialization"
    <3> DEFINE key == <<"update", NewProposal>>
               now == [task[d] EXCEPT !.at = "begin", !.key = key]
    <3>1. Goes(d, now)
      BY <1>6, <2>2 DEF Infer
    <3>2. key \in Keys /\ key[1] = "update"
      BY <1>2 DEF Keys, Kinds
    <3> HIDE DEF key
    <3>3. now \in Tasks /\ now.at = "begin" /\ now.key = key /\ now.index = task[d].index
      BY <1>1, <3>2 DEF Tasks, Phases
    <3> HIDE DEF now
    <3>4. QED
      BY <3>1, <3>2, <3>3
  <2>3. QED
    BY <2>1, <2>2
<1>7. QED
  BY <1>4, <1>5, <1>6

\* Adding a record to an index keeps what it says.
LEMMA IndexTyped ==
    ASSUME TypeInv, NEW entry \in Entries, entry.prior <= overlay.revision
    PROVE  /\ IndexWith(entry) \in SUBSET Entries
           /\ \A e \in IndexWith(entry) : e.prior <= overlay.revision
           /\ \A e \in IndexWith(entry) : e = entry \/ e \in chronicle.index
BY DEF IndexWith, TypeInv, PlotTypeOK, PriorsBounded

\* A handler looks for its key, and records its intent or goes on.
LEMMA BeginDoes ==
    ASSUME TypeInv, NEW t \in Threads, Begin(t)
    PROVE  \E now \in Tasks :
             /\ Goes(t, now)
             /\ \/ /\ now = Idle /\ chronicle' = chronicle
                   /\ recorded' = (IF t = "commit" THEN TRUE ELSE recorded)
                   /\ Found(chronicle.index, task[t].key, "completion") # {}
                \/ /\ now = Idle /\ chronicle' = chronicle
                   /\ recorded' = (IF t = "commit" THEN FALSE ELSE recorded)
                \/ /\ now.at = "load" /\ now.key = task[t].key /\ now.index = task[t].index
                   /\ chronicle' = chronicle /\ recorded' = recorded
                \/ \E entry \in Entries :
                     /\ entry.key = task[t].key /\ entry.prior = overlay.revision
                     /\ now.at = "intent" /\ now.key = task[t].key /\ now.index = IndexWith(entry)
                     /\ chronicle' = [chronicle EXCEPT !.records = @ \cup {entry}]
                     /\ recorded' = recorded
<1> DEFINE intents == Found(chronicle.index, task[t].key, "intent")
           completions == Found(chronicle.index, task[t].key, "completion")
           looked == [task[t] EXCEPT !.prior = overlay.revision, !.intended = overlay.revision]
<1>1. task[t] \in Tasks /\ overlay \in Snapshots /\ overlay.revision \in Nat
  BY DEF TypeInv, PlotTypeOK, Snapshots
<1>2. Idle \in Tasks
  BY IdleTyped
<1>3. CASE completions # {} /\ Answers(t, TRUE) /\ UNCHANGED chronicle
  BY <1>2, <1>3 DEF Answers
<1>4. CASE Answers(t, FALSE) /\ UNCHANGED chronicle
  BY <1>2, <1>4 DEF Answers
<1>5. CASE /\ intents # {} /\ UNCHANGED <<chronicle, recorded>>
           /\ Goes(t, [looked EXCEPT !.at = "load", !.intended = Max({e.prior : e \in intents})])
  <2> DEFINE S == {e.prior : e \in intents}
  <2>1. \A e \in intents : e.prior \in Nat /\ e.prior <= overlay.revision
    BY DEF Found, TypeInv, PlotTypeOK, PriorsBounded, Entries
  <2>2. S \in SUBSET Nat /\ S # {} /\ \A x \in S : x <= overlay.revision
    BY <1>5, <2>1
  <2> HIDE DEF S
  <2>3. Max(S) \in Nat
    BY <1>1, <2>2, MaxExists
  <2> DEFINE m == Max(S)
             now == [looked EXCEPT !.at = "load", !.intended = m]
  <2>4. Goes(t, now)
    BY <1>5 DEF S
  <2>5. m \in Nat
    BY <2>3
  <2> HIDE DEF m
  <2>6. now \in Tasks /\ now.at = "load" /\ now.key = task[t].key /\ now.index = task[t].index
    BY <1>1, <2>5 DEF Tasks, Phases
  <2> HIDE DEF now
  <2>7. QED
    BY <1>5, <2>4, <2>6
<1>6. CASE /\ Appends(IntentOf(t)) /\ UNCHANGED recorded
           /\ Goes(t, [looked EXCEPT !.at = "intent", !.index = IndexWith(IntentOf(t))])
  <2> DEFINE entry == IntentOf(t)
             index == IndexWith(entry)
             now == [looked EXCEPT !.at = "intent", !.index = index]
  <2>1. entry \in Entries /\ entry.key = task[t].key /\ entry.prior = overlay.revision
    BY <1>1 DEF IntentOf, Entries, Tasks
  <2>2. Goes(t, now) /\ chronicle' = [chronicle EXCEPT !.records = @ \cup {entry}]
    BY <1>6 DEF Appends
  <2> HIDE DEF entry
  <2>3. index \in SUBSET Entries
    BY <1>1, <2>1, IndexTyped
  <2>4. index = IndexWith(entry)
    OBVIOUS
  <2> HIDE DEF index
  <2>5. now \in Tasks /\ now.at = "intent" /\ now.key = task[t].key /\ now.index = index
    BY <1>1, <2>3 DEF Tasks, Phases
  <2> HIDE DEF now
  <2>6. QED
    BY <1>6, <2>1, <2>2, <2>4, <2>5
<1>7. QED
  BY <1>3, <1>4, <1>5, <1>6 DEF Begin

\* What a handler that answers in the negative leaves.
NotRecorded(t) == recorded' = (IF t = "commit" THEN FALSE ELSE recorded)

\* A mutation that failed, or seems to have been made before.
LEMMA FailedDoes ==
    ASSUME TypeInv, NEW t \in Threads, NEW already \in BOOLEAN, MutationFailed(t, already)
    PROVE  \E now \in Tasks :
             /\ Goes(t, now)
             /\ \/ now = Idle /\ NotRecorded(t)
                \/ /\ now.at = "completion" /\ now.success = FALSE /\ now.key = task[t].key
                   /\ now.index = task[t].index /\ recorded' = recorded
<1>1. task[t] \in Tasks
  BY DEF TypeInv, PlotTypeOK
<1>2. CASE already
  <2> DEFINE now == [task[t] EXCEPT !.at = "completion", !.success = FALSE]
  <2>1. Goes(t, now) /\ recorded' = recorded
    BY <1>2 DEF MutationFailed
  <2>2. /\ now \in Tasks /\ now.at = "completion" /\ now.success = FALSE /\ now.key = task[t].key
        /\ now.index = task[t].index
    BY <1>1 DEF Tasks, Phases
  <2> HIDE DEF now
  <2>3. QED
    BY <2>1, <2>2
<1>3. CASE ~already
  BY <1>3, IdleTyped DEF MutationFailed, Answers, NotRecorded
<1>4. QED
  BY <1>2, <1>3

\* A snapshot that is loaded is in hand as it is on disk.
LEMMA LoadedDoes ==
    ASSUME TypeInv, NEW t \in Threads, NEW source \in Sources, Loaded(t, source)
    PROVE  \E now \in Tasks :
             /\ Goes(t, now) /\ recorded' = recorded
             /\ now.at = "replace" /\ now.copy = overlay /\ now.source = source
             /\ now.key = task[t].key /\ now.prompted = task[t].prompted /\ now.index = task[t].index
<1> DEFINE now == [task[t] EXCEPT !.at = "replace", !.copy = overlay, !.source = source]
<1>1. task[t] \in Tasks /\ overlay \in Snapshots
  BY DEF TypeInv, PlotTypeOK
<1>2. Goes(t, now) /\ recorded' = recorded
  BY DEF Loaded
<1>3. /\ now \in Tasks /\ now.at = "replace" /\ now.copy = overlay /\ now.source = source
      /\ now.key = task[t].key /\ now.prompted = task[t].prompted /\ now.index = task[t].index
  BY <1>1 DEF Tasks, Phases
<1> HIDE DEF now
<1>4. QED
  BY <1>2, <1>3

\* What each mutation finds before it goes on to replace the snapshot.
LoadedFor(t, source) ==
    /\ IF Kind(t) = "initialization" THEN overlay.status = "absent" ELSE overlay.status = "ready"
    /\ Kind(t) = "update" => source.fingerprint = task[t].prompted.fingerprint
    /\ Kind(t) \notin {"initialization", "pending"} => source.commit = host.commit

LEMMA LoadOutcomes ==
    ASSUME TypeInv, NEW t \in Threads, Load(t)
    PROVE  \/ \E already \in BOOLEAN : MutationFailed(t, already)
           \/ \E source \in Sources : Loaded(t, source) /\ LoadedFor(t, source)
           \/ /\ Kind(t) = "pending" /\ overlay.status # "ready" /\ recorded' = recorded
              /\ Goes(t, [task[t] EXCEPT !.at = "completion", !.success = TRUE])
<1>1. /\ task[t] \in Tasks /\ task[t].source \in Sources /\ overlay \in Snapshots /\ host \in Hosts
      /\ overlay.revision \in Nat /\ task[t].intended \in Nat
  BY DEF TypeInv, PlotTypeOK, Tasks, Snapshots
<1>2. MovedOn(t) \in BOOLEAN
  BY <1>1 DEF MovedOn
<1>3. /\ GatheredSources(overlay) \in Sources /\ GatheredSources(overlay).commit = host.commit
      /\ GatheredSources(overlay).fingerprint = Fingerprint
  BY <1>1, GatheredTyped
<1>4. NoSource \in Sources
  BY DEF NoSource, Sources
<1>5. CASE LoadForPending(t)
  BY <1>1, <1>2, <1>5 DEF LoadForPending, LoadedFor
<1>6. CASE LoadForInitialization(t)
  BY <1>1, <1>2, <1>4, <1>6 DEF LoadForInitialization, LoadedFor
<1>7. CASE LoadForReconciliation(t)
  BY <1>1, <1>3, <1>7 DEF LoadForReconciliation, LoadedFor
<1>8. CASE LoadForAdvance(t)
  BY <1>1, <1>2, <1>3, <1>8 DEF LoadForAdvance, LoadedFor
<1>9. CASE LoadForUpdate(t)
  BY <1>1, <1>2, <1>3, <1>9 DEF LoadForUpdate, LoadedFor, SourcesUnchanged
<1>10. QED
  BY <1>5, <1>6, <1>7, <1>8, <1>9 DEF Load

LEMMA LoadDoes ==
    ASSUME TypeInv, NEW t \in Threads, Load(t)
    PROVE  \E now \in Tasks :
             /\ Goes(t, now)
             /\ \/ now = Idle /\ NotRecorded(t)
                \/ /\ now.at = "completion" /\ now.key = task[t].key /\ now.index = task[t].index
                   /\ now.success => Kind(t) = "pending" /\ overlay.status # "ready"
                   /\ recorded' = recorded
                \/ /\ now.at = "replace" /\ now.copy = overlay /\ now.key = task[t].key
                   /\ now.prompted = task[t].prompted /\ now.index = task[t].index
                   /\ LoadedFor(t, now.source) /\ recorded' = recorded
<1>1. CASE \E already \in BOOLEAN : MutationFailed(t, already)
  <2>1. PICK already \in BOOLEAN : MutationFailed(t, already)
    BY <1>1
  <2>2. PICK now \in Tasks :
             /\ Goes(t, now)
             /\ \/ now = Idle /\ NotRecorded(t)
                \/ /\ now.at = "completion" /\ now.success = FALSE /\ now.key = task[t].key
                   /\ now.index = task[t].index /\ recorded' = recorded
    BY <2>1, FailedDoes
  <2>3. QED
    BY <2>2
<1>2. CASE \E source \in Sources : Loaded(t, source) /\ LoadedFor(t, source)
  <2>1. PICK source \in Sources : Loaded(t, source) /\ LoadedFor(t, source)
    BY <1>2
  <2>2. PICK now \in Tasks :
             /\ Goes(t, now) /\ recorded' = recorded
             /\ now.at = "replace" /\ now.copy = overlay /\ now.source = source
             /\ now.key = task[t].key /\ now.prompted = task[t].prompted /\ now.index = task[t].index
    BY <2>1, LoadedDoes
  <2>3. QED
    BY <2>1, <2>2
<1>3. CASE /\ Kind(t) = "pending" /\ overlay.status # "ready" /\ recorded' = recorded
           /\ Goes(t, [task[t] EXCEPT !.at = "completion", !.success = TRUE])
  <2> DEFINE now == [task[t] EXCEPT !.at = "completion", !.success = TRUE]
  <2>1. task[t] \in Tasks
    BY DEF TypeInv, PlotTypeOK
  <2>2. /\ now \in Tasks /\ now.at = "completion" /\ now.key = task[t].key
        /\ now.index = task[t].index
    BY <2>1 DEF Tasks, Phases
  <2>3. Goes(t, now)
    BY <1>3
  <2> HIDE DEF now
  <2>4. QED
    BY <1>3, <2>2, <2>3
<1>4. QED
  BY <1>1, <1>2, <1>3, LoadOutcomes

\* What a mutation makes of the snapshot on disk, which is the one in hand.
Mutated(t) ==
    /\ overlay' \in Snapshots /\ overlay'.revision = overlay.revision + 1
    /\ Kind(t) = "pending" => /\ overlay'.pending = task[t].key[2]
                              /\ overlay'.content = overlay.content /\ overlay'.status = "ready"
                              /\ overlay'.authority = overlay.authority
    /\ Kind(t) = "initialization" => /\ overlay'.content = {task[t].key} /\ overlay'.status = "ready"
                                     /\ overlay'.authority = NoSource
    /\ Kind(t) \notin {"pending", "initialization"} =>
         /\ overlay'.status = "ready" /\ overlay'.authority = task[t].source /\ overlay'.pending = 0
         /\ overlay'.content = IF Kind(t) = "update" THEN overlay.content \cup {task[t].key}
                               ELSE overlay.content

LEMMA ReplacementDoes ==
    ASSUME TypeInv, ThreadInv, CopyInv, NEW t \in Threads, task[t].at = "replace",
           RevisionMatches(t), Saves(t, Replacement(t))
    PROVE  Mutated(t) /\ task[t].copy = overlay
<1>1. /\ task[t] \in Tasks /\ overlay \in Snapshots /\ task[t].key \in Keys
      /\ task[t].source \in Sources /\ host \in Hosts
  BY DEF TypeInv, PlotTypeOK, Tasks
<1>2. task[t].copy = overlay
  BY DEF CopyInv, RevisionMatches
<1>3. overlay' = [Replacement(t) EXCEPT !.revision = overlay.revision + 1]
  BY DEF Saves
<1>4. IF Kind(t) = "initialization" THEN overlay.status = "absent" ELSE overlay.status = "ready"
  BY <1>2 DEF CopyInv
<1>5. overlay.revision \in Nat /\ overlay.revision + 1 \in Nat
  BY <1>1 DEF Snapshots
<1>6. CASE Kind(t) = "pending"
  <2>1. task[t].key[2] \in 0 .. MaxCommits
    <3>1. CASE t = "commit"
      BY <1>1, <3>1 DEF ThreadInv, Hosts
    <3>2. CASE t # "commit"
      BY <1>6, <3>2, PlotAssumption DEF ThreadInv, Threads
    <3>3. QED
      BY <3>1, <3>2
  <2>2. overlay' = [overlay EXCEPT !.pending = task[t].key[2], !.revision = overlay.revision + 1]
    BY <1>2, <1>3, <1>6 DEF Replacement
  <2>3. QED
    BY <1>1, <1>2, <1>4, <1>5, <1>6, <2>1, <2>2 DEF Mutated, Snapshots
<1>7. CASE Kind(t) = "initialization"
  <2>1. overlay' = [overlay EXCEPT !.status = "ready", !.content = {task[t].key},
                                   !.revision = overlay.revision + 1]
    BY <1>2, <1>3, <1>7 DEF Replacement
  <2>2. overlay.authority = NoSource
    BY <1>4, <1>7 DEF CopyInv
  <2>3. QED
    BY <1>1, <1>2, <1>4, <1>5, <1>7, <2>1, <2>2 DEF Mutated, Snapshots
<1>8. CASE Kind(t) = "update"
  <2>1. overlay' = [overlay EXCEPT !.authority = task[t].source, !.pending = 0,
                                   !.content = overlay.content \cup {task[t].key},
                                   !.revision = overlay.revision + 1]
    BY <1>2, <1>3, <1>8 DEF Replacement
  <2>2. 0 \in 0 .. MaxCommits /\ overlay.content \cup {task[t].key} \in SUBSET Keys
    BY <1>1, PlotAssumption DEF Snapshots
  <2>3. overlay' \in Snapshots
    BY <1>1, <1>5, <2>1, <2>2 DEF Snapshots
  <2>4. /\ overlay'.revision = overlay.revision + 1 /\ overlay'.status = overlay.status
        /\ overlay'.authority = task[t].source /\ overlay'.pending = 0
        /\ overlay'.content = overlay.content \cup {task[t].key}
    BY <1>1, <2>1 DEF Snapshots
  <2>5. QED
    BY <1>2, <1>4, <1>8, <2>3, <2>4 DEF Mutated
<1>9. CASE Kind(t) \notin {"pending", "initialization", "update"}
  <2>1. overlay' = [overlay EXCEPT !.authority = task[t].source, !.pending = 0,
                                   !.revision = overlay.revision + 1]
    BY <1>2, <1>3, <1>9 DEF Replacement
  <2>2. 0 \in 0 .. MaxCommits
    BY PlotAssumption
  <2>3. overlay' \in Snapshots
    BY <1>1, <1>5, <2>1, <2>2 DEF Snapshots
  <2>4. /\ overlay'.revision = overlay.revision + 1 /\ overlay'.status = overlay.status
        /\ overlay'.authority = task[t].source /\ overlay'.pending = 0
        /\ overlay'.content = overlay.content
    BY <1>1, <2>1 DEF Snapshots
  <2>5. QED
    BY <1>2, <1>4, <1>9, <2>3, <2>4 DEF Mutated
<1>10. QED
  BY <1>6, <1>7, <1>8, <1>9

\* The snapshot is replaced, or it was too late, or the write failed.
LEMMA ReplaceDoes ==
    ASSUME TypeInv, ThreadInv, CopyInv, NEW t \in Threads, Replace(t)
    PROVE  \E now \in Tasks :
             /\ Goes(t, now)
             /\ \/ /\ RevisionMatches(t) /\ Mutated(t) /\ task[t].copy = overlay
                   /\ landed' = landed \cup {task[t].key} /\ recorded' = recorded
                   /\ crossed' = (crossed \/ \E o \in Threads \ {t} : task[o].at # "idle")
                   /\ now.at = (IF Kind(t) \in {"pending", "initialization"} THEN "completion" ELSE "clearLoad")
                   /\ now.key = task[t].key /\ now.index = task[t].index /\ now.success = TRUE
                \/ UNCHANGED <<overlay, landed, crossed>> /\ now = Idle /\ NotRecorded(t)
                \/ /\ UNCHANGED <<overlay, landed, crossed>> /\ recorded' = recorded
                   /\ now.at = "completion" /\ now.success = FALSE /\ now.key = task[t].key
                   /\ now.index = task[t].index
<1>1. task[t] \in Tasks /\ task[t].at = "replace"
  BY DEF TypeInv, PlotTypeOK, Replace
<1>2. CASE RevisionMatches(t) /\ Saves(t, Replacement(t))
              /\ landed' = landed \cup {task[t].key} /\ recorded' = recorded
              /\ Goes(t, [task[t] EXCEPT
                     !.at = IF Kind(t) \in {"pending", "initialization"} THEN "completion" ELSE "clearLoad",
                     !.copy = NoSnapshot, !.success = TRUE])
  <2> DEFINE place == IF Kind(t) \in {"pending", "initialization"} THEN "completion" ELSE "clearLoad"
             now == [task[t] EXCEPT !.at = place, !.copy = NoSnapshot, !.success = TRUE]
  <2>1. Goes(t, now) /\ place \in Phases
    BY <1>2 DEF Phases
  <2>2. place = (IF Kind(t) \in {"pending", "initialization"} THEN "completion" ELSE "clearLoad")
    OBVIOUS
  <2>3. NoSnapshot \in Snapshots
    BY PlotAssumption DEF NoSnapshot, Snapshots, NoSource, Sources
  <2> HIDE DEF place
  <2>4. /\ now \in Tasks /\ now.at = place /\ now.key = task[t].key /\ now.index = task[t].index
        /\ now.success = TRUE
    BY <1>1, <2>1, <2>3 DEF Tasks
  <2> HIDE DEF now
  <2>5. Mutated(t) /\ task[t].copy = overlay
    BY <1>1, <1>2, ReplacementDoes
  <2>6. crossed' = (crossed \/ \E o \in Threads \ {t} : task[o].at # "idle")
    BY <1>2 DEF Saves
  <2>7. QED
    BY <1>2, <2>1, <2>2, <2>4, <2>5, <2>6
<1>3. CASE /\ UNCHANGED <<overlay, landed, crossed>>
           /\ MutationFailed(t, Kind(t) = "initialization" /\ overlay.status = "ready")
  <2> DEFINE already == Kind(t) = "initialization" /\ overlay.status = "ready"
  <2>1. already \in BOOLEAN /\ MutationFailed(t, already)
    BY <1>3
  <2> HIDE DEF already
  <2>2. PICK now \in Tasks :
             /\ Goes(t, now)
             /\ \/ now = Idle /\ NotRecorded(t)
                \/ /\ now.at = "completion" /\ now.success = FALSE /\ now.key = task[t].key
                   /\ now.index = task[t].index /\ recorded' = recorded
    BY <2>1, FailedDoes
  <2>3. QED
    BY <1>3, <2>2
<1>4. QED
  BY <1>2, <1>3 DEF Replace

\* The index is rewritten as it was read.
LEMMA IndexIntentDoes ==
    ASSUME TypeInv, NEW t \in Threads, IndexIntent(t)
    PROVE  \E now \in Tasks :
             /\ Goes(t, now) /\ now.at = "load" /\ now.key = task[t].key /\ now.index = {}
             /\ chronicle' = [chronicle EXCEPT !.index = task[t].index]
             /\ UNCHANGED recorded
<1> DEFINE now == [task[t] EXCEPT !.at = "load", !.index = {}]
<1>1. task[t] \in Tasks
  BY DEF TypeInv, PlotTypeOK
<1>2. now \in Tasks /\ now.at = "load" /\ now.key = task[t].key /\ now.index = {}
  BY <1>1 DEF Tasks, Phases
<1>3. Goes(t, now) /\ chronicle' = [chronicle EXCEPT !.index = task[t].index] /\ UNCHANGED recorded
  BY DEF IndexIntent, Indexes
<1> HIDE DEF now
<1>4. QED
  BY <1>2, <1>3

LEMMA ClearLoadDoes ==
    ASSUME TypeInv, NEW t \in Threads, ClearLoad(t)
    PROVE  \E now \in Tasks :
             /\ Goes(t, now) /\ now.at = "clearReplace" /\ now.key = task[t].key
             /\ now.copy = overlay /\ now.index = task[t].index
             /\ UNCHANGED <<overlay, recorded>>
<1> DEFINE now == [task[t] EXCEPT !.at = "clearReplace", !.copy = overlay]
<1>1. task[t] \in Tasks /\ overlay \in Snapshots
  BY DEF TypeInv, PlotTypeOK
<1>2. /\ now \in Tasks /\ now.at = "clearReplace" /\ now.key = task[t].key
      /\ now.copy = overlay /\ now.index = task[t].index
  BY <1>1 DEF Tasks, Phases
<1>3. Goes(t, now) /\ UNCHANGED <<overlay, recorded>>
  BY DEF ClearLoad
<1> HIDE DEF now
<1>4. QED
  BY <1>2, <1>3

\* What clearing makes of the snapshot.
Cleared(t) ==
    /\ overlay' \in Snapshots /\ overlay'.revision = overlay.revision + 1
    /\ overlay'.pending = 0 /\ overlay'.content = overlay.content
    /\ overlay'.status = overlay.status /\ overlay'.authority = overlay.authority

LEMMA ClearReplaceDoes ==
    ASSUME TypeInv, CopyInv, NEW t \in Threads, ClearReplace(t)
    PROVE  \E now \in Tasks :
             /\ Goes(t, now)
             /\ \/ now = Idle /\ Kind(t) = "pending"
                \/ /\ now.at = "completion" /\ Kind(t) # "pending" /\ now.key = task[t].key
                   /\ now.index = task[t].index
             /\ \/ /\ RevisionMatches(t) /\ Cleared(t)
                   /\ crossed' = (crossed \/ \E o \in Threads \ {t} : task[o].at # "idle")
                \/ UNCHANGED <<overlay, crossed>>
<1>1. task[t] \in Tasks /\ overlay \in Snapshots /\ task[t].at = "clearReplace"
  BY DEF TypeInv, PlotTypeOK, ClearReplace
<1>2. PICK now \in Tasks :
         /\ Goes(t, now)
         /\ \/ now = Idle /\ Kind(t) = "pending"
            \/ /\ now.at = "completion" /\ Kind(t) # "pending" /\ now.key = task[t].key
               /\ now.index = task[t].index
  <2>1. CASE Kind(t) = "pending"
    BY <2>1, IdleTyped DEF ClearReplace
  <2>2. CASE Kind(t) # "pending"
    <3> DEFINE now == [task[t] EXCEPT !.at = "completion", !.copy = NoSnapshot]
    <3>1. Goes(t, now)
      BY <2>2 DEF ClearReplace
    <3>2. NoSnapshot \in Snapshots
      BY PlotAssumption DEF NoSnapshot, Snapshots, NoSource, Sources
    <3>3. now \in Tasks /\ now.at = "completion" /\ now.key = task[t].key /\ now.index = task[t].index
      BY <1>1, <3>2 DEF Tasks, Phases
    <3> HIDE DEF now
    <3>4. QED
      BY <2>2, <3>1, <3>3
  <2>3. QED
    BY <2>1, <2>2
<1>3. CASE UNCHANGED <<overlay, crossed>>
  BY <1>2, <1>3
<1>4. CASE RevisionMatches(t) /\ Saves(t, [task[t].copy EXCEPT !.pending = 0])
  <2>1. task[t].copy = overlay
    BY <1>1, <1>4 DEF CopyInv, RevisionMatches
  <2>2. overlay' = [overlay EXCEPT !.pending = 0, !.revision = overlay.revision + 1]
    BY <1>4, <2>1 DEF Saves
  <2>3. 0 \in 0 .. MaxCommits /\ overlay.revision \in Nat
    BY <1>1, PlotAssumption DEF Snapshots
  <2>4. Cleared(t)
    <3> DEFINE r == overlay.revision + 1
    <3>4. r \in Nat
      BY <2>3
    <3>5. overlay' = [overlay EXCEPT !.pending = 0, !.revision = r]
      BY <2>2
    <3> HIDE DEF r
    <3>1. overlay' \in Snapshots
      BY <1>1, <2>3, <3>4, <3>5 DEF Snapshots
    <3>2. /\ overlay'.revision = overlay.revision + 1 /\ overlay'.status = overlay.status
          /\ overlay'.authority = overlay.authority /\ overlay'.pending = 0
          /\ overlay'.content = overlay.content
      BY <1>1, <2>2 DEF Snapshots
    <3>3. QED
      BY <3>1, <3>2 DEF Cleared
  <2>5. crossed' = (crossed \/ \E o \in Threads \ {t} : task[o].at # "idle")
    BY <1>4 DEF Saves
  <2>6. QED
    BY <1>2, <1>4, <2>4, <2>5
<1>5. QED
  BY <1>3, <1>4 DEF ClearReplace

LEMMA WriteCompletionDoes ==
    ASSUME TypeInv, NEW t \in Threads, WriteCompletion(t)
    PROVE  \E now \in Tasks :
             /\ Goes(t, now)
             /\ \/ now = Idle /\ NotRecorded(t) /\ chronicle' = chronicle
                \/ \E entry \in Entries :
                     /\ entry.key = task[t].key /\ entry.prior = 0
                     /\ now.at = "index" /\ now.key = task[t].key /\ now.success = task[t].success
                     /\ now.index = IndexWith(entry)
                     /\ chronicle' = [chronicle EXCEPT !.records = @ \cup {entry}]
                     /\ recorded' = recorded
<1>1. task[t] \in Tasks /\ overlay.revision \in Nat
  BY DEF TypeInv, PlotTypeOK, Snapshots
<1>2. CASE Answers(t, FALSE) /\ UNCHANGED chronicle
  BY <1>2, IdleTyped DEF Answers, NotRecorded
<1>3. CASE /\ Appends(CompletionOf(t)) /\ UNCHANGED recorded
           /\ Goes(t, [task[t] EXCEPT !.at = "index", !.index = IndexWith(CompletionOf(t))])
  <2> DEFINE entry == CompletionOf(t)
             index == IndexWith(entry)
             now == [task[t] EXCEPT !.at = "index", !.index = index]
  <2>1. entry \in Entries /\ entry.key = task[t].key /\ entry.prior = 0
    BY <1>1 DEF CompletionOf, Entries, Tasks
  <2>2. Goes(t, now) /\ chronicle' = [chronicle EXCEPT !.records = @ \cup {entry}]
    BY <1>3 DEF Appends
  <2> HIDE DEF entry
  <2>3. index \in SUBSET Entries
    BY <1>1, <2>1, IndexTyped
  <2>4. index = IndexWith(entry)
    OBVIOUS
  <2> HIDE DEF index
  <2>5. /\ now \in Tasks /\ now.at = "index" /\ now.key = task[t].key /\ now.index = index
        /\ now.success = task[t].success
    BY <1>1, <2>3 DEF Tasks, Phases
  <2> HIDE DEF now
  <2>6. QED
    BY <1>3, <2>1, <2>2, <2>4, <2>5
<1>4. QED
  BY <1>2, <1>3 DEF WriteCompletion

-----------------------------------------------------------------------------
(* The types are kept *)

Keeps == UNCHANGED <<host, changes>>

\* A step that writes nothing but what its thread is doing.
LEMMA PrivateStep ==
    ASSUME TypeInv, NEW t \in Threads, NEW now \in Tasks, Goes(t, now), Keeps,
           UNCHANGED <<overlay, chronicle, landed, crossed>>,
           now.index \subseteq task[t].index,
           recorded' \in BOOLEAN, faults' \in 0 .. MaxFaults
    PROVE  TypeInv'
<1>1. /\ overlay' \in Snapshots /\ overlay'.revision >= overlay.revision /\ chronicle' \in Chronicles
      /\ landed' \in SUBSET Keys /\ {recorded', crossed'} \subseteq BOOLEAN
  BY DEF TypeInv, PlotTypeOK, Chronicles, Snapshots
<1>2. /\ \A e \in chronicle'.records : e \in chronicle.records \/ e.key = task[t].key
      /\ \A e \in chronicle'.index : e.prior <= overlay'.revision
      /\ \A e \in now.index : e.prior <= overlay'.revision
  BY DEF TypeInv, PriorsBounded
<1>3. QED
  BY <1>1, <1>2, TypedStep DEF Keeps

\* A step that writes the chronicle.
LEMMA ChronicleStep ==
    ASSUME TypeInv, NEW t \in Threads, NEW now \in Tasks, Goes(t, now), Keeps,
           UNCHANGED <<overlay, landed, crossed>>,
           chronicle' \in Chronicles,
           \A e \in chronicle'.records : e \in chronicle.records \/ e.key = task[t].key,
           chronicle'.index \subseteq chronicle.index \cup task[t].index,
           \A e \in now.index : e.prior <= overlay.revision,
           recorded' \in BOOLEAN, faults' \in 0 .. MaxFaults
    PROVE  TypeInv'
<1>1. /\ overlay' \in Snapshots /\ overlay'.revision >= overlay.revision
      /\ landed' \in SUBSET Keys /\ {recorded', crossed'} \subseteq BOOLEAN
  BY DEF TypeInv, PlotTypeOK, Snapshots
<1>2. /\ \A e \in chronicle'.index : e.prior <= overlay'.revision
      /\ \A e \in now.index : e.prior <= overlay'.revision
  BY DEF TypeInv, PriorsBounded
<1>3. QED
  BY <1>1, <1>2, TypedStep DEF Keeps

\* A step that replaces the snapshot.
LEMMA SnapshotStep ==
    ASSUME TypeInv, NEW t \in Threads, NEW now \in Tasks, Goes(t, now), Keeps,
           UNCHANGED <<chronicle>>, now.index \subseteq task[t].index,
           overlay' \in Snapshots, overlay'.revision = overlay.revision + 1,
           landed' \in SUBSET Keys, {recorded', crossed'} \subseteq BOOLEAN, faults' \in 0 .. MaxFaults
    PROVE  TypeInv'
<1>1. overlay.revision \in Nat /\ overlay'.revision >= overlay.revision /\ chronicle' \in Chronicles
  BY DEF TypeInv, PlotTypeOK, Snapshots, Chronicles
<1>2. \A e \in chronicle.index \cup task[t].index : e.prior \in Nat /\ e.prior <= overlay.revision
  BY DEF TypeInv, PlotTypeOK, PriorsBounded, Tasks, Entries
<1>3. /\ \A e \in chronicle'.records : e \in chronicle.records \/ e.key = task[t].key
      /\ \A e \in chronicle'.index : e.prior <= overlay'.revision
      /\ \A e \in now.index : e.prior <= overlay'.revision
  BY <1>1, <1>2
<1>4. QED
  BY <1>1, <1>3, TypedStep DEF Keeps

LEMMA ThreadTypes ==
    ASSUME TypeInv, ThreadInv, CopyInv, NEW t \in Threads,
           Mutates(t) \/ (t \in Drivers /\ Drives(t))
    PROVE  TypeInv'
<1>1. /\ task[t] \in Tasks /\ recorded \in BOOLEAN /\ crossed \in BOOLEAN /\ landed \in SUBSET Keys
      /\ chronicle \in Chronicles /\ faults \in 0 .. MaxFaults /\ task[t].key \in Keys
      /\ task[t].index \in SUBSET Entries /\ overlay.revision \in Nat
  BY DEF TypeInv, PlotTypeOK, Chronicles, Tasks, Snapshots
<1>2. ASSUME Fails PROVE faults' \in 0 .. MaxFaults
  BY <1>1, <1>2, PlotAssumption DEF Fails
<1>3. CASE t \in Drivers /\ Plan(t)
  <2>1. PICK now \in Tasks : Goes(t, now) /\ now.index = {}
    BY <1>3, PlanDoes
  <2>2. Keeps /\ UNCHANGED <<overlay, chronicle, landed, crossed, recorded, faults>>
    BY <1>3 DEF Plan, Keeps, threadFrame
  <2>3. now.index \subseteq task[t].index /\ recorded' \in BOOLEAN /\ faults' \in 0 .. MaxFaults
    BY <1>1, <2>1, <2>2
  <2>4. QED
    BY <2>1, <2>2, <2>3, PrivateStep
<1>4. CASE t \in Drivers /\ (Prepare(t) \/ Infer(t))
  <2>1. PICK now \in Tasks : Goes(t, now) /\ (now = Idle \/ now.index = task[t].index)
    BY <1>4, DriverDoes
  <2>2. Keeps /\ UNCHANGED <<overlay, chronicle, landed, crossed, recorded>>
    BY <1>4 DEF Prepare, Infer, Keeps, threadFrame
  <2>3. faults' \in 0 .. MaxFaults
    BY <1>1, <1>2, <1>4 DEF Prepare, Infer
  <2>4. now.index \subseteq task[t].index /\ recorded' \in BOOLEAN
    BY <1>1, <2>1, <2>2, IdleTyped
  <2>5. QED
    BY <2>1, <2>2, <2>3, <2>4, PrivateStep
<1>5. CASE Begin(t)
  <2>1. PICK now \in Tasks :
             /\ Goes(t, now)
             /\ \/ now = Idle /\ chronicle' = chronicle /\ recorded' \in {TRUE, FALSE, recorded}
                \/ now.index = task[t].index /\ chronicle' = chronicle /\ recorded' = recorded
                \/ \E entry \in Entries :
                     /\ entry.key = task[t].key /\ entry.prior = overlay.revision
                     /\ now.index = IndexWith(entry)
                     /\ chronicle' = [chronicle EXCEPT !.records = @ \cup {entry}]
                     /\ recorded' = recorded
    BY <1>5, BeginDoes
  <2>2. Keeps /\ UNCHANGED <<overlay, landed, crossed>>
    BY <1>5 DEF Begin, Keeps, threadFrame
  <2>3. faults' \in 0 .. MaxFaults
    BY <1>1, <1>2, <1>5 DEF Begin
  <2>4. recorded' \in BOOLEAN
    BY <1>1, <2>1
  <2>5. CASE chronicle' = chronicle /\ (now = Idle \/ now.index = task[t].index)
    <3>1. now.index \subseteq task[t].index
      BY <2>5, IdleTyped
    <3>2. QED
      BY <2>1, <2>2, <2>3, <2>4, <2>5, <3>1, PrivateStep
  <2>6. CASE \E entry \in Entries :
                /\ entry.key = task[t].key /\ entry.prior = overlay.revision
                /\ now.index = IndexWith(entry)
                /\ chronicle' = [chronicle EXCEPT !.records = @ \cup {entry}]
    <3>1. PICK entry \in Entries :
                /\ entry.key = task[t].key /\ entry.prior = overlay.revision
                /\ now.index = IndexWith(entry)
                /\ chronicle' = [chronicle EXCEPT !.records = @ \cup {entry}]
      BY <2>6
    <3>2. \A e \in now.index : e.prior <= overlay.revision
      BY <1>1, <3>1, IndexTyped
    <3>3. /\ chronicle' \in Chronicles /\ chronicle'.index \subseteq chronicle.index \cup task[t].index
          /\ \A e \in chronicle'.records : e \in chronicle.records \/ e.key = task[t].key
      BY <1>1, <3>1 DEF Chronicles
    <3>4. QED
      BY <2>1, <2>2, <2>3, <2>4, <3>2, <3>3, ChronicleStep
  <2>7. QED
    BY <2>1, <2>5, <2>6
<1>6. CASE IndexIntent(t)
  <2>1. PICK now \in Tasks :
             /\ Goes(t, now) /\ now.index = {}
             /\ chronicle' = [chronicle EXCEPT !.index = task[t].index] /\ UNCHANGED recorded
    BY <1>6, IndexIntentDoes
  <2>2. Keeps /\ UNCHANGED <<overlay, landed, crossed, faults>>
    BY <1>6 DEF IndexIntent, Keeps, threadFrame
  <2>3. /\ chronicle' \in Chronicles /\ chronicle'.index \subseteq chronicle.index \cup task[t].index
        /\ \A e \in chronicle'.records : e \in chronicle.records \/ e.key = task[t].key
        /\ \A e \in now.index : e.prior <= overlay.revision
        /\ recorded' \in BOOLEAN /\ faults' \in 0 .. MaxFaults
    BY <1>1, <2>1, <2>2 DEF Chronicles
  <2>4. QED
    BY <2>1, <2>2, <2>3, ChronicleStep
<1>7. CASE Load(t)
  <2>1. PICK now \in Tasks :
             /\ Goes(t, now) /\ (now = Idle \/ now.index = task[t].index)
             /\ recorded' \in {FALSE, recorded}
    BY <1>7, LoadDoes DEF NotRecorded
  <2>2. Keeps /\ UNCHANGED <<overlay, chronicle, landed, crossed>>
    BY <1>7 DEF Load, Keeps, threadFrame
  <2>3. faults' \in 0 .. MaxFaults
    BY <1>1, <1>2, <1>7 DEF Load, LoadForPending, LoadForInitialization, LoadForReconciliation,
      LoadForAdvance, LoadForUpdate
  <2>4. now.index \subseteq task[t].index /\ recorded' \in BOOLEAN
    BY <1>1, <2>1, IdleTyped
  <2>5. QED
    BY <2>1, <2>2, <2>3, <2>4, PrivateStep
<1>8. CASE Replace(t)
  <2>1. PICK now \in Tasks :
             /\ Goes(t, now) /\ (now = Idle \/ now.index = task[t].index)
             /\ recorded' \in {FALSE, recorded}
             /\ \/ /\ Mutated(t) /\ landed' = landed \cup {task[t].key}
                   /\ crossed' = (crossed \/ \E o \in Threads \ {t} : task[o].at # "idle")
                \/ UNCHANGED <<overlay, landed, crossed>>
    BY <1>8, ReplaceDoes DEF NotRecorded
  <2>2. Keeps /\ UNCHANGED <<chronicle>>
    BY <1>8 DEF Replace, Keeps, threadFrame
  <2>3. faults' \in 0 .. MaxFaults
    BY <1>1, <1>2, <1>8 DEF Replace
  <2>4. now.index \subseteq task[t].index /\ recorded' \in BOOLEAN
    BY <1>1, <2>1, IdleTyped
  <2>5. CASE UNCHANGED <<overlay, landed, crossed>>
    BY <2>1, <2>2, <2>3, <2>4, <2>5, PrivateStep
  <2>6. CASE /\ Mutated(t) /\ landed' = landed \cup {task[t].key}
             /\ crossed' = (crossed \/ \E o \in Threads \ {t} : task[o].at # "idle")
    <3>1. /\ overlay' \in Snapshots /\ overlay'.revision = overlay.revision + 1
          /\ landed' \in SUBSET Keys /\ {recorded', crossed'} \subseteq BOOLEAN
      BY <1>1, <2>4, <2>6 DEF Mutated
    <3>2. QED
      BY <2>1, <2>2, <2>3, <2>4, <3>1, SnapshotStep
  <2>7. QED
    BY <2>1, <2>5, <2>6
<1>9. CASE ClearLoad(t)
  <2>1. PICK now \in Tasks : Goes(t, now) /\ now.index = task[t].index
    BY <1>9, ClearLoadDoes
  <2>2. Keeps /\ UNCHANGED <<overlay, chronicle, landed, crossed, recorded, faults>>
    BY <1>9 DEF ClearLoad, Keeps, threadFrame
  <2>3. now.index \subseteq task[t].index /\ recorded' \in BOOLEAN /\ faults' \in 0 .. MaxFaults
    BY <1>1, <2>1, <2>2
  <2>4. QED
    BY <2>1, <2>2, <2>3, PrivateStep
<1>10. CASE ClearReplace(t)
  <2>1. PICK now \in Tasks :
             /\ Goes(t, now) /\ (now = Idle \/ now.index = task[t].index)
             /\ \/ /\ Cleared(t)
                   /\ crossed' = (crossed \/ \E o \in Threads \ {t} : task[o].at # "idle")
                \/ UNCHANGED <<overlay, crossed>>
    BY <1>10, ClearReplaceDoes
  <2>2. Keeps /\ UNCHANGED <<chronicle, landed, recorded>>
    BY <1>10 DEF ClearReplace, Keeps, threadFrame
  <2>3. faults' \in 0 .. MaxFaults
    BY <1>1, <1>2, <1>10 DEF ClearReplace
  <2>4. now.index \subseteq task[t].index /\ recorded' \in BOOLEAN
    BY <1>1, <2>1, <2>2, IdleTyped
  <2>5. CASE UNCHANGED <<overlay, crossed>>
    BY <2>1, <2>2, <2>3, <2>4, <2>5, PrivateStep
  <2>6. CASE Cleared(t) /\ crossed' = (crossed \/ \E o \in Threads \ {t} : task[o].at # "idle")
    <3>1. /\ overlay' \in Snapshots /\ overlay'.revision = overlay.revision + 1
          /\ landed' \in SUBSET Keys /\ {recorded', crossed'} \subseteq BOOLEAN
      BY <1>1, <2>2, <2>4, <2>6 DEF Cleared
    <3>2. QED
      BY <2>1, <2>2, <2>3, <2>4, <3>1, SnapshotStep
  <2>7. QED
    BY <2>1, <2>5, <2>6
<1>11. CASE WriteCompletion(t)
  <2>1. PICK now \in Tasks :
             /\ Goes(t, now)
             /\ \/ now = Idle /\ recorded' \in {FALSE, recorded} /\ chronicle' = chronicle
                \/ \E entry \in Entries :
                     /\ entry.key = task[t].key /\ entry.prior = 0
                     /\ now.index = IndexWith(entry)
                     /\ chronicle' = [chronicle EXCEPT !.records = @ \cup {entry}]
                     /\ recorded' = recorded
    BY <1>11, WriteCompletionDoes DEF NotRecorded
  <2>2. Keeps /\ UNCHANGED <<overlay, landed, crossed>>
    BY <1>11 DEF WriteCompletion, Keeps, threadFrame
  <2>3. faults' \in 0 .. MaxFaults
    BY <1>1, <1>2, <1>11 DEF WriteCompletion
  <2>4. recorded' \in BOOLEAN
    BY <1>1, <2>1
  <2>5. CASE chronicle' = chronicle /\ now = Idle
    <3>1. now.index \subseteq task[t].index
      BY <2>5, IdleTyped
    <3>2. QED
      BY <2>1, <2>2, <2>3, <2>4, <2>5, <3>1, PrivateStep
  <2>6. CASE \E entry \in Entries :
                /\ entry.key = task[t].key /\ entry.prior = 0
                /\ now.index = IndexWith(entry)
                /\ chronicle' = [chronicle EXCEPT !.records = @ \cup {entry}]
    <3>1. PICK entry \in Entries :
                /\ entry.key = task[t].key /\ entry.prior = 0
                /\ now.index = IndexWith(entry)
                /\ chronicle' = [chronicle EXCEPT !.records = @ \cup {entry}]
      BY <2>6
    <3>2. \A e \in now.index : e.prior <= overlay.revision
      BY <1>1, <3>1, IndexTyped
    <3>3. /\ chronicle' \in Chronicles /\ chronicle'.index \subseteq chronicle.index \cup task[t].index
          /\ \A e \in chronicle'.records : e \in chronicle.records \/ e.key = task[t].key
      BY <1>1, <3>1 DEF Chronicles
    <3>4. QED
      BY <2>1, <2>2, <2>3, <2>4, <3>2, <3>3, ChronicleStep
  <2>7. QED
    BY <2>1, <2>5, <2>6
<1>12. CASE IndexCompletion(t)
  <2>1. Goes(t, Idle) /\ recorded' = (IF t = "commit" THEN task[t].success ELSE recorded)
        /\ chronicle' = [chronicle EXCEPT !.index = task[t].index]
    BY <1>12 DEF IndexCompletion, Answers, Indexes
  <2>2. Keeps /\ UNCHANGED <<overlay, landed, crossed, faults>>
    BY <1>12 DEF IndexCompletion, Keeps, threadFrame
  <2>3. /\ chronicle' \in Chronicles /\ chronicle'.index \subseteq chronicle.index \cup task[t].index
        /\ \A e \in chronicle'.records : e \in chronicle.records \/ e.key = task[t].key
        /\ \A e \in Idle.index : e.prior <= overlay.revision
        /\ recorded' \in BOOLEAN /\ faults' \in 0 .. MaxFaults
    BY <1>1, <2>1, <2>2, IdleTyped DEF Chronicles, Tasks
  <2>4. QED
    BY <2>1, <2>2, <2>3, IdleTyped, ChronicleStep
<1>13. QED
  BY <1>3, <1>4, <1>5, <1>6, <1>7, <1>8, <1>9, <1>10, <1>11, <1>12 DEF Mutates, Drives

-----------------------------------------------------------------------------
(* The session's steps *)

LEMMA CommitDoes ==
    ASSUME TypeInv, ThreadInv, Commit
    PROVE  /\ TypeInv'
           /\ \E now \in Tasks :
                /\ Goes("commit", now) /\ now.at = "begin" /\ now.index = {}
                /\ now.key = <<"pending", host.commit + 1>>
           /\ host'.commit = host.commit + 1
<1>1. /\ host \in Hosts /\ host.commit \in Nat /\ host.version \in Nat /\ host.commit + 1 \in 0 .. MaxCommits
      /\ "commit" \in Threads
  BY PlotAssumption DEF TypeInv, PlotTypeOK, Hosts, Commit, Threads
<1> DEFINE c == host.commit + 1
           v == host.version + 1
           key == <<"pending", c>>
           now == [Idle EXCEPT !.at = "begin", !.key = key]
<1>2. c \in 0 .. MaxCommits /\ c \in Nat /\ v \in Nat /\ c = host.commit + 1 /\ key \in Keys
  BY <1>1, PlotAssumption DEF Keys, Kinds
<1>3. Goes("commit", now) /\ host' = [host EXCEPT !.commit = c, !.version = v]
  BY DEF Commit, Goes
<1>4. key = <<"pending", host.commit + 1>> /\ key[2] = c
  OBVIOUS
<1> HIDE DEF c, v, key
<1>5. now \in Tasks /\ now.at = "begin" /\ now.key = key /\ now.index = {}
  BY <1>2, IdleTyped DEF Tasks, Phases, Idle
<1> HIDE DEF now
<1>6. host' \in Hosts /\ host'.commit = c /\ host'.issues = host.issues
  BY <1>1, <1>2, <1>3 DEF Hosts
<1>7. UNCHANGED <<overlay, chronicle, landed, crossed, faults, changes>> /\ recorded' = FALSE
  BY DEF Commit, hostOnly
<1>8. /\ task' \in [Threads -> Tasks] /\ task'["commit"] = now
      /\ \A o \in Threads : o # "commit" => task'[o] = task[o]
  BY <1>1, <1>3, <1>5, ThreadGoes DEF TypeInv, PlotTypeOK
<1>9. PlotTypeOK' /\ (host.issues <= changes)'
  BY <1>6, <1>7, <1>8 DEF TypeInv, PlotTypeOK
<1>10. KeysBounded'
  <2>1. PICK b \in Nat : /\ \A e \in chronicle.records : e.key[2] <= b
                         /\ \A o \in Threads : task[o].key[2] <= b
    BY DEF TypeInv, KeysBounded
  <2>2. /\ \A e \in chronicle.records : e.key[2] \in Nat
        /\ \A o \in Threads : task[o].key[2] \in Nat
    BY DEF TypeInv, PlotTypeOK, Tasks, Keys, Entries
  <2> DEFINE B == b + c
  <2>3. B \in Nat /\ b <= B /\ c <= B
    BY <1>2
  <2> HIDE DEF B
  <2>4. \A e \in chronicle'.records : e.key[2] <= B
    BY <1>7, <2>1, <2>2, <2>3
  <2>5. \A o \in Threads : task'[o].key[2] <= B
    BY <1>4, <1>5, <1>8, <2>1, <2>2, <2>3
  <2>6. QED
    BY <2>3, <2>4, <2>5 DEF KeysBounded
<1>11. PriorsBounded'
  BY <1>5, <1>7, <1>8 DEF TypeInv, PriorsBounded
<1>12. QED
  BY <1>2, <1>3, <1>4, <1>5, <1>6, <1>9, <1>10, <1>11 DEF TypeInv

LEMMA ChangeDoes ==
    ASSUME TypeInv, Present \/ ChangeIssue
    PROVE  /\ TypeInv' /\ host'.commit = host.commit
           /\ UNCHANGED <<overlay, chronicle, task, landed, recorded, crossed>>
<1>1. /\ host \in Hosts /\ host.version \in Nat /\ host.issues \in 0 .. MaxChanges
      /\ changes \in 0 .. MaxChanges /\ host.issues <= changes
  BY DEF TypeInv, PlotTypeOK, Hosts
<1>2. UNCHANGED <<overlay, chronicle, task, landed, recorded, crossed, faults>>
  BY DEF Present, ChangeIssue, hostOnly
<1>3. changes' \in 0 .. MaxChanges /\ changes' = changes + 1
  BY <1>1, PlotAssumption DEF Present, ChangeIssue
<1> DEFINE v == host.version + 1
           i == host.issues + 1
<1>4. v \in Nat
  BY <1>1
<1>5. host' \in Hosts /\ host'.commit = host.commit /\ host'.issues <= changes'
  <2>1. CASE Present
    <3>1. host' = [host EXCEPT !.version = v, !.opened = TRUE]
      BY <2>1 DEF Present
    <3> HIDE DEF v
    <3>2. host' \in Hosts /\ host'.commit = host.commit /\ host'.issues = host.issues
      BY <1>1, <1>4, <3>1 DEF Hosts
    <3>3. QED
      BY <1>1, <1>3, <3>2
  <2>2. CASE ChangeIssue
    <3>1. host' = [host EXCEPT !.version = v, !.issues = i] /\ changes < MaxChanges
      BY <2>2 DEF ChangeIssue
    <3>2. i \in 0 .. MaxChanges /\ i <= changes'
      BY <1>1, <1>3, <3>1, PlotAssumption
    <3> HIDE DEF v, i
    <3>3. host' \in Hosts /\ host'.commit = host.commit /\ host'.issues = i
      BY <1>1, <1>4, <3>1, <3>2 DEF Hosts
    <3>4. QED
      BY <3>2, <3>3
  <2>3. QED
    BY <2>1, <2>2
<1>6. QED
  BY <1>2, <1>3, <1>5 DEF TypeInv, PlotTypeOK, KeysBounded, PriorsBounded

LEMMA CrashDoes ==
    ASSUME TypeInv, Crash
    PROVE  /\ TypeInv' /\ host'.commit = host.commit
           /\ \A t \in Threads : task'[t] = Idle
                                 \/ (task[t].at \in OfTheRuntime /\ task'[t] = task[t])
           /\ UNCHANGED <<overlay, chronicle, landed, recorded, crossed>>
<1>1. host \in Hosts /\ host.commit \in 0 .. MaxCommits
  BY DEF TypeInv, PlotTypeOK, Hosts
<1>2. UNCHANGED <<overlay, chronicle, landed, recorded, crossed, changes>>
  BY DEF Crash
<1>3. faults' \in 0 .. MaxFaults
  BY PlotAssumption DEF Crash, TypeInv, PlotTypeOK
<1>4. host' = [host EXCEPT !.since = host.commit]
  BY DEF Crash
<1>5. host' \in Hosts /\ host'.commit = host.commit /\ host'.issues = host.issues
  BY <1>1, <1>4 DEF Hosts
<1>6. \A t \in Threads : task'[t] = Idle \/ (task[t].at \in OfTheRuntime /\ task'[t] = task[t])
  BY DEF Crash
<1>7. task' \in [Threads -> Tasks]
  BY IdleTyped DEF Crash, TypeInv, PlotTypeOK
<1>8. PlotTypeOK' /\ (host.issues <= changes)'
  BY <1>2, <1>3, <1>5, <1>7 DEF TypeInv, PlotTypeOK
<1>9. KeysBounded'
  <2>1. Idle.key[2] = 0
    BY IdleTyped
  <2>2. PICK b \in Nat : /\ \A e \in chronicle.records : e.key[2] <= b
                         /\ \A o \in Threads : task[o].key[2] <= b
    BY DEF TypeInv, KeysBounded
  <2>3. \A o \in Threads : task'[o].key[2] <= b
    BY <1>6, <2>1, <2>2
  <2>4. QED
    BY <1>2, <2>2, <2>3 DEF KeysBounded
<1>10. PriorsBounded'
  BY <1>2, <1>6, IdleTyped DEF TypeInv, PriorsBounded
<1>11. QED
  BY <1>2, <1>5, <1>6, <1>8, <1>9, <1>10 DEF TypeInv

-----------------------------------------------------------------------------
(* What a thread works at, and the snapshot in its hand *)

LEMMA ThreadStep ==
    ASSUME TypeInv, ThreadInv, NEW t \in Threads, NEW now \in Tasks, Goes(t, now), UNCHANGED host,
           t = "commit" \/ recorded' = recorded,
           \/ now = Idle
           \/ now.key = task[t].key /\ now.at \in AtWork /\ task[t].at \in AtWork /\ recorded' = recorded
           \/ t \in Drivers /\ (now.key[1] = "pending" => now.at \notin AtWork /\ now.key[2] = 0)
    PROVE  ThreadInv'
<1>1. /\ task' \in [Threads -> Tasks] /\ task'[t] = now
      /\ \A o \in Threads : o # t => task'[o] = task[o]
  BY ThreadGoes DEF TypeInv, PlotTypeOK
<1>2. "commit" \in Threads /\ "commit" \notin Drivers /\ Drivers \subseteq Threads
  BY PlotAssumption DEF Threads
<1>3. Idle.key[1] = "pending" /\ Idle.key[2] = 0 /\ Idle.at = "idle" /\ "idle" \notin AtWork
  BY IdleTyped DEF AtWork
<1>4. CASE t = "commit"
  BY <1>1, <1>2, <1>3, <1>4 DEF ThreadInv, Kind
<1>5. CASE t # "commit"
  BY <1>1, <1>2, <1>3, <1>5 DEF ThreadInv, Kind
<1>6. QED
  BY <1>4, <1>5

LEMMA CopyStep ==
    ASSUME TypeInv, CopyInv, NEW t \in Threads, NEW now \in Tasks, Goes(t, now),
           overlay' = overlay \/ overlay'.revision = overlay.revision + 1,
           now.at \in {"replace", "clearReplace"} => now.copy = overlay',
           now.at = "replace" =>
               /\ IF now.key[1] = "initialization" THEN now.copy.status = "absent"
                  ELSE now.copy.status = "ready"
               /\ now.key[1] = "update" => now.source.fingerprint = now.prompted.fingerprint,
           overlay'.status = "absent" => overlay'.content = {} /\ overlay'.authority = NoSource
    PROVE  CopyInv'
<1>1. /\ task' \in [Threads -> Tasks] /\ task'[t] = now
      /\ \A o \in Threads : o # t => task'[o] = task[o]
  BY ThreadGoes DEF TypeInv, PlotTypeOK
<1>2. overlay.revision \in Nat /\ \A o \in Threads : task[o].copy.revision \in Nat
  BY DEF TypeInv, PlotTypeOK, Tasks, Snapshots
<1>3. now.copy.revision \in Nat
  BY DEF Tasks, Snapshots
<1>4. ASSUME NEW o \in Threads, task'[o].at \in {"replace", "clearReplace"}
      PROVE  /\ task'[o].copy.revision <= overlay'.revision
             /\ task'[o].copy.revision = overlay'.revision => task'[o].copy = overlay'
  <2>1. CASE o = t
    BY <1>1, <1>3, <1>4, <2>1
  <2>2. CASE o # t
    <3>1. /\ task'[o] = task[o] /\ task[o].copy.revision <= overlay.revision
          /\ task[o].copy.revision = overlay.revision => task[o].copy = overlay
      BY <1>1, <1>4, <2>2 DEF CopyInv
    <3>2. CASE overlay' = overlay
      BY <3>1, <3>2
    <3>3. CASE overlay'.revision = overlay.revision + 1
      BY <1>2, <3>1, <3>3
    <3>4. QED
      BY <3>2, <3>3
  <2>3. QED
    BY <2>1, <2>2
<1>5. ASSUME NEW o \in Threads, task'[o].at = "replace"
      PROVE  /\ IF task'[o].key[1] = "initialization" THEN task'[o].copy.status = "absent"
                ELSE task'[o].copy.status = "ready"
             /\ task'[o].key[1] = "update" => task'[o].source.fingerprint = task'[o].prompted.fingerprint
  BY <1>1, <1>5 DEF CopyInv, Kind
<1>6. QED
  BY <1>4, <1>5 DEF CopyInv, Kind

\* The cognition on disk is that of the mutations that landed.
LEMMA CognitionKept ==
    ASSUME TypeInv, ThreadInv, CopyInv, NoCognitionLost, NEW t \in Threads,
           Mutates(t) \/ (t \in Drivers /\ Drives(t))
    PROVE  ThreadInv' /\ CopyInv' /\ NoCognitionLost'
<1>1. /\ "commit" \in Threads /\ "commit" \notin Drivers /\ Drivers \subseteq Threads
      /\ (t # "commit" => t \in Drivers) /\ task[t] \in Tasks
  BY PlotAssumption DEF Threads, TypeInv, PlotTypeOK
<1>2. Idle.at = "idle" /\ Idle \in Tasks
  BY IdleTyped
<1>3. AtWork = {"begin", "intent", "load", "replace", "completion", "index"}
  BY DEF AtWork
<1>4. Kind(t) = task[t].key[1]
  BY DEF Kind
<1>5. overlay.status = "absent" => overlay.content = {} /\ overlay.authority = NoSource
  BY DEF CopyInv
<1>6. ASSUME UNCHANGED <<overlay, landed>> PROVE NoCognitionLost'
  BY <1>6 DEF NoCognitionLost
<1>7. CASE t \in Drivers /\ Plan(t)
  <2>1. PICK now \in Tasks :
             /\ Goes(t, now)
             /\ \/ now.at \in {"preparing", "clearLoad"} /\ now.key = <<"pending", 0>>
                \/ now.at = "inferring" /\ now.key = <<"initialization", 0>>
                \/ now.at = "begin" /\ now.key[1] \in {"authority_advance", "reconciliation"}
    BY <1>7, PlanDoes
  <2>2. UNCHANGED <<host, overlay, landed, recorded>>
    BY <1>7 DEF Plan, threadFrame
  <2>3. now.key[1] = "pending" => now.at \notin AtWork /\ now.key[2] = 0
    BY <1>3, <2>1
  <2>4. ThreadInv'
    BY <1>7, <2>1, <2>2, <2>3, ThreadStep
  <2>5. CopyInv'
    BY <1>5, <2>1, <2>2, CopyStep
  <2>6. QED
    BY <1>6, <2>2, <2>4, <2>5
<1>8. CASE t \in Drivers /\ (Prepare(t) \/ Infer(t))
  <2>1. PICK now \in Tasks :
             /\ Goes(t, now)
             /\ \/ now = Idle
                \/ now.at = "inferring" /\ now.key = task[t].key
                \/ now.at = "begin" /\ now.key[1] \in {"initialization", "update"}
    BY <1>8, DriverDoes
  <2>2. UNCHANGED <<host, overlay, landed, recorded>>
    BY <1>8 DEF Prepare, Infer, threadFrame
  <2>3. now = Idle \/ (now.key[1] = "pending" => now.at \notin AtWork /\ now.key[2] = 0)
    BY <1>3, <1>4, <1>8, <2>1 DEF ThreadInv
  <2>4. ThreadInv'
    BY <1>8, <2>1, <2>2, <2>3, ThreadStep
  <2>5. now.at \notin {"replace", "clearReplace"}
    BY <1>2, <2>1
  <2>6. CopyInv'
    BY <1>5, <2>1, <2>2, <2>5, CopyStep
  <2>7. QED
    BY <1>6, <2>2, <2>4, <2>6
<1>9. CASE Begin(t)
  <2>1. PICK now \in Tasks :
             /\ Goes(t, now) /\ (t = "commit" \/ recorded' = recorded)
             /\ \/ now = Idle
                \/ now.at \in {"load", "intent"} /\ now.key = task[t].key /\ recorded' = recorded
    BY <1>9, BeginDoes
  <2>2. UNCHANGED <<host, overlay, landed>> /\ task[t].at = "begin"
    BY <1>9 DEF Begin, threadFrame
  <2>3. now = Idle \/ (now.key = task[t].key /\ now.at \in AtWork /\ task[t].at \in AtWork /\ recorded' = recorded)
    BY <1>3, <2>1, <2>2
  <2>4. ThreadInv'
    BY <2>1, <2>2, <2>3, ThreadStep
  <2>5. now.at \notin {"replace", "clearReplace"}
    BY <1>2, <2>1
  <2>6. CopyInv'
    BY <1>5, <2>1, <2>2, <2>5, CopyStep
  <2>7. QED
    BY <1>6, <2>2, <2>4, <2>6
<1>10. CASE IndexIntent(t)
  <2>1. PICK now \in Tasks :
             Goes(t, now) /\ now.at = "load" /\ now.key = task[t].key /\ recorded' = recorded
    BY <1>10, IndexIntentDoes
  <2>2. UNCHANGED <<host, overlay, landed>> /\ task[t].at = "intent"
    BY <1>10 DEF IndexIntent, threadFrame
  <2>3. now.at \in AtWork /\ task[t].at \in AtWork
    BY <1>3, <2>1, <2>2
  <2>4. ThreadInv'
    BY <2>1, <2>2, <2>3, ThreadStep
  <2>5. CopyInv'
    BY <1>5, <2>1, <2>2, CopyStep
  <2>6. QED
    BY <1>6, <2>2, <2>4, <2>5
<1>11. CASE Load(t)
  <2>1. PICK now \in Tasks :
             /\ Goes(t, now)
             /\ \/ now = Idle /\ NotRecorded(t)
                \/ now.at = "completion" /\ now.key = task[t].key /\ recorded' = recorded
                \/ /\ now.at = "replace" /\ now.copy = overlay /\ now.key = task[t].key
                   /\ now.prompted = task[t].prompted
                   /\ LoadedFor(t, now.source) /\ recorded' = recorded
    BY <1>11, LoadDoes
  <2>2. UNCHANGED <<host, overlay, landed>> /\ task[t].at = "load"
    BY <1>11 DEF Load, threadFrame
  <2>3. /\ t = "commit" \/ recorded' = recorded
        /\ now = Idle \/ (now.key = task[t].key /\ now.at \in AtWork /\ task[t].at \in AtWork /\ recorded' = recorded)
    BY <1>3, <2>1, <2>2 DEF NotRecorded
  <2>4. ThreadInv'
    BY <2>1, <2>2, <2>3, ThreadStep
  <2>5. /\ now.at \in {"replace", "clearReplace"} => now.copy = overlay
        /\ now.at = "replace" =>
             /\ IF now.key[1] = "initialization" THEN now.copy.status = "absent"
                ELSE now.copy.status = "ready"
             /\ now.key[1] = "update" => now.source.fingerprint = now.prompted.fingerprint
    BY <1>2, <1>4, <2>1 DEF LoadedFor
  <2>6. CopyInv'
    BY <1>5, <2>1, <2>2, <2>5, CopyStep
  <2>7. QED
    BY <1>6, <2>2, <2>4, <2>6
<1>12. CASE Replace(t)
  <2>1. PICK now \in Tasks :
             /\ Goes(t, now)
             /\ \/ /\ RevisionMatches(t) /\ Mutated(t) /\ task[t].copy = overlay
                   /\ landed' = landed \cup {task[t].key} /\ recorded' = recorded
                   /\ now.at = (IF Kind(t) \in {"pending", "initialization"} THEN "completion" ELSE "clearLoad")
                   /\ now.key = task[t].key
                \/ UNCHANGED <<overlay, landed>> /\ now = Idle /\ NotRecorded(t)
                \/ /\ UNCHANGED <<overlay, landed>> /\ recorded' = recorded
                   /\ now.at = "completion" /\ now.key = task[t].key
    BY <1>12, ReplaceDoes
  <2>2. UNCHANGED host /\ task[t].at = "replace"
    BY <1>12 DEF Replace, threadFrame
  <2>3. ThreadInv'
    <3>1. t = "commit" \/ recorded' = recorded
      BY <2>1 DEF NotRecorded
    <3>2. CASE now = Idle
      BY <2>1, <2>2, <3>1, <3>2, ThreadStep
    <3>3. CASE now.at = "completion" /\ now.key = task[t].key /\ recorded' = recorded
      <4>1. now.at \in AtWork /\ task[t].at \in AtWork
        BY <1>3, <2>2, <3>3
      <4>2. QED
        BY <2>1, <2>2, <3>1, <3>3, <4>1, ThreadStep
    <3>4. CASE now.at = "clearLoad" /\ now.key = task[t].key /\ Kind(t) # "pending"
      <4>1. t \in Drivers
        BY <1>1, <3>4 DEF ThreadInv
      <4>2. now.key[1] = "pending" => now.at \notin AtWork /\ now.key[2] = 0
        BY <1>4, <3>4
      <4>3. QED
        BY <2>1, <2>2, <3>1, <4>1, <4>2, ThreadStep
    <3>5. QED
      BY <2>1, <3>2, <3>3, <3>4
  <2>4. now.at \notin {"replace", "clearReplace"}
    BY <1>2, <2>1
  <2>5. CASE UNCHANGED <<overlay, landed>>
    <3>1. CopyInv'
      BY <1>5, <2>1, <2>4, <2>5, CopyStep
    <3>2. QED
      BY <1>6, <2>3, <2>5, <3>1
  <2>6. CASE /\ Mutated(t) /\ task[t].copy = overlay /\ landed' = landed \cup {task[t].key}
    <3>1. overlay'.status = "ready" /\ overlay'.revision = overlay.revision + 1
      BY <2>6 DEF Mutated
    <3>2. CopyInv'
      BY <2>1, <2>4, <3>1, CopyStep
    <3>3. Kind(t) = "initialization" => overlay.content = {}
      BY <1>5, <2>2, <2>6 DEF CopyInv
    <3>4. overlay'.content = {k \in landed' : k[1] \in {"initialization", "update"}}
      <4>1. CASE Kind(t) = "initialization"
        <5>1. overlay'.content = {task[t].key} /\ task[t].key[1] = "initialization"
          BY <1>4, <2>6, <4>1 DEF Mutated
        <5>2. QED
          BY <2>6, <3>3, <4>1, <5>1 DEF NoCognitionLost
      <4>2. CASE Kind(t) = "update"
        <5>1. overlay'.content = overlay.content \cup {task[t].key} /\ task[t].key[1] = "update"
          BY <1>4, <2>6, <4>2 DEF Mutated
        <5>2. QED
          BY <2>6, <5>1 DEF NoCognitionLost
      <4>3. CASE Kind(t) \notin {"initialization", "update"}
        <5>1. overlay'.content = overlay.content /\ task[t].key[1] \notin {"initialization", "update"}
          BY <1>4, <2>6, <4>3 DEF Mutated
        <5>2. QED
          BY <2>6, <5>1 DEF NoCognitionLost
      <4>4. QED
        BY <4>1, <4>2, <4>3
    <3>5. QED
      BY <2>3, <3>2, <3>4 DEF NoCognitionLost
  <2>7. QED
    BY <2>1, <2>5, <2>6
<1>13. CASE ClearLoad(t)
  <2>1. PICK now \in Tasks :
             /\ Goes(t, now) /\ now.at = "clearReplace" /\ now.key = task[t].key
             /\ now.copy = overlay /\ UNCHANGED <<overlay, recorded>>
    BY <1>13, ClearLoadDoes
  <2>2. UNCHANGED <<host, landed>> /\ task[t].at = "clearLoad"
    BY <1>13 DEF ClearLoad, threadFrame
  <2>3. t \in Drivers /\ (now.key[1] = "pending" => now.at \notin AtWork /\ now.key[2] = 0)
    BY <1>1, <1>3, <1>4, <2>1, <2>2 DEF ThreadInv
  <2>4. ThreadInv'
    BY <2>1, <2>2, <2>3, ThreadStep
  <2>5. CopyInv'
    BY <1>5, <2>1, <2>2, CopyStep
  <2>6. QED
    BY <1>6, <2>1, <2>2, <2>4, <2>5
<1>14. CASE ClearReplace(t)
  <2>1. PICK now \in Tasks :
             /\ Goes(t, now)
             /\ \/ now = Idle
                \/ now.at = "completion" /\ Kind(t) # "pending" /\ now.key = task[t].key
             /\ Cleared(t) \/ UNCHANGED overlay
    BY <1>14, ClearReplaceDoes
  <2>2. UNCHANGED <<host, landed, recorded>> /\ task[t].at = "clearReplace"
    BY <1>14 DEF ClearReplace, threadFrame
  <2>3. t \in Drivers /\ (now = Idle \/ (now.key[1] = "pending" => now.at \notin AtWork /\ now.key[2] = 0))
    BY <1>1, <1>3, <1>4, <2>1, <2>2 DEF ThreadInv
  <2>4. ThreadInv'
    BY <2>1, <2>2, <2>3, ThreadStep
  <2>5. now.at \notin {"replace", "clearReplace"}
    BY <1>2, <2>1
  <2>6. /\ overlay' = overlay \/ overlay'.revision = overlay.revision + 1
        /\ overlay'.content = overlay.content /\ overlay'.status = overlay.status
        /\ overlay'.authority = overlay.authority
    BY <2>1 DEF Cleared
  <2>7. CopyInv'
    BY <1>5, <2>1, <2>5, <2>6, CopyStep
  <2>8. NoCognitionLost'
    BY <2>2, <2>6 DEF NoCognitionLost
  <2>9. QED
    BY <2>4, <2>7, <2>8
<1>15. CASE WriteCompletion(t)
  <2>1. PICK now \in Tasks :
             /\ Goes(t, now)
             /\ \/ now = Idle /\ NotRecorded(t)
                \/ now.at = "index" /\ now.key = task[t].key /\ recorded' = recorded
    BY <1>15, WriteCompletionDoes
  <2>2. UNCHANGED <<host, overlay, landed>> /\ task[t].at = "completion"
    BY <1>15 DEF WriteCompletion, threadFrame
  <2>3. /\ t = "commit" \/ recorded' = recorded
        /\ now = Idle \/ (now.key = task[t].key /\ now.at \in AtWork /\ task[t].at \in AtWork /\ recorded' = recorded)
    BY <1>3, <2>1, <2>2 DEF NotRecorded
  <2>4. ThreadInv'
    BY <2>1, <2>2, <2>3, ThreadStep
  <2>5. now.at \notin {"replace", "clearReplace"}
    BY <1>2, <2>1
  <2>6. CopyInv'
    BY <1>5, <2>1, <2>2, <2>5, CopyStep
  <2>7. QED
    BY <1>6, <2>2, <2>4, <2>6
<1>16. CASE IndexCompletion(t)
  <2>1. Goes(t, Idle) /\ (t = "commit" \/ recorded' = recorded) /\ UNCHANGED <<host, overlay, landed>>
    BY <1>16 DEF IndexCompletion, Answers, threadFrame
  <2>2. ThreadInv'
    BY <1>2, <2>1, ThreadStep
  <2>3. Idle.at \notin {"replace", "clearReplace"}
    BY <1>2
  <2>4. CopyInv'
    BY <1>2, <1>5, <2>1, <2>3, CopyStep
  <2>5. QED
    BY <1>6, <2>1, <2>2, <2>4
<1>17. QED
  BY <1>7, <1>8, <1>9, <1>10, <1>11, <1>12, <1>13, <1>14, <1>15, <1>16 DEF Mutates, Drives

\* Every step keeps the types, the threads, the copies and the cognition.
LEMMA CognitionStep == ASSUME CognitionInv, PlotNext PROVE CognitionInv'
<1> USE DEF CognitionInv
<1>1. /\ "commit" \in Threads /\ "commit" \notin Drivers /\ Drivers \subseteq Threads
  BY PlotAssumption DEF Threads
<1>2. Idle.at = "idle" /\ Idle.key[1] = "pending" /\ Idle.key[2] = 0
  BY IdleTyped
<1>3. CASE Commit
  <2>1. TypeInv'
    BY <1>3, CommitDoes
  <2>2. PICK now \in Tasks :
            /\ Goes("commit", now) /\ now.at = "begin"
            /\ now.key = <<"pending", host.commit + 1>> /\ host'.commit = host.commit + 1
    BY <1>3, CommitDoes
  <2>3. /\ task' \in [Threads -> Tasks] /\ task'["commit"] = now
        /\ \A o \in Threads : o # "commit" => task'[o] = task[o]
    BY <1>1, <2>2, ThreadGoes DEF TypeInv, PlotTypeOK
  <2>4. UNCHANGED <<overlay, landed>> /\ recorded' = FALSE
    BY <1>3 DEF Commit, hostOnly
  <2>5. host.commit \in Nat
    BY DEF TypeInv, PlotTypeOK, Hosts
  <2>6. ThreadInv'
    BY <1>1, <2>2, <2>3, <2>4, <2>5 DEF ThreadInv, Kind, AtWork
  <2>7. CopyInv'
    BY <1>1, <2>2, <2>3, <2>4 DEF CopyInv, Kind
  <2>8. QED
    BY <2>1, <2>4, <2>6, <2>7 DEF NoCognitionLost
<1>4. CASE Present \/ ChangeIssue
  <2>1. TypeInv' /\ host'.commit = host.commit
        /\ UNCHANGED <<overlay, chronicle, task, landed, recorded, crossed>>
    BY <1>4, ChangeDoes
  <2>2. QED
    BY <2>1 DEF ThreadInv, CopyInv, Kind, NoCognitionLost
<1>5. CASE Crash
  <2>1. /\ TypeInv' /\ host'.commit = host.commit
        /\ \A t \in Threads : task'[t] = Idle
                              \/ (task[t].at \in OfTheRuntime /\ task'[t] = task[t])
        /\ UNCHANGED <<overlay, landed, recorded>>
    BY <1>5, CrashDoes
  <2>2. ThreadInv'
    BY <1>1, <1>2, <2>1 DEF ThreadInv, Kind, AtWork
  <2>3. CopyInv'
    BY <1>2, <2>1 DEF CopyInv, Kind
  <2>4. QED
    BY <2>1, <2>2, <2>3 DEF NoCognitionLost
<1>6. CASE \E t \in Threads : Mutates(t) \/ (t \in Drivers /\ Drives(t))
  BY <1>6, ThreadTypes, CognitionKept
<1>7. QED
  BY <1>1, <1>3, <1>4, <1>5, <1>6 DEF PlotNext

-----------------------------------------------------------------------------
(* The records of the chronicle *)

\* A thread's step adds at most a record of its own.
LEMMA RecordsStep ==
    ASSUME TypeInv, ThreadInv, OwnRecords, NEW t \in Threads, NEW now \in Tasks, Goes(t, now),
           UNCHANGED host,
           t = "commit" => now.at # "begin",
           chronicle'.index \subseteq chronicle.index \cup task[t].index,
           \A e \in now.index : \/ e \in chronicle.index \cup task[t].index
                                \/ e.key = task[t].key /\ task[t].at \in AtWork
    PROVE  OwnRecords'
<1>1. /\ task' \in [Threads -> Tasks] /\ task'[t] = now
      /\ \A o \in Threads : o # t => task'[o] = task[o]
  BY ThreadGoes DEF TypeInv, PlotTypeOK
<1>2. "commit" \in Threads /\ "commit" \notin Drivers /\ (t # "commit" => t \in Drivers)
  BY PlotAssumption DEF Threads
<1>3. host.commit \in Nat
  BY DEF TypeInv, PlotTypeOK, Hosts
<1>4. task'["commit"].at = "begin" => task["commit"].at = "begin"
  BY <1>1, <1>2
<1>5. \A e \in chronicle.index \cup task[t].index :
         e.key[1] = "pending" => /\ e.key[2] <= host.commit
                                 /\ task'["commit"].at = "begin" => e.key[2] # host.commit
  BY <1>4 DEF OwnRecords, OwnRecord
<1>6. ASSUME task[t].at \in AtWork, task[t].key[1] = "pending"
      PROVE  task[t].key[2] <= host.commit /\ task'["commit"].at # "begin"
  <2>1. t = "commit"
    BY <1>2, <1>6 DEF ThreadInv, Kind
  <2>2. QED
    BY <1>1, <1>3, <1>6, <2>1 DEF ThreadInv, AtWork
<1>7. \A e \in now.index :
         e.key[1] = "pending" => /\ e.key[2] <= host.commit
                                 /\ task'["commit"].at = "begin" => e.key[2] # host.commit
  BY <1>5, <1>6
<1>8. \A o \in Threads : o # t => \A e \in task'[o].index :
         e.key[1] = "pending" => /\ e.key[2] <= host.commit
                                 /\ task'["commit"].at = "begin" => e.key[2] # host.commit
  BY <1>1, <1>4 DEF OwnRecords, OwnRecord
<1>9. QED
  BY <1>1, <1>5, <1>7, <1>8 DEF OwnRecords, OwnRecord

LEMMA RecordsKept ==
    ASSUME TypeInv, ThreadInv, CopyInv, OwnRecords, NEW t \in Threads,
           Mutates(t) \/ (t \in Drivers /\ Drives(t))
    PROVE  OwnRecords'
<1>1. "commit" \in Threads /\ "commit" \notin Drivers /\ task[t] \in Tasks
  BY PlotAssumption DEF Threads, TypeInv, PlotTypeOK
<1>2. Idle.at = "idle" /\ Idle \in Tasks /\ Idle.index = {}
  BY IdleTyped
<1>3. AtWork = {"begin", "intent", "load", "replace", "completion", "index"}
  BY DEF AtWork
<1>4. CASE t \in Drivers /\ (Plan(t) \/ Prepare(t) \/ Infer(t))
  <2>1. PICK now \in Tasks : Goes(t, now) /\ (now.index = {} \/ now.index = task[t].index)
    BY <1>2, <1>4, PlanDoes, DriverDoes
  <2>2. UNCHANGED <<host, chronicle>>
    BY <1>4 DEF Plan, Prepare, Infer, threadFrame
  <2>3. QED
    BY <1>1, <1>4, <2>1, <2>2, RecordsStep
<1>5. CASE Begin(t) \/ WriteCompletion(t)
  <2>1. PICK now \in Tasks :
             /\ Goes(t, now) /\ now.at # "begin"
             /\ \/ now.index \in {{}, task[t].index} /\ chronicle' = chronicle
                \/ \E entry \in Entries :
                     /\ entry.key = task[t].key /\ entry.prior \in {0, overlay.revision}
                     /\ now.index = IndexWith(entry) /\ chronicle'.index = chronicle.index
    <3>1. chronicle \in Chronicles
      BY DEF TypeInv, PlotTypeOK, Chronicles
    <3>2. \A entry : [chronicle EXCEPT !.records = @ \cup {entry}].index = chronicle.index
      BY <3>1 DEF Chronicles
    <3>3. CASE Begin(t)
      <4>1. PICK now \in Tasks :
               /\ Goes(t, now)
               /\ \/ now = Idle /\ chronicle' = chronicle /\ recorded' \in {TRUE, FALSE, recorded}
                  \/ /\ now.at = "load" /\ now.index = task[t].index
                     /\ chronicle' = chronicle /\ recorded' = recorded
                  \/ \E entry \in Entries :
                       /\ entry.key = task[t].key /\ entry.prior = overlay.revision
                       /\ now.at = "intent" /\ now.index = IndexWith(entry)
                       /\ chronicle' = [chronicle EXCEPT !.records = @ \cup {entry}]
                       /\ recorded' = recorded
        BY <3>3, BeginDoes
      <4>2. QED
        BY <1>2, <3>2, <4>1
    <3>4. CASE WriteCompletion(t)
      <4>1. PICK now \in Tasks :
             /\ Goes(t, now)
             /\ \/ now = Idle /\ chronicle' = chronicle
                \/ \E entry \in Entries :
                     /\ entry.key = task[t].key /\ entry.prior = 0
                     /\ now.at = "index" /\ now.index = IndexWith(entry)
                     /\ chronicle' = [chronicle EXCEPT !.records = @ \cup {entry}]
        BY <3>4, WriteCompletionDoes
      <4>2. QED
        BY <1>2, <3>2, <4>1
    <3>5. QED
      BY <1>5, <3>3, <3>4
  <2>2. UNCHANGED host /\ task[t].at \in AtWork
    BY <1>3, <1>5 DEF Begin, WriteCompletion, threadFrame
  <2>3. \A e \in now.index : \/ e \in chronicle.index \cup task[t].index
                             \/ e.key = task[t].key
    BY <2>1 DEF IndexWith
  <2>4. chronicle'.index \subseteq chronicle.index \cup task[t].index
    BY <2>1
  <2>5. QED
    BY <2>1, <2>2, <2>3, <2>4, RecordsStep
<1>6. CASE IndexIntent(t) \/ IndexCompletion(t)
  <2>1. PICK now \in Tasks :
             /\ Goes(t, now) /\ now.at # "begin" /\ now.index = {}
             /\ chronicle' = [chronicle EXCEPT !.index = task[t].index]
    <3>1. CASE IndexIntent(t)
      BY <3>1, IndexIntentDoes
    <3>2. CASE IndexCompletion(t)
      BY <1>2, <3>2 DEF IndexCompletion, Answers, Indexes
    <3>3. QED
      BY <1>6, <3>1, <3>2
  <2>2. UNCHANGED host /\ chronicle'.index = task[t].index
    BY <1>6, <2>1 DEF IndexIntent, IndexCompletion, threadFrame, TypeInv, PlotTypeOK
  <2>3. QED
    BY <2>1, <2>2, RecordsStep
<1>7. CASE Load(t) \/ Replace(t) \/ ClearLoad(t) \/ ClearReplace(t)
  <2>1. PICK now \in Tasks :
             Goes(t, now) /\ now.at # "begin" /\ now.index \in {{}, task[t].index}
    <3>1. CASE Load(t)
      BY <1>2, <3>1, LoadDoes
    <3>2. CASE Replace(t)
      BY <1>2, <3>2, ReplaceDoes
    <3>3. CASE ClearLoad(t)
      BY <3>3, ClearLoadDoes
    <3>4. CASE ClearReplace(t)
      BY <1>2, <3>4, ClearReplaceDoes
    <3>5. QED
      BY <1>7, <3>1, <3>2, <3>3, <3>4
  <2>2. UNCHANGED <<host, chronicle>>
    BY <1>7 DEF Load, Replace, ClearLoad, ClearReplace, threadFrame
  <2>3. QED
    BY <2>1, <2>2, RecordsStep
<1>8. QED
  BY <1>4, <1>5, <1>6, <1>7 DEF Mutates, Drives

-----------------------------------------------------------------------------
(* What is behind is withheld *)

\* What a driver must be through with to save or to clear.
MayGo(d, now) ==
    /\ (now.at = "replace" /\ now.key[1] # "initialization" /\ overlay.revision = now.copy.revision) =>
         Through(now.source) \/ ~OnRecord
    /\ now.at \in {"clearLoad", "clearReplace"} /\ now.key[1] # "pending" => overlay.pending = 0
    /\ now.at \in {"clearLoad", "clearReplace"} /\ now.key[1] = "pending" =>
         overlay.status = "ready" /\ (Through(overlay.authority) \/ ~OnRecord)

\* A step that leaves the snapshot alone and brings nothing on record.
LEMMA BehindKept ==
    ASSUME TypeInv, ThreadInv, CopyInv, BehindInv, NEW t \in Threads, NEW now \in Tasks, Goes(t, now),
           UNCHANGED <<host, overlay, crossed>>,
           OnRecord' => OnRecord \/ (overlay.status # "ready" /\ t = "commit"),
           ~crossed /\ t \in Drivers => MayGo(t, now)
    PROVE  BehindInv'
<1>1. /\ task' \in [Threads -> Tasks] /\ task'[t] = now
      /\ \A o \in Threads : o # t => task'[o] = task[o]
  BY ThreadGoes DEF TypeInv, PlotTypeOK
<1>2. "commit" \notin Drivers /\ Drivers \subseteq Threads
  BY PlotAssumption DEF Threads
<1>3. SUFFICES ASSUME ~crossed PROVE BehindInv'
  BY DEF BehindInv
<1>4. ((OnRecord /\ overlay.status = "ready" /\ overlay.authority # NoSource
              /\ overlay.authority.commit < host.commit) => overlay.pending # 0)'
  BY <1>3 DEF BehindInv
<1>5. ASSUME NEW d \in Drivers
      PROVE  /\ (task'[d].at = "replace" /\ task'[d].key[1] # "initialization"
                    /\ overlay.revision = task'[d].copy.revision) =>
                  Through(task'[d].source) \/ ~OnRecord'
             /\ task'[d].at \in {"clearLoad", "clearReplace"} /\ task'[d].key[1] # "pending" => overlay.pending = 0
             /\ task'[d].at \in {"clearLoad", "clearReplace"} /\ task'[d].key[1] = "pending" =>
                  overlay.status = "ready" /\ (Through(overlay.authority) \/ ~OnRecord')
  <2>1. /\ (task'[d].at = "replace" /\ task'[d].key[1] # "initialization"
                    /\ overlay.revision = task'[d].copy.revision) =>
                  (Through(task'[d].source) \/ ~OnRecord) /\ (d # t => overlay.status = "ready")
        /\ task'[d].at \in {"clearLoad", "clearReplace"} /\ task'[d].key[1] # "pending" => overlay.pending = 0
        /\ task'[d].at \in {"clearLoad", "clearReplace"} /\ task'[d].key[1] = "pending" =>
                  overlay.status = "ready" /\ (Through(overlay.authority) \/ ~OnRecord)
    <3>1. CASE d = t
      BY <1>1, <1>3, <1>5, <3>1 DEF MayGo
    <3>2. CASE d # t
      <4>1. task'[d] = task[d] /\ d \in Threads
        BY <1>1, <1>2, <3>2
      <4>2. (task[d].at = "replace" /\ task[d].key[1] # "initialization"
                    /\ overlay.revision = task[d].copy.revision) => overlay.status = "ready"
        BY <4>1 DEF CopyInv, Kind
      <4>3. QED
        BY <1>3, <1>5, <4>1, <4>2 DEF BehindInv, Kind, RevisionMatches
    <3>3. QED
      BY <3>1, <3>2
  <2>2. CASE OnRecord' => OnRecord
    BY <2>1, <2>2
  <2>3. CASE OnRecord' /\ ~OnRecord
    <3>1. overlay.status # "ready"
      BY <2>3
    <3>2. d # t
      <4>1. t = "commit"
        BY <2>3
      <4>2. QED
        BY <1>2, <1>5, <4>1
    <3>3. QED
      BY <2>1, <3>1, <3>2
  <2>4. QED
    BY <2>2, <2>3
<1>6. QED
  BY <1>4, <1>5 DEF BehindInv, Kind, RevisionMatches, Through

\* A driver puts nothing on record.
LEMMA DriversRecordNothing ==
    ASSUME TypeInv, NEW t \in Drivers, NEW now \in Tasks, Goes(t, now), recorded' = recorded
    PROVE  OnRecord' = OnRecord
<1>1. t \in Threads /\ "commit" \in Threads /\ t # "commit"
  BY PlotAssumption DEF Threads
<1>2. task'["commit"] = task["commit"]
  BY <1>1, ThreadGoes DEF TypeInv, PlotTypeOK
<1>3. QED
  BY <1>2 DEF OnRecord, CommitDone

\* A step of the commit's handler puts on record what it answers or goes on with.
LEMMA CommitRecords ==
    ASSUME TypeInv, NEW now \in Tasks, Goes("commit", now)
    PROVE  OnRecord' <=> (recorded' \/ (now.at \in {"completion", "index"} /\ now.success))
<1>1. "commit" \in Threads
  BY PlotAssumption DEF Threads
<1>2. task'["commit"] = now
  BY <1>1, ThreadGoes DEF TypeInv, PlotTypeOK
<1>3. QED
  BY <1>2 DEF OnRecord, CommitDone

\* While handlers do not cross, the one that saves is alone.
LEMMA SavesAlone ==
    ASSUME TypeInv, NEW t \in Threads, NEW now \in Tasks, Goes(t, now),
           crossed' = (crossed \/ \E o \in Threads \ {t} : task[o].at # "idle"), ~crossed'
    PROVE  ~crossed /\ task'[t] = now /\ \A o \in Threads : o # t => task'[o].at = "idle"
BY ThreadGoes DEF TypeInv, PlotTypeOK

\* A snapshot saved by a handler that is alone.
LEMMA BehindSaved ==
    ASSUME TypeInv, NEW t \in Threads, NEW now \in Tasks, Goes(t, now), UNCHANGED host,
           crossed' = (crossed \/ \E o \in Threads \ {t} : task[o].at # "idle"),
           now.at \notin {"replace", "clearReplace"},
           ~crossed /\ t \in Drivers /\ now.at = "clearLoad" =>
               now.key[1] # "pending" /\ overlay'.pending = 0,
           (~crossed /\ OnRecord' /\ overlay'.status = "ready" /\ overlay'.authority # NoSource
              /\ overlay'.authority.commit < host.commit) => overlay'.pending # 0
    PROVE  BehindInv'
<1>1. SUFFICES ASSUME ~crossed' PROVE BehindInv'
  BY DEF BehindInv
<1>2. ~crossed /\ task'[t] = now /\ \A o \in Threads : o # t => task'[o].at = "idle"
  BY <1>1, SavesAlone
<1>3. \A d \in Drivers : d # t => task'[d].at = "idle"
  BY <1>2 DEF Threads
<1>4. \A d \in Drivers :
         /\ task'[d].at \notin {"replace", "clearReplace"}
         /\ task'[d].at = "clearLoad" => task'[d].key[1] # "pending" /\ overlay'.pending = 0
  BY <1>2, <1>3
<1>5. (OnRecord' /\ overlay'.status = "ready" /\ overlay'.authority # NoSource
              /\ overlay'.authority.commit < host'.commit) => overlay'.pending # 0
  BY <1>2
<1>6. QED
  BY <1>4, <1>5 DEF BehindInv, Kind

LEMMA BehindStep ==
    ASSUME CognitionInv, OwnRecords, BehindInv, NEW t \in Threads,
           Mutates(t) \/ (t \in Drivers /\ Drives(t))
    PROVE  BehindInv'
<1> USE DEF CognitionInv
<1>1. /\ "commit" \in Threads /\ "commit" \notin Drivers /\ Drivers \subseteq Threads
      /\ (t # "commit" => t \in Drivers) /\ task[t] \in Tasks
  BY PlotAssumption DEF Threads, TypeInv, PlotTypeOK
<1>2. Idle.at = "idle" /\ Idle \in Tasks
  BY IdleTyped
<1>3. Kind(t) = task[t].key[1]
  BY DEF Kind
<1>4. overlay \in Snapshots /\ host \in Hosts /\ host.commit \in Nat
  BY DEF TypeInv, PlotTypeOK, Hosts
<1>5. t = "commit" => Kind(t) = "pending" /\ task[t].at # "clearLoad" /\ task[t].at # "clearReplace"
  BY DEF ThreadInv, AtWork
<1>6. CASE t \in Drivers /\ Plan(t)
  <2>1. PICK now \in Tasks :
             /\ Goes(t, now)
             /\ \/ now.at \in {"preparing", "inferring", "begin"}
                \/ /\ now.at = "clearLoad" /\ now.key = <<"pending", 0>>
                   /\ overlay.status = "ready" /\ AuthorityStatus = "fresh"
    BY <1>6, PlanDoes
  <2>2. UNCHANGED <<host, overlay, crossed, recorded>>
    BY <1>6 DEF Plan, threadFrame
  <2>3. AuthorityStatus = "fresh" => Through(overlay.authority)
    <3>1. overlay.authority = NoSource => AuthorityStatus = "freshness_unprovable"
      BY DEF AuthorityStatus
    <3>2. overlay.authority # NoSource /\ overlay.authority.commit # host.commit =>
              AuthorityStatus = "semantic_assimilation_pending"
      BY DEF AuthorityStatus
    <3>3. QED
      BY <3>1, <3>2 DEF Through
  <2>4. MayGo(t, now)
    BY <2>1, <2>3 DEF MayGo
  <2>5. OnRecord' => OnRecord
    BY <1>6, <2>1, <2>2, DriversRecordNothing
  <2>6. QED
    BY <2>1, <2>2, <2>4, <2>5, BehindKept
<1>7. CASE t \in Drivers /\ (Prepare(t) \/ Infer(t))
  <2>1. PICK now \in Tasks : Goes(t, now) /\ now.at \in {"idle", "inferring", "begin"}
    BY <1>2, <1>7, DriverDoes
  <2>2. UNCHANGED <<host, overlay, crossed, recorded>>
    BY <1>7 DEF Prepare, Infer, threadFrame
  <2>3. MayGo(t, now)
    BY <2>1 DEF MayGo
  <2>4. OnRecord' => OnRecord
    BY <1>7, <2>1, <2>2, DriversRecordNothing
  <2>5. QED
    BY <2>1, <2>2, <2>3, <2>4, BehindKept
<1>8. CASE Begin(t)
  <2>1. PICK now \in Tasks :
             /\ Goes(t, now) /\ now.at \in {"idle", "load", "intent"}
             /\ \/ recorded' = recorded
                \/ recorded' = (IF t = "commit" THEN FALSE ELSE recorded)
                \/ /\ recorded' = (IF t = "commit" THEN TRUE ELSE recorded)
                   /\ Found(chronicle.index, task[t].key, "completion") # {}
    BY <1>2, <1>8, BeginDoes
  <2>2. UNCHANGED <<host, overlay, crossed>> /\ task[t].at = "begin"
    BY <1>8 DEF Begin, threadFrame
  <2>3. MayGo(t, now)
    BY <2>1 DEF MayGo
  <2>4. OnRecord' => OnRecord
    <3>1. CASE t = "commit"
      <4>1. Found(chronicle.index, task[t].key, "completion") = {}
        <5>1. task[t].key[1] = "pending" /\ task[t].key[2] = host.commit
          BY <1>3, <2>2, <3>1 DEF ThreadInv
        <5>2. \A e \in chronicle.index : e.key # task[t].key
          BY <2>2, <3>1, <5>1 DEF OwnRecords, OwnRecord
        <5>3. QED
          BY <5>2 DEF Found
      <4>2. recorded' => recorded
        BY <2>1, <4>1
      <4>3. OnRecord' <=> (recorded' \/ (now.at \in {"completion", "index"} /\ now.success))
        BY <2>1, <3>1, CommitRecords
      <4>4. QED
        BY <2>1, <4>2, <4>3 DEF OnRecord
    <3>2. CASE t # "commit"
      BY <1>1, <2>1, <3>2, DriversRecordNothing
    <3>3. QED
      BY <3>1, <3>2
  <2>5. QED
    BY <2>1, <2>2, <2>3, <2>4, BehindKept
<1>9. CASE IndexIntent(t)
  <2>1. PICK now \in Tasks : Goes(t, now) /\ now.at = "load" /\ recorded' = recorded
    BY <1>9, IndexIntentDoes
  <2>2. UNCHANGED <<host, overlay, crossed>>
    BY <1>9 DEF IndexIntent, threadFrame
  <2>3. MayGo(t, now)
    BY <2>1 DEF MayGo
  <2>4. OnRecord' => OnRecord
    <3>1. CASE t = "commit"
      <4>1. OnRecord' <=> (recorded' \/ (now.at \in {"completion", "index"} /\ now.success))
        BY <2>1, <3>1, CommitRecords
      <4>2. QED
        BY <2>1, <4>1 DEF OnRecord
    <3>2. CASE t # "commit"
      BY <1>1, <2>1, <3>2, DriversRecordNothing
    <3>3. QED
      BY <3>1, <3>2
  <2>5. QED
    BY <2>1, <2>2, <2>3, <2>4, BehindKept
<1>10. CASE Load(t)
  <2>1. PICK now \in Tasks :
             /\ Goes(t, now)
             /\ \/ now = Idle /\ NotRecorded(t)
                \/ /\ now.at = "completion"
                   /\ now.success => Kind(t) = "pending" /\ overlay.status # "ready"
                   /\ recorded' = recorded
                \/ /\ now.at = "replace" /\ now.key = task[t].key
                   /\ LoadedFor(t, now.source) /\ recorded' = recorded
    BY <1>10, LoadDoes
  <2>2. UNCHANGED <<host, overlay, crossed>> /\ task[t].at = "load"
    BY <1>10 DEF Load, threadFrame
  <2>3. t \in Drivers => MayGo(t, now)
    <3>1. t \in Drivers => Kind(t) # "pending"
      BY <2>2 DEF ThreadInv, AtWork
    <3>2. QED
      BY <1>2, <1>3, <2>1, <3>1 DEF MayGo, LoadedFor, Through
  <2>4. OnRecord' => OnRecord \/ (overlay.status # "ready" /\ t = "commit")
    <3>1. CASE t = "commit"
      <4>1. OnRecord' <=> (recorded' \/ (now.at \in {"completion", "index"} /\ now.success))
        BY <2>1, <3>1, CommitRecords
      <4>3. NotRecorded(t) => ~recorded'
        BY <3>1 DEF NotRecorded
      <4>2. QED
        BY <1>2, <2>1, <3>1, <4>1, <4>3 DEF OnRecord
    <3>2. CASE t # "commit"
      BY <1>1, <2>1, <3>2, DriversRecordNothing DEF NotRecorded
    <3>3. QED
      BY <3>1, <3>2
  <2>5. QED
    BY <2>1, <2>2, <2>3, <2>4, BehindKept
<1>11. CASE Replace(t)
  <2>1. PICK now \in Tasks :
             /\ Goes(t, now)
             /\ \/ /\ RevisionMatches(t) /\ Mutated(t) /\ task[t].copy = overlay /\ recorded' = recorded
                   /\ crossed' = (crossed \/ \E o \in Threads \ {t} : task[o].at # "idle")
                   /\ now.at = (IF Kind(t) \in {"pending", "initialization"} THEN "completion" ELSE "clearLoad")
                   /\ now.key = task[t].key
                \/ UNCHANGED <<overlay, crossed>> /\ now = Idle /\ NotRecorded(t)
                \/ /\ UNCHANGED <<overlay, crossed>> /\ recorded' = recorded
                   /\ now.at = "completion" /\ now.success = FALSE
    BY <1>11, ReplaceDoes
  <2>2. UNCHANGED host /\ task[t].at = "replace"
    BY <1>11 DEF Replace, threadFrame
  <2>3. CASE UNCHANGED <<overlay, crossed>> /\ ((now = Idle /\ NotRecorded(t))
                \/ (recorded' = recorded /\ now.at = "completion" /\ now.success = FALSE))
    <3>1. MayGo(t, now)
      BY <1>2, <2>3 DEF MayGo
    <3>2. OnRecord' => OnRecord
      <4>1. CASE t = "commit"
        <5>1. OnRecord' <=> (recorded' \/ (now.at \in {"completion", "index"} /\ now.success))
          BY <2>1, <4>1, CommitRecords
        <5>3. NotRecorded(t) => ~recorded'
          BY <4>1 DEF NotRecorded
        <5>2. QED
          BY <1>2, <2>3, <4>1, <5>1, <5>3 DEF OnRecord
      <4>2. CASE t # "commit"
        BY <1>1, <2>1, <2>3, <4>2, DriversRecordNothing DEF NotRecorded
      <4>3. QED
        BY <4>1, <4>2
    <3>3. QED
      BY <2>1, <2>2, <2>3, <3>1, <3>2, BehindKept
  <2>4. CASE /\ RevisionMatches(t) /\ Mutated(t) /\ task[t].copy = overlay /\ recorded' = recorded
             /\ crossed' = (crossed \/ \E o \in Threads \ {t} : task[o].at # "idle")
             /\ now.at = (IF Kind(t) \in {"pending", "initialization"} THEN "completion" ELSE "clearLoad")
             /\ now.key = task[t].key
    <3>1. now.at \notin {"replace", "clearReplace"}
      BY <2>4
    <3>2. now.at = "clearLoad" => now.key[1] # "pending" /\ overlay'.pending = 0
      BY <1>3, <2>4 DEF Mutated
    <3>3. (~crossed /\ OnRecord' /\ overlay'.status = "ready" /\ overlay'.authority # NoSource
              /\ overlay'.authority.commit < host.commit) => overlay'.pending # 0
      <4>1. CASE t = "commit"
        <5>1. overlay'.pending = task[t].key[2] /\ task[t].key[2] = host.commit /\ host.commit # 0
          BY <1>5, <2>2, <2>4, <4>1 DEF Mutated, ThreadInv
        <5>2. QED
          BY <5>1
      <4>2. CASE t \in Drivers
        <5>1. Kind(t) # "pending"
          BY <2>2, <4>2 DEF ThreadInv, AtWork
        <5>2. OnRecord' = OnRecord
          BY <2>1, <2>4, <4>2, DriversRecordNothing
        <5>3. CASE Kind(t) = "initialization"
          BY <2>4, <5>3 DEF Mutated
        <5>4. CASE Kind(t) # "initialization"
          <6>1. overlay'.authority = task[t].source
            BY <2>4, <5>1, <5>4 DEF Mutated
          <6>2. ~crossed => Through(task[t].source) \/ ~OnRecord
            BY <2>2, <2>4, <4>2, <5>4 DEF BehindInv
          <6>3. QED
            BY <1>4, <5>2, <6>1, <6>2 DEF Through
        <5>5. QED
          BY <5>3, <5>4
      <4>3. QED
        BY <1>1, <4>1, <4>2
    <3>4. QED
      BY <2>1, <2>2, <2>4, <3>1, <3>2, <3>3, BehindSaved
  <2>5. QED
    BY <2>1, <2>3, <2>4
<1>12. CASE ClearLoad(t)
  <2>1. PICK now \in Tasks :
             /\ Goes(t, now) /\ now.at = "clearReplace" /\ now.key = task[t].key
             /\ UNCHANGED <<overlay, recorded>>
    BY <1>12, ClearLoadDoes
  <2>2. UNCHANGED <<host, crossed>> /\ task[t].at = "clearLoad" /\ t \in Drivers
    BY <1>1, <1>5, <1>12 DEF ClearLoad, threadFrame
  <2>3. ~crossed => MayGo(t, now)
    BY <1>3, <2>1, <2>2 DEF MayGo, BehindInv
  <2>4. OnRecord' => OnRecord
    BY <2>1, <2>2, DriversRecordNothing
  <2>5. QED
    BY <2>1, <2>2, <2>3, <2>4, BehindKept
<1>13. CASE ClearReplace(t)
  <2>1. PICK now \in Tasks :
             /\ Goes(t, now) /\ (now = Idle \/ now.at = "completion")
             /\ \/ /\ Cleared(t)
                   /\ crossed' = (crossed \/ \E o \in Threads \ {t} : task[o].at # "idle")
                \/ UNCHANGED <<overlay, crossed>>
    BY <1>13, ClearReplaceDoes
  <2>2. UNCHANGED <<host, recorded>> /\ task[t].at = "clearReplace" /\ t \in Drivers
    BY <1>1, <1>5, <1>13 DEF ClearReplace, threadFrame
  <2>3. OnRecord' = OnRecord
    BY <2>1, <2>2, DriversRecordNothing
  <2>4. CASE UNCHANGED <<overlay, crossed>>
    <3>1. MayGo(t, now)
      BY <1>2, <2>1 DEF MayGo
    <3>2. QED
      BY <2>1, <2>2, <2>3, <2>4, <3>1, BehindKept
  <2>5. CASE Cleared(t) /\ crossed' = (crossed \/ \E o \in Threads \ {t} : task[o].at # "idle")
    <3>1. now.at \notin {"replace", "clearReplace", "clearLoad"}
      BY <1>2, <2>1
    <3>2. ~(~crossed /\ OnRecord' /\ overlay'.status = "ready" /\ overlay'.authority # NoSource
              /\ overlay'.authority.commit < host.commit)
      <4>1. overlay'.status = overlay.status /\ overlay'.authority = overlay.authority
        BY <2>5 DEF Cleared
      <4>2. CASE Kind(t) = "pending"
        BY <1>4, <2>2, <2>3, <4>1, <4>2 DEF BehindInv, Through
      <4>3. CASE Kind(t) # "pending"
        BY <2>2, <2>3, <4>1, <4>3 DEF BehindInv
      <4>4. QED
        BY <4>2, <4>3
    <3>3. QED
      BY <2>1, <2>2, <2>5, <3>1, <3>2, BehindSaved
  <2>6. QED
    BY <2>1, <2>4, <2>5
<1>14. CASE WriteCompletion(t)
  <2>1. PICK now \in Tasks :
             /\ Goes(t, now)
             /\ \/ now = Idle /\ NotRecorded(t)
                \/ now.at = "index" /\ now.success = task[t].success /\ recorded' = recorded
    BY <1>14, WriteCompletionDoes
  <2>2. UNCHANGED <<host, overlay, crossed>> /\ task[t].at = "completion"
    BY <1>14 DEF WriteCompletion, threadFrame
  <2>3. MayGo(t, now)
    BY <1>2, <2>1 DEF MayGo
  <2>4. OnRecord' => OnRecord
    <3>1. CASE t = "commit"
      <4>1. OnRecord' <=> (recorded' \/ (now.at \in {"completion", "index"} /\ now.success))
        BY <2>1, <3>1, CommitRecords
      <4>3. NotRecorded(t) => ~recorded'
        BY <3>1 DEF NotRecorded
      <4>2. QED
        BY <1>2, <2>1, <2>2, <3>1, <4>1, <4>3 DEF OnRecord, CommitDone
    <3>2. CASE t # "commit"
      BY <1>1, <2>1, <3>2, DriversRecordNothing DEF NotRecorded
    <3>3. QED
      BY <3>1, <3>2
  <2>5. QED
    BY <2>1, <2>2, <2>3, <2>4, BehindKept
<1>15. CASE IndexCompletion(t)
  <2>1. Goes(t, Idle) /\ recorded' = (IF t = "commit" THEN task[t].success ELSE recorded)
    BY <1>15 DEF IndexCompletion, Answers
  <2>2. UNCHANGED <<host, overlay, crossed>> /\ task[t].at = "index"
    BY <1>15 DEF IndexCompletion, threadFrame
  <2>3. MayGo(t, Idle)
    BY <1>2 DEF MayGo
  <2>4. OnRecord' => OnRecord
    <3>1. CASE t = "commit"
      <4>1. OnRecord' <=> (recorded' \/ (Idle.at \in {"completion", "index"} /\ Idle.success))
        BY <1>2, <2>1, <3>1, CommitRecords
      <4>2. QED
        BY <1>2, <2>1, <2>2, <3>1, <4>1 DEF OnRecord, CommitDone
    <3>2. CASE t # "commit"
      BY <1>1, <1>2, <2>1, <3>2, DriversRecordNothing
    <3>3. QED
      BY <3>1, <3>2
  <2>5. QED
    BY <1>2, <2>1, <2>2, <2>3, <2>4, BehindKept
<1>16. QED
  BY <1>6, <1>7, <1>8, <1>9, <1>10, <1>11, <1>12, <1>13, <1>14, <1>15 DEF Mutates, Drives

\* Every step keeps what is behind withheld.
LEMMA PlotStep == ASSUME PlotInv, PlotNext PROVE PlotInv'
<1> USE DEF PlotInv, CognitionInv
<1>1. CognitionInv'
  BY CognitionStep
<1>2. /\ "commit" \in Threads /\ "commit" \notin Drivers /\ Drivers \subseteq Threads
      /\ host.commit \in Nat
  BY PlotAssumption DEF Threads, TypeInv, PlotTypeOK, Hosts
<1>3. Idle.at = "idle" /\ Idle.index = {}
  BY IdleTyped
<1>4. CASE Commit
  <2>1. PICK now \in Tasks :
            /\ Goes("commit", now) /\ now.at = "begin" /\ now.index = {}
            /\ host'.commit = host.commit + 1
    BY <1>4, CommitDoes
  <2>2. /\ task' \in [Threads -> Tasks] /\ task'["commit"] = now
        /\ \A o \in Threads : o # "commit" => task'[o] = task[o]
    BY <1>2, <2>1, ThreadGoes DEF TypeInv, PlotTypeOK
  <2>3. UNCHANGED <<overlay, chronicle, crossed>> /\ ~recorded'
    BY <1>4 DEF Commit, hostOnly
  <2>4. ~OnRecord'
    BY <2>1, <2>2, <2>3 DEF OnRecord, CommitDone
  <2>5. OwnRecords'
    <3>1. \A e \in chronicle.index :
             e.key[1] = "pending" => e.key[2] <= host'.commit /\ e.key[2] # host'.commit
      <4>1. \A e \in chronicle.index : e.key[2] \in Nat
        BY DEF TypeInv, PlotTypeOK, Entries, Keys
      <4>2. QED
        BY <1>2, <2>1, <4>1 DEF OwnRecords, OwnRecord
    <3>2. \A o \in Threads : \A e \in task[o].index :
             e.key[1] = "pending" => e.key[2] <= host'.commit /\ e.key[2] # host'.commit
      <4>1. \A o \in Threads : \A e \in task[o].index : e.key[2] \in Nat
        BY DEF TypeInv, PlotTypeOK, Tasks, Entries, Keys
      <4>2. QED
        BY <1>2, <2>1, <4>1 DEF OwnRecords, OwnRecord
    <3>3. QED
      BY <2>1, <2>2, <2>3, <3>1, <3>2 DEF OwnRecords, OwnRecord
  <2>6. BehindInv'
    <3>1. \A d \in Drivers : task'[d] = task[d]
      BY <1>2, <2>2
    <3>2. QED
      BY <2>3, <2>4, <3>1 DEF BehindInv, Kind, RevisionMatches
  <2>7. QED
    BY <1>1, <2>5, <2>6
<1>5. CASE Present \/ ChangeIssue
  <2>1. host'.commit = host.commit /\ UNCHANGED <<overlay, chronicle, task, recorded, crossed>>
    BY <1>5, ChangeDoes
  <2>2. OwnRecords'
    BY <2>1 DEF OwnRecords, OwnRecord
  <2>3. BehindInv'
    BY <2>1 DEF BehindInv, OnRecord, CommitDone, Through, Kind, RevisionMatches
  <2>4. QED
    BY <1>1, <2>2, <2>3
<1>6. CASE Crash
  <2>1. /\ host'.commit = host.commit
        /\ \A t \in Threads : task'[t] = Idle
                              \/ (task[t].at \in OfTheRuntime /\ task'[t] = task[t])
        /\ UNCHANGED <<overlay, chronicle, recorded, crossed>>
    BY <1>6, CrashDoes
  <2>2. \A t \in Threads : task'[t].at \in OfTheRuntime
    BY <1>3, <2>1 DEF OfTheRuntime
  <2>3. OwnRecords'
    BY <1>2, <1>3, <2>1 DEF OwnRecords, OwnRecord
  <2>4. OnRecord' => OnRecord
    BY <1>2, <2>1, <2>2 DEF OnRecord, CommitDone, OfTheRuntime
  <2>5. BehindInv'
    BY <1>2, <2>1, <2>2, <2>4 DEF BehindInv, OfTheRuntime
  <2>6. QED
    BY <1>1, <2>3, <2>5
<1>7. CASE \E t \in Threads : Mutates(t) \/ (t \in Drivers /\ Drives(t))
  BY <1>1, <1>7, RecordsKept, BehindStep
<1>8. QED
  BY <1>2, <1>4, <1>5, <1>6, <1>7 DEF PlotNext

-----------------------------------------------------------------------------
(* The theorems *)

LEMMA PlotStarts == ASSUME PlotInit PROVE PlotInv
<1>1. Idle \in Tasks /\ Idle.at = "idle" /\ Idle.index = {} /\ Idle.key = <<"pending", 0>>
  BY IdleTyped
<1>2. /\ task = [t \in Threads |-> Idle] /\ chronicle = [records |-> {}, index |-> {}]
      /\ landed = {} /\ recorded = TRUE /\ crossed = FALSE /\ changes = 0 /\ faults = 0
  BY DEF PlotInit
<1>3. host \in Hosts /\ host.commit = 1 /\ host.issues = 0 /\ host.version = 1
  BY PlotAssumption DEF PlotInit, Hosts
<1>4. GatheredSources([revision |-> 3]) \in Sources /\ GatheredSources([revision |-> 3]).commit = 1
  <2>1. Fingerprint \in Nat
    <3>1. Overlays("absent") \in Snapshots
      BY PlotAssumption DEF Overlays, NoSnapshot, Snapshots, NoSource, Sources
    <3>2. QED
      BY <1>3, <3>1, GatheredTyped
  <2>2. QED
    BY <1>3, <2>1 DEF GatheredSources, Sources
<1>5. /\ overlay \in Snapshots /\ overlay.content = {}
      /\ overlay.status = "absent" => overlay.authority = NoSource
      /\ overlay.authority # NoSource /\ overlay.authority.commit < 1 => overlay.pending # 0
  <2>1. PICK start \in Starts : overlay = Overlays(start)
    BY DEF PlotInit
  <2>2. NoSnapshot \in Snapshots /\ NoSource \in Sources /\ {0, 1} \subseteq 0 .. MaxCommits
    BY PlotAssumption DEF NoSnapshot, Snapshots, NoSource, Sources
  <2>3. CASE start = "absent"
    BY <2>1, <2>2, <2>3 DEF Overlays, NoSnapshot, Snapshots
  <2>4. CASE start = "blocked"
    BY <2>1, <2>2, <2>4 DEF Overlays, NoSnapshot, Snapshots
  <2>5. CASE start = "unproven"
    BY <2>1, <2>2, <2>5 DEF Overlays, NoSnapshot, Snapshots
  <2>6. CASE start = "behind"
    <3> DEFINE source == [commit |-> 0, version |-> 0, fingerprint |-> 0, revision |-> 0]
    <3>1. overlay = [NoSnapshot EXCEPT !.status = "ready", !.revision = 2, !.pending = 1,
                                       !.authority = source]
      BY <2>1, <2>6 DEF Overlays
    <3>2. source \in Sources /\ source.commit = 0
      BY DEF Sources
    <3> HIDE DEF source
    <3>3. overlay \in Snapshots
      BY <2>2, <3>1, <3>2 DEF Snapshots
    <3>4. /\ overlay.content = {} /\ overlay.status = "ready" /\ overlay.pending = 1
          /\ overlay.authority = source
      BY <3>1 DEF NoSnapshot
    <3>5. QED
      BY <3>2, <3>3, <3>4
  <2>7. CASE start = "assimilated"
    <3> DEFINE source == GatheredSources([revision |-> 3])
    <3>1. overlay = [NoSnapshot EXCEPT !.status = "ready", !.revision = 4, !.authority = source]
      BY <2>1, <2>7 DEF Overlays
    <3>2. source \in Sources /\ source.commit = 1
      BY <1>4
    <3> HIDE DEF source
    <3>3. overlay \in Snapshots
      BY <2>2, <3>1, <3>2 DEF Snapshots
    <3>4. overlay.content = {} /\ overlay.status = "ready" /\ overlay.authority = source
      BY <3>1 DEF NoSnapshot
    <3>5. QED
      BY <3>2, <3>3, <3>4
  <2>8. QED
    BY <2>3, <2>4, <2>5, <2>6, <2>7, PlotAssumption
<1>6. TypeInv
  <2>1. PlotTypeOK
    <3>1. task \in [Threads -> Tasks]
      BY <1>1, <1>2
    <3>2. changes \in 0 .. MaxChanges /\ faults \in 0 .. MaxFaults
      BY <1>2, PlotAssumption
    <3>3. /\ chronicle.records \subseteq Entries /\ chronicle.index \subseteq Entries
          /\ chronicle = [records |-> chronicle.records, index |-> chronicle.index]
          /\ landed \subseteq Keys /\ {recorded, crossed} \subseteq BOOLEAN
      BY <1>2
    <3>4. QED
      BY <1>2, <1>3, <1>5, <3>1, <3>2, <3>3 DEF PlotTypeOK
  <2>2. KeysBounded
    <3>1. \A t \in Threads : task[t].key[2] <= 0
      BY <1>1, <1>2
    <3>2. \A e \in chronicle.records : e.key[2] <= 0
      BY <1>2
    <3>3. QED
      BY <3>1, <3>2 DEF KeysBounded
  <2>3. PriorsBounded
    BY <1>1, <1>2 DEF PriorsBounded
  <2>4. QED
    BY <1>2, <1>3, <2>1, <2>2, <2>3 DEF TypeInv
<1>7. ThreadInv
  BY <1>1, <1>2, <1>3 DEF ThreadInv, Kind, AtWork, Threads
<1>8. CopyInv /\ NoCognitionLost
  BY <1>1, <1>2, <1>5 DEF CopyInv, NoCognitionLost
<1>9. OwnRecords
  BY <1>1, <1>2 DEF OwnRecords
<1>10. BehindInv
  BY <1>1, <1>2, <1>3, <1>5 DEF BehindInv, Threads
<1>11. QED
  BY <1>6, <1>7, <1>8, <1>9, <1>10 DEF PlotInv, CognitionInv

\* The inductive invariant of the overlay, its chronicle and its handlers.
THEOREM PlotInvariant == PlotSpec => []PlotInv
<1>1. ASSUME PlotInv, [PlotNext]_vars PROVE PlotInv'
  <2>1. CASE PlotNext
    BY <1>1, <2>1, PlotStep
  <2>2. CASE UNCHANGED vars
    BY <1>1, <2>2 DEF vars, PlotInv, CognitionInv, TypeInv, PlotTypeOK, KeysBounded, PriorsBounded,
      ThreadInv, CopyInv, NoCognitionLost, OwnRecords, OwnRecord, BehindInv, OnRecord, CommitDone,
      Through, Kind, RevisionMatches
  <2>3. QED
    BY <1>1, <2>1, <2>2
<1>2. QED
  BY <1>1, PlotStarts, PTL DEF PlotSpec

\* The state of the overlay and of its handlers has the form the code gives it.
THEOREM PlotTypes == PlotSpec => []PlotTypeOK
BY PlotInvariant, PTL DEF PlotInv, CognitionInv, TypeInv

\* No handler overwrites what another added to the snapshot (replace_snapshot,
\* commit_update): NoCognitionLost, for any number of threads.
THEOREM CognitionIsKept == PlotSpec => []NoCognitionLost
BY PlotInvariant, PTL DEF PlotInv, CognitionInv

\* An overlay behind the last recorded commit is withheld, as long as handlers
\* do not cross (apply_post_commit_pending_work): BehindIsWithheld.
THEOREM BehindWithheld == PlotSpec => []BehindIsWithheld
<1>1. PlotInv => BehindIsWithheld
  BY DEF PlotInv, BehindInv, BehindIsWithheld, OnRecord
<1>2. QED
  BY <1>1, PlotInvariant, PTL

\* An update takes over what its model was shown and adds to what is there
\* (commit_update's re-check): AssimilatesWhatWasShown, of every step.
THEOREM ShownIsAssimilated == PlotSpec => AssimilatesWhatWasShown
<1> DEFINE A(d) == (task[d].at = "replace" /\ Kind(d) = "update" /\ overlay' # overlay
                      /\ task'[d].at = "clearLoad")
                    => /\ overlay'.authority.fingerprint = task[d].prompted.fingerprint
                       /\ overlay'.content = overlay.content \cup {task[d].key}
           Act == \A d \in Drivers : A(d)
<1>1. ASSUME PlotInv, PlotNext PROVE Act
  <2>1. SUFFICES ASSUME NEW d \in Drivers, task[d].at = "replace", Kind(d) = "update",
                        overlay' # overlay, task'[d].at = "clearLoad"
                 PROVE  /\ overlay'.authority.fingerprint = task[d].prompted.fingerprint
                        /\ overlay'.content = overlay.content \cup {task[d].key}
    OBVIOUS
  <2>2. TypeInv /\ ThreadInv /\ CopyInv /\ d \in Threads
    BY <1>1 DEF PlotInv, CognitionInv, Threads
  <2>3. PICK t \in Threads : Replace(t) \/ ClearReplace(t)
    BY <1>1, <2>1 DEF PlotNext, Commit, Present, ChangeIssue, Crash, hostOnly, Drives, Plan, Prepare, Infer,
      Mutates, Begin, IndexIntent, Load, ClearLoad, WriteCompletion, IndexCompletion, Threads
  <2>4. t = d
    <3>1. PICK now \in Tasks : Goes(t, now)
      BY <2>2, <2>3, ReplaceDoes, ClearReplaceDoes
    <3>2. t # d => task'[d] = task[d]
      BY <2>2, <3>1, ThreadGoes DEF TypeInv, PlotTypeOK
    <3>3. QED
      BY <2>1, <3>2
  <2>5. Replace(d)
    BY <2>1, <2>3, <2>4 DEF ClearReplace
  <2>6. Mutated(d)
    BY <2>1, <2>2, <2>5, ReplaceDoes
  <2>7. task[d].source.fingerprint = task[d].prompted.fingerprint
    BY <2>1, <2>2 DEF CopyInv
  <2>8. QED
    BY <2>1, <2>6, <2>7 DEF Mutated
<1>2. ASSUME PlotInv, [PlotNext]_vars PROVE [Act]_vars
  BY <1>1, <1>2
<1>3. PlotSpec => [][Act]_vars
  <2> HIDE DEF Act
  <2>1. QED
    BY <1>2, PlotInvariant, PTL DEF PlotSpec
<1>4. QED
  BY <1>3 DEF AssimilatesWhatWasShown

-----------------------------------------------------------------------------
(* Continuity: what a committed turn does to the issues and the events,    *)
(* one by one, for any cast, moves and bounds.                             *)

IsList(q) == q \in Seq({q[n] : n \in DOMAIN q})

\* The book is a list of issues, and every event says who knows it.
ContinuityInv ==
    /\ DOMAIN book = {"issues", "listed"}
    /\ IsList(book.issues)
    /\ IsList(events)
    /\ \A i \in DOMAIN events : DOMAIN events[i] = {"by", "subject", "knownBy"}

LEMMA ListOf ==
    ASSUME NEW R, NEW q \in Seq(R)
    PROVE  IsList(q)
BY DEF IsList

LEMMA ListGrows ==
    ASSUME NEW q, IsList(q), NEW e
    PROVE  /\ IsList(Append(q, e))
           /\ DOMAIN Append(q, e) = DOMAIN q \cup {Len(q) + 1}
           /\ Append(q, e)[Len(q) + 1] = e
           /\ \A n \in DOMAIN q : n # Len(q) + 1 /\ Append(q, e)[n] = q[n]
<1> DEFINE R == {q[n] : n \in DOMAIN q} \cup {e}
<1>1. q \in Seq({q[n] : n \in DOMAIN q})
  BY DEF IsList
<1>2. q \in Seq(R) /\ e \in R
  BY <1>1
<1>3. Append(q, e) \in Seq(R)
  BY <1>2
<1>4. IsList(Append(q, e))
  BY <1>3, ListOf
<1> HIDE DEF R
<1>5. Len(q) \in Nat /\ DOMAIN q = 1..Len(q) /\ Len(Append(q, e)) = Len(q) + 1
      /\ DOMAIN Append(q, e) = 1..Len(q) + 1 /\ Append(q, e)[Len(q) + 1] = e
      /\ \A n \in 1..Len(q) : Append(q, e)[n] = q[n]
  BY <1>2, <1>3
<1>6. 1..Len(q) + 1 = 1..Len(q) \cup {Len(q) + 1}
  BY <1>5
<1>7. QED
  BY <1>4, <1>5, <1>6

LEMMA ListMapped ==
    ASSUME NEW q, IsList(q), NEW p, p = [i \in DOMAIN q |-> p[i]]
    PROVE  IsList(p) /\ DOMAIN p = DOMAIN q
<1>1. Len(q) \in Nat /\ DOMAIN q = 1..Len(q)
  BY DEF IsList
<1>2. p \in Seq({p[n] : n \in DOMAIN p})
  BY <1>1
<1>3. QED
  BY <1>2 DEF IsList

\* Opening a pressure touches no resolved issue and removes none.
LEMMA OpenedKeeps ==
    ASSUME NEW b, DOMAIN b = {"issues", "listed"}, IsList(b.issues), NEW profile, NEW now,
           NEW c, c = Book!Opened(b, profile, now)
    PROVE  /\ DOMAIN c = {"issues", "listed"}
           /\ IsList(c.issues)
           /\ \A i \in DOMAIN b.issues :
                 /\ i \in DOMAIN c.issues
                 /\ b.issues[i].status = "resolved" => c.issues[i] = b.issues[i]
<1> DEFINE match == Book!Matching(b, profile)
           m == CHOOSE i \in match : TRUE
           fresh == [status |-> Book!Pressed(profile.shifts), kind |-> profile.kind,
                     people |-> profile.people, stock |-> profile.stock, last |-> now]
           touched == [b EXCEPT !.issues[m].status = Book!Pressed(profile.shifts),
                                !.issues[m].last = now]
           created == [issues |-> Append(b.issues, fresh),
                       listed |-> Append(b.listed, Len(b.issues) + 1)]
<1>1. CASE c = b
  BY <1>1
<1>2. CASE c = created
  BY <1>2, ListGrows
<1>3. CASE c = touched /\ match # {}
  <2>1. m \in DOMAIN b.issues /\ b.issues[m].status # "resolved"
    <3>1. m \in match
      BY <1>3
    <3>2. match \subseteq {i \in DOMAIN b.issues : b.issues[i].status # "resolved"}
      BY DEF Book!Matching
    <3>3. QED
      BY <3>1, <3>2
  <2> HIDE DEF m, match
  <2>2. /\ DOMAIN c = {"issues", "listed"}
        /\ c.issues = [i \in DOMAIN b.issues |-> c.issues[i]]
        /\ \A i \in DOMAIN b.issues : i # m => c.issues[i] = b.issues[i]
    BY <1>3
  <2>3. IsList(c.issues) /\ DOMAIN c.issues = DOMAIN b.issues
    BY <2>2, ListMapped
  <2>4. QED
    BY <2>1, <2>2, <2>3
<1>4. c = b \/ c = created \/ (c = touched /\ match # {})
  BY DEF Book!Opened
<1>5. QED
  BY <1>1, <1>2, <1>3, <1>4

\* Nor does bringing the listed ones forward.
LEMMA AdvancedKeeps ==
    ASSUME NEW b, IsList(b.issues), NEW profile, NEW now,
           NEW c, c = Book!Advanced(b, profile, now)
    PROVE  /\ DOMAIN c = {"issues", "listed"}
           /\ IsList(c.issues)
           /\ \A i \in DOMAIN b.issues :
                 /\ i \in DOMAIN c.issues
                 /\ b.issues[i].status = "resolved" => c.issues[i] = b.issues[i]
<1>1. /\ DOMAIN c = {"issues", "listed"}
      /\ c.issues = [i \in DOMAIN b.issues |-> c.issues[i]]
      /\ \A i \in DOMAIN b.issues : b.issues[i].status = "resolved" => c.issues[i] = b.issues[i]
  BY DEF Book!Advanced
<1>2. QED
  BY <1>1, ListMapped

LEMMA PressuresKeep ==
    ASSUME NEW b, DOMAIN b = {"issues", "listed"}, IsList(b.issues), NEW profile, NEW now,
           NEW d, d = Book!Pressures(b, profile, now)
    PROVE  /\ DOMAIN d = {"issues", "listed"}
           /\ IsList(d.issues)
           /\ \A i \in DOMAIN b.issues :
                 /\ i \in DOMAIN d.issues
                 /\ b.issues[i].status = "resolved" => d.issues[i] = b.issues[i]
<1> DEFINE c == Book!Opened(b, profile, now)
<1>1. /\ IsList(c.issues)
      /\ \A i \in DOMAIN b.issues :
            /\ i \in DOMAIN c.issues
            /\ b.issues[i].status = "resolved" => c.issues[i] = b.issues[i]
  BY OpenedKeeps
<1>2. d = Book!Advanced(c, profile, now)
  BY DEF Book!Pressures
<1> HIDE DEF c
<1>3. /\ DOMAIN d = {"issues", "listed"}
      /\ IsList(d.issues)
      /\ \A i \in DOMAIN c.issues :
            /\ i \in DOMAIN d.issues
            /\ c.issues[i].status = "resolved" => d.issues[i] = c.issues[i]
  BY <1>1, <1>2, AdvancedKeeps
<1>4. QED
  BY <1>1, <1>3

\* What a turn's speech passes on, event by event.
LEMMA PropagatedTells ==
    ASSUME NEW old, IsList(old), NEW heard, NEW speaker, NEW subject, NEW named, NEW others,
           \A i \in DOMAIN old : DOMAIN old[i] = {"by", "subject", "knownBy"},
           NEW new, new = Flow!Propagated(old, heard, speaker, subject, named, others)
    PROVE  /\ IsList(new) /\ DOMAIN new = DOMAIN old
           /\ \A i \in DOMAIN old :
                 /\ DOMAIN new[i] = {"by", "subject", "knownBy"}
                 /\ \A c \in new[i].knownBy \ old[i].knownBy :
                       /\ speaker \in old[i].knownBy
                       /\ c \in others
                       /\ \E b \in heard : Flow!BeatPerceived(b, speaker, c)
<1> DEFINE listeners == IF named \cap others # {} THEN named \cap others ELSE others
           told == {c \in listeners : Flow!SpeechPerceived(heard, speaker, c)}
<1>1. new = [i \in DOMAIN old |-> new[i]]
  BY DEF Flow!Propagated
<1>2. IsList(new) /\ DOMAIN new = DOMAIN old
  BY <1>1, ListMapped
<1>3. ASSUME NEW i \in DOMAIN old
      PROVE  \/ new[i] = old[i]
             \/ /\ heard # {} /\ speaker \in old[i].knownBy
                /\ new[i] = [old[i] EXCEPT !.knownBy = @ \cup told]
  BY <1>3 DEF Flow!Propagated
<1>4. told \subseteq others
  OBVIOUS
<1>5. \A c \in told : heard # {} => \E b \in heard : Flow!BeatPerceived(b, speaker, c)
  BY DEF Flow!SpeechPerceived
<1> HIDE DEF told
<1>6. ASSUME NEW i \in DOMAIN old
      PROVE  /\ DOMAIN new[i] = {"by", "subject", "knownBy"}
             /\ \A c \in new[i].knownBy \ old[i].knownBy :
                   /\ speaker \in old[i].knownBy
                   /\ c \in others
                   /\ \E b \in heard : Flow!BeatPerceived(b, speaker, c)
  <2>1. CASE new[i] = old[i]
    BY <2>1
  <2>2. CASE /\ heard # {} /\ speaker \in old[i].knownBy
             /\ new[i] = [old[i] EXCEPT !.knownBy = @ \cup told]
    <3>1. DOMAIN new[i] = {"by", "subject", "knownBy"} /\ new[i].knownBy = old[i].knownBy \cup told
      BY <2>2
    <3>2. QED
      BY <2>2, <3>1, <1>4, <1>5
  <2>3. QED
    BY <1>3, <2>1, <2>2
<1>7. QED
  BY <1>2, <1>6

\* A speaker is in no audience of its own, so whoever else perceives a beat is
\* in its audience or the beat is public.
LEMMA PerceivedByOthers ==
    ASSUME NEW beat, NEW speaker, NEW viewer, viewer # speaker,
           Flow!BeatPerceived(beat, speaker, viewer)
    PROVE  beat.audibility = "public" \/ viewer \in beat.audience
BY DEF Flow!BeatPerceived

\* A turn of which every beat is whispered leaves its event to its speaker and
\* its audiences.
LEMMA WhisperedTo ==
    ASSUME NEW heard, NEW speaker, NEW present,
           heard # {}, \A b \in heard : b.audibility # "public"
    PROVE  Flow!Recipients(heard, speaker, present)
              \subseteq {speaker} \cup UNION {b.audience : b \in heard}
<1> DEFINE reached == UNION {IF b.audibility = "public" THEN present
                             ELSE {speaker} \cup b.audience : b \in heard}
<1>1. reached \subseteq {speaker} \cup UNION {b.audience : b \in heard}
  OBVIOUS
<1>2. speaker \in reached
  OBVIOUS
<1> HIDE DEF reached
<1>3. Flow!Recipients(heard, speaker, present) \subseteq reached \cup {speaker}
  <2>1. Flow!Recipients(heard, speaker, present) =
          (LET known == IF reached = {} THEN present ELSE reached \cap (present \cup {speaker})
           IN IF known = {} THEN {speaker} ELSE known)
    BY DEF Flow!Recipients, reached
  <2>2. QED
    BY <1>2, <2>1
<1>4. QED
  BY <1>1, <1>3

\* A step of continuity is a turn.
LEMMA TurnsOnly == ASSUME Next PROVE \E move : ProcessTurn(move)
  BY DEF Next

\* The events of a turn: the old ones, each known to those it was told to, and
\* one of its own if it is notable.
LEMMA TurnTells ==
    ASSUME ContinuityInv, NEW move, ProcessTurn(move),
           NEW heard, heard = Flow!Heard(move.beats, move.who)
    PROVE  /\ last'.who = {move.who} /\ last'.beats = heard
           /\ IsList(events')
           /\ \A i \in DOMAIN events' : DOMAIN events'[i] = {"by", "subject", "knownBy"}
           /\ \A i \in DOMAIN events :
                 /\ i \in DOMAIN events'
                 /\ \A c \in events'[i].knownBy \ events[i].knownBy :
                       /\ move.who \in events[i].knownBy /\ c # move.who
                       /\ \E b \in heard : Flow!BeatPerceived(b, move.who, c)
           /\ \A i \in DOMAIN events' \ DOMAIN events :
                 \A c \in events'[i].knownBy :
                    \/ \E present : c \in Flow!Recipients(heard, move.who, present)
                    \/ c # move.who /\ \E b \in heard : Flow!BeatPerceived(b, move.who, c)
<1> DEFINE excursed == Scene!ExcursionsApplied(stage, move.who, move.asks)
           present == Scene!Present(Scene!StageUpdated(excursed, setup.mustRemain, move.who, move.asks))
           fresh == Flow!NewEvent(heard, move.who, move.subject, present)
           noted == IF move.notable THEN Append(events, fresh) ELSE events
<1>1. /\ events' = Flow!Propagated(noted, heard, move.who, move.subject, move.named, Others(move))
      /\ last' = [who |-> {move.who}, beats |-> heard, material |-> move.material]
  BY DEF ProcessTurn
<1>2. /\ DOMAIN fresh = {"by", "subject", "knownBy"}
      /\ fresh.knownBy = Flow!Recipients(heard, move.who, present)
  BY DEF Flow!NewEvent
<1> HIDE DEF present, fresh
<1>3. /\ IsList(noted)
      /\ \A i \in DOMAIN events : i \in DOMAIN noted /\ noted[i] = events[i]
      /\ \A i \in DOMAIN noted \ DOMAIN events : noted[i] = fresh
  <2>1. CASE move.notable
    BY <2>1, ListGrows DEF ContinuityInv
  <2>2. CASE ~move.notable
    BY <2>2 DEF ContinuityInv
  <2>3. QED
    BY <2>1, <2>2
<1> HIDE DEF noted
<1>4. \A i \in DOMAIN noted : DOMAIN noted[i] = {"by", "subject", "knownBy"}
  BY <1>2, <1>3 DEF ContinuityInv
<1>5. /\ IsList(events') /\ DOMAIN events' = DOMAIN noted
      /\ \A i \in DOMAIN noted :
            /\ DOMAIN events'[i] = {"by", "subject", "knownBy"}
            /\ \A c \in events'[i].knownBy \ noted[i].knownBy :
                  /\ move.who \in noted[i].knownBy
                  /\ c \in Others(move)
                  /\ \E b \in heard : Flow!BeatPerceived(b, move.who, c)
  BY <1>1, <1>3, <1>4, PropagatedTells
<1>6. \A c \in Others(move) : c # move.who
  BY DEF Others
<1>7. ASSUME NEW i \in DOMAIN events
      PROVE  /\ i \in DOMAIN events'
             /\ \A c \in events'[i].knownBy \ events[i].knownBy :
                   /\ move.who \in events[i].knownBy /\ c # move.who
                   /\ \E b \in heard : Flow!BeatPerceived(b, move.who, c)
  BY <1>3, <1>5, <1>6
<1>8. ASSUME NEW i \in DOMAIN events' \ DOMAIN events, NEW c \in events'[i].knownBy
      PROVE  \/ \E p : c \in Flow!Recipients(heard, move.who, p)
             \/ c # move.who /\ \E b \in heard : Flow!BeatPerceived(b, move.who, c)
  <2>1. noted[i].knownBy = Flow!Recipients(heard, move.who, present)
    BY <1>2, <1>3, <1>5
  <2>2. CASE c \in noted[i].knownBy
    BY <2>1, <2>2
  <2>3. CASE c \notin noted[i].knownBy
    BY <1>5, <1>6, <2>3
  <2>4. QED
    BY <2>2, <2>3
<1>9. last'.who = {move.who} /\ last'.beats = heard
  BY <1>1
<1>10. QED
  BY <1>5, <1>7, <1>8, <1>9

\* A turn keeps every issue and what is resolved.
LEMMA TurnPresses ==
    ASSUME ContinuityInv, NEW move, ProcessTurn(move)
    PROVE  /\ DOMAIN book' = {"issues", "listed"} /\ IsList(book'.issues)
           /\ \A i \in DOMAIN book.issues :
                 /\ i \in DOMAIN book'.issues
                 /\ book.issues[i].status = "resolved" => book'.issues[i] = book.issues[i]
<1>1. PICK profile : book' = Book!Pressures(book, profile, turn + 1)
  BY DEF ProcessTurn
<1>2. QED
  BY <1>1, PressuresKeep DEF ContinuityInv

LEMMA ContinuityInitially == Init => ContinuityInv
<1> SUFFICES ASSUME Init PROVE ContinuityInv
  OBVIOUS
<1>1. setup.seeded \in Seq(Book!Issues)
  BY TurnAssumption DEF Init
<1>2. IsList(setup.seeded)
  BY <1>1, ListOf
<1>3. IsList(<< >>)
  BY DEF IsList
<1>4. QED
  BY <1>2, <1>3 DEF Init, ContinuityInv

LEMMA ContinuityStep ==
    ASSUME ContinuityInv, [Next]_continuityVars
    PROVE  ContinuityInv'
<1>1. CASE UNCHANGED continuityVars
  BY <1>1 DEF continuityVars, ContinuityInv
<1>2. ASSUME NEW move, ProcessTurn(move)
      PROVE  ContinuityInv'
  BY <1>2, TurnTells, TurnPresses DEF ContinuityInv
<1>3. QED
  BY <1>1, <1>2, TurnsOnly

\* No turn reopens a resolved issue or drops one from the book, whatever it
\* presses, resolves and escalates at once.
THEOREM IssuesStayResolved == Spec => ResolvedStays
<1>1. ContinuityInv /\ [Next]_continuityVars =>
        [\A i \in DOMAIN book.issues :
            /\ i \in DOMAIN book'.issues
            /\ book.issues[i].status = "resolved" => book'.issues[i] = book.issues[i]]_continuityVars
  BY TurnPresses, TurnsOnly
<1>2. QED
  BY <1>1, ContinuityInitially, ContinuityStep, PTL DEF Spec, ResolvedStays

\* Nobody comes to know of an earlier event but by speech it could perceive, of
\* someone who knew the event.
THEOREM KnowledgeIsTold == Spec => KnowledgeHasATeller
<1>1. ASSUME ContinuityInv, NEW move, ProcessTurn(move)
      PROVE  \A i \in DOMAIN events : \A c \in events'[i].knownBy \ events[i].knownBy :
               /\ last'.who \subseteq events[i].knownBy
               /\ \E b \in last'.beats : b.audibility = "public" \/ c \in b.audience
  BY <1>1, TurnTells, PerceivedByOthers
<1>2. ContinuityInv /\ [Next]_continuityVars =>
        [\A i \in DOMAIN events : \A c \in events'[i].knownBy \ events[i].knownBy :
           /\ last'.who \subseteq events[i].knownBy
           /\ \E b \in last'.beats : b.audibility = "public" \/ c \in b.audience]_continuityVars
  BY <1>1, TurnsOnly
<1>3. QED
  BY <1>2, ContinuityInitially, ContinuityStep, PTL DEF Spec, KnowledgeHasATeller

\* A turn of which everything is whispered teaches nobody outside its audiences
\* anything, of itself or of what came before.
THEOREM WhispersKept == Spec => WhispersAreKept
<1>1. ASSUME ContinuityInv, NEW move, ProcessTurn(move),
             last'.beats # {}, \A b \in last'.beats : b.audibility # "public",
             NEW i \in DOMAIN events',
             NEW c \in events'[i].knownBy, i \in DOMAIN events => c \notin events[i].knownBy
      PROVE  c \in last'.who \cup UNION {b.audience : b \in last'.beats}
  <2> DEFINE heard == Flow!Heard(move.beats, move.who)
  <2>1. last'.who = {move.who} /\ last'.beats = heard
    BY <1>1, TurnTells
  <2>2. \/ \E p : c \in Flow!Recipients(heard, move.who, p)
        \/ c # move.who /\ \E b \in heard : Flow!BeatPerceived(b, move.who, c)
    BY <1>1, TurnTells
  <2> HIDE DEF heard
  <2>3. CASE \E p : c \in Flow!Recipients(heard, move.who, p)
    BY <1>1, <2>1, <2>3, WhisperedTo
  <2>4. CASE c # move.who /\ \E b \in heard : Flow!BeatPerceived(b, move.who, c)
    BY <1>1, <2>1, <2>4, PerceivedByOthers
  <2>5. QED
    BY <2>2, <2>3, <2>4
<1>2. ASSUME ContinuityInv, NEW move, ProcessTurn(move),
             last'.beats # {}, \A b \in last'.beats : b.audibility # "public"
      PROVE  \A i \in DOMAIN events' :
               LET knew == IF i \in DOMAIN events THEN events[i].knownBy ELSE {}
               IN events'[i].knownBy \ knew
                    \subseteq last'.who \cup UNION {b.audience : b \in last'.beats}
  BY <1>1, <1>2
<1>3. ContinuityInv /\ [Next]_continuityVars =>
        [(last'.beats # {} /\ \A b \in last'.beats : b.audibility # "public")
         => \A i \in DOMAIN events' :
              LET knew == IF i \in DOMAIN events THEN events[i].knownBy ELSE {}
              IN events'[i].knownBy \ knew
                   \subseteq last'.who \cup UNION {b.audience : b \in last'.beats}]_continuityVars
  BY <1>2, TurnsOnly
<1>4. QED
  BY <1>3, ContinuityInitially, ContinuityStep, PTL DEF Spec, WhispersAreKept

=============================================================================

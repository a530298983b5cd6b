--------------------- MODULE EnvironmentCognition_proofs ---------------------
(***************************************************************************)
(* What the story keeps of a property once the Host has accepted it, and   *)
(* of an event once it was projected, for any scenes, places, answers and  *)
(* faults.                                                                 *)
(*                                                                         *)
(* Nothing locks the files, so two appends that overlap may write the same *)
(* offset into the manifest or drop each other's entry: what is proved of  *)
(* the files is proved of the behaviours in which at most one append is    *)
(* under way at a time, of whichever scene.  The process may stop between  *)
(* any two of its steps, and any write may be cut short: from a torn       *)
(* manifest nothing can be listed, and nothing clears it but an append     *)
(* that had read the manifest before, of which there is none.              *)
(***************************************************************************)
EXTENDS EnvironmentCognition, FiniteSetTheorems, TLAPS

NoOverlap ==
    \A s, t \in Sessions :
        writing[s].step # "none" /\ writing[t].step # "none" => s = t

IsList(q) == q \in Seq({q[n] : n \in DOMAIN q})

WorkFields == {"answer", "outcomes", "obligations", "accepted", "deep", "clean"}

FormInv ==
    /\ DOMAIN stage = Sessions /\ DOMAIN turn = Sessions /\ DOMAIN todo = Sessions
    /\ DOMAIN writing = Sessions /\ DOMAIN work = Sessions
    /\ crashes \in Nat
    /\ \A s \in Sessions :
         /\ turn[s] \in Nat
         /\ DOMAIN work[s] = WorkFields
         /\ \/ writing[s] = NotWriting
            \/ /\ DOMAIN writing[s] = {"step", "job"}
               /\ writing[s].step \in {"opened", "line", "listed"}
               /\ stage[s] \in {"projecting", "establishing"}

\* Only an answer that determines something is finalized.
DeterminedInv ==
    /\ \A s \in Sessions : stage[s] = "establishing" => Determined(work[s].answer)
    /\ \A a \in accepted : a.determined

\* Every entry of the manifest points at the whole line of its record.
FilesInv ==
    /\ DOMAIN files = {"lines", "manifest", "vectors", "torn"}
    /\ IsList(files.lines)
    /\ \A id \in DOMAIN files.manifest :
         /\ files.manifest[id] \in DOMAIN files.lines
         /\ files.lines[files.manifest[id]].whole = TRUE
         /\ files.lines[files.manifest[id]].id = id
         /\ Len(id) = 3 => id[3] \in 1..Len(files.lines)

\* What the append of a scene holds while it is under way.
RecordOK(s) ==
    LET record == writing[s].job.record
    IN /\ record.whole = TRUE
       /\ stage[s] = "projecting" => todo[s] # <<>> /\ record.id = Event(s, Head(todo[s]))
       /\ stage[s] = "establishing" => record.kind = "derived"

JobOK(s) ==
    LET job == writing[s].job
        id == job.record.id
    IN /\ writing[s].step \in {"opened", "line"} => Legible(files)
       /\ writing[s].step = "opened" =>
            /\ id \notin DOMAIN files.manifest /\ job.manifest = files.manifest
            /\ job.offset = Len(files.lines) + 1
            /\ Len(id) = 3 => id[3] \in 1..Len(files.lines) + 1
       /\ writing[s].step = "line" =>
            /\ id \notin DOMAIN files.manifest /\ job.manifest = files.manifest
            /\ job.offset \in DOMAIN files.lines /\ files.lines[job.offset] = job.record
            /\ Len(id) = 3 => id[3] \in 1..Len(files.lines)
       /\ writing[s].step = "listed" =>
            /\ id \in DOMAIN files.manifest
            /\ files.lines[files.manifest[id]] = job.record

WriteInv == \A s \in Sessions : writing[s].step # "none" => RecordOK(s) /\ JobOK(s)

\* What the Host accepted is in the files, and read back unless none can be.
Written(record) == \E n \in DOMAIN files.lines : files.lines[n] = record

AcceptedInv ==
    \A a \in accepted :
        /\ Written(a.record)
        /\ Legible(files) => a.record \in Derived(files)

\* A projection that met no error has listed each event or has it still to do.
PromotedInv ==
    \A s \in Sessions :
        stage[s] = "projecting" =>
            /\ IsList(todo[s])
            /\ work[s].clean /\ Legible(files) =>
                  \A n \in 1..turn[s] :
                      Event(s, n) \in DOMAIN files.manifest \/ \E i \in DOMAIN todo[s] : todo[s][i] = n

StoreInv == FormInv /\ FilesInv /\ WriteInv /\ AcceptedInv /\ PromotedInv

-----------------------------------------------------------------------------
(* Lists and the names of records *)

\* A sequence over any set is a list, and lists grow at the end and shrink at
\* the front.
LEMMA ListMade ==
    ASSUME NEW R, NEW q \in Seq(R)
    PROVE  IsList(q)
BY DEF IsList

LEMMA ListAppended ==
    ASSUME NEW q, IsList(q), NEW e
    PROVE  /\ IsList(Append(q, e))
           /\ Len(Append(q, e)) = Len(q) + 1 /\ Append(q, e)[Len(q) + 1] = e
           /\ Len(q) \in Nat /\ DOMAIN q = 1..Len(q)
           /\ DOMAIN Append(q, e) = 1..Len(q) + 1
           /\ \A n \in DOMAIN q : Append(q, e)[n] = q[n]
<1> DEFINE R == {q[n] : n \in DOMAIN q} \cup {e}
<1>1. q \in Seq({q[n] : n \in DOMAIN q})
  BY DEF IsList
<1>2. q \in Seq(R) /\ e \in R
  BY <1>1
<1>3. Append(q, e) \in Seq(R)
  BY <1>2
<1>4. IsList(Append(q, e))
  BY <1>3, ListMade
<1>5. QED
  BY <1>1, <1>2, <1>3, <1>4

LEMMA ListShrinks ==
    ASSUME NEW q, IsList(q), q # <<>>
    PROVE  /\ IsList(Tail(q))
           /\ \A i \in DOMAIN q : q[i] = Head(q) \/ \E j \in DOMAIN Tail(q) : Tail(q)[j] = q[i]
<1> DEFINE R == {q[n] : n \in DOMAIN q}
<1>1. q \in Seq(R)
  BY DEF IsList
<1>2. Tail(q) \in Seq(R)
  BY <1>1
<1>3. IsList(Tail(q))
  BY <1>2, ListMade
<1>4. ASSUME NEW i \in DOMAIN q, q[i] # Head(q)
      PROVE  \E j \in DOMAIN Tail(q) : Tail(q)[j] = q[i]
  <2>1. i \in 1..Len(q) /\ i # 1
    BY <1>1, <1>4
  <2>2. i - 1 \in 1..Len(q) - 1 /\ Len(Tail(q)) = Len(q) - 1 /\ Tail(q)[i - 1] = q[i]
    BY <1>1, <2>1
  <2>3. i - 1 \in DOMAIN Tail(q)
    BY <1>2, <2>2
  <2>4. QED
    BY <2>2, <2>3
<1>5. QED
  BY <1>3, <1>4

\* The name of an event is of two parts, that of a property of three.
LEMMA NamesHaveLengths ==
    ASSUME NEW s, NEW n, NEW k
    PROVE  Len(Event(s, n)) = 2 /\ Len(<<s, n, k>>) = 3 /\ <<s, n, k>>[3] = k
BY DEF Event

\* What the steps of an append do to the files.
LEMMA FilesWritten ==
    ASSUME DOMAIN files = {"lines", "manifest", "vectors", "torn"}, NEW job
    PROVE  /\ DOMAIN LineWritten(files, job) = DOMAIN files
           /\ LineWritten(files, job).lines = Append(files.lines, job.record)
           /\ LineWritten(files, job).manifest = files.manifest
           /\ DOMAIN ManifestSaved(files, job) = DOMAIN files
           /\ ManifestSaved(files, job).lines = files.lines
           /\ Legible(LineWritten(files, job)) = Legible(files)
           /\ ManifestSaved(files, job).manifest =
                [i \in DOMAIN job.manifest \cup {job.record.id} |->
                    IF i = job.record.id THEN job.offset ELSE job.manifest[i]]
<1>1. /\ DOMAIN LineWritten(files, job) = DOMAIN files
      /\ LineWritten(files, job).lines = Append(files.lines, job.record)
      /\ LineWritten(files, job).manifest = files.manifest
      /\ Legible(LineWritten(files, job)) = Legible(files)
  BY DEF LineWritten, Legible
<1>2. /\ DOMAIN ManifestSaved(files, job) = DOMAIN files
      /\ ManifestSaved(files, job).lines = files.lines
      /\ ManifestSaved(files, job).manifest =
           [i \in DOMAIN job.manifest \cup {job.record.id} |->
               IF i = job.record.id THEN job.offset ELSE job.manifest[i]]
  BY DEF ManifestSaved
<1>3. QED
  BY <1>1, <1>2

LEMMA VectorWritten ==
    ASSUME DOMAIN files = {"lines", "manifest", "vectors", "torn"}, NEW loaded, NEW id
    PROVE  \A after \in {files, Vectored(files, loaded, id), VectorsTorn(files)} :
              /\ DOMAIN after = DOMAIN files
              /\ after.lines = files.lines /\ after.manifest = files.manifest
              /\ Legible(after) = Legible(files)
<1>1. /\ DOMAIN Vectored(files, loaded, id) = DOMAIN files
      /\ Vectored(files, loaded, id).lines = files.lines
      /\ Vectored(files, loaded, id).manifest = files.manifest
      /\ Legible(Vectored(files, loaded, id)) = Legible(files)
  BY DEF Vectored, Legible
<1>2. /\ DOMAIN VectorsTorn(files) = DOMAIN files
      /\ VectorsTorn(files).lines = files.lines
      /\ VectorsTorn(files).manifest = files.manifest
      /\ Legible(VectorsTorn(files)) = Legible(files)
  BY DEF VectorsTorn, Legible
<1>3. QED
  BY <1>1, <1>2

\* A line that is cut short is one more line, a manifest that is cut short
\* leaves no entry, and cut vectors are no matter here.
LEMMA CutTears ==
    ASSUME DOMAIN files = {"lines", "manifest", "vectors", "torn"}, NEW s,
           writing[s].step \in {"opened", "line", "listed"}
    PROVE  /\ DOMAIN Cut(s) = DOMAIN files
           /\ \/ /\ Cut(s).manifest = files.manifest /\ Legible(Cut(s)) = Legible(files)
                 /\ Cut(s).lines = files.lines \/ \E e : Cut(s).lines = Append(files.lines, e)
              \/ /\ Cut(s).lines = files.lines /\ DOMAIN Cut(s).manifest = {}
                 /\ ~Legible(Cut(s))
<1>1. ASSUME NEW job
      PROVE  /\ DOMAIN LineTorn(files, job) = DOMAIN files
             /\ LineTorn(files, job).manifest = files.manifest
             /\ \E e : LineTorn(files, job).lines = Append(files.lines, e)
             /\ Legible(LineTorn(files, job)) = Legible(files)
  BY DEF LineTorn, Legible
<1>2. /\ DOMAIN ManifestTorn(files) = DOMAIN files
      /\ ManifestTorn(files).lines = files.lines
      /\ DOMAIN ManifestTorn(files).manifest = {}
      /\ ~Legible(ManifestTorn(files))
  BY DEF ManifestTorn, Legible, NoEntries
<1>3. /\ DOMAIN VectorsTorn(files) = DOMAIN files
      /\ VectorsTorn(files).lines = files.lines
      /\ VectorsTorn(files).manifest = files.manifest
      /\ Legible(VectorsTorn(files)) = Legible(files)
  BY VectorWritten
<1>4. \/ writing[s].step = "opened" /\ Cut(s) = LineTorn(files, writing[s].job)
      \/ writing[s].step = "line" /\ Cut(s) = ManifestTorn(files)
      \/ writing[s].step = "listed" /\ Cut(s) = VectorsTorn(files)
  BY DEF Cut
<1>5. QED
  BY <1>1, <1>2, <1>3, <1>4

-----------------------------------------------------------------------------
(* Form *)

\* The actions, one by one.
Acts(s) ==
    \/ \E where \in Places, knowers \in Knowers :
          Commit(s, where, knowers) \/ CommitUnprojected(s, where, knowers)
    \/ Goes(s) \/ Fault(s)
    \/ \E viewer \in Cast \cup {Nobody}, met \in Access : Recall(s, viewer, met)

LEMMA FormKept ==
    ASSUME FormInv, [Next]_vars
    PROVE  FormInv'
<1> USE DEF FormInv
<1>1. CASE UNCHANGED vars
  BY <1>1 DEF vars
<1>2. ASSUME NEW torn, Crash(torn)
      PROVE  FormInv'
  BY <1>2 DEF Crash, turnVars, NoWork, WorkFields, NotWriting
<1>3. ASSUME NEW s \in Sessions, Acts(s)
      PROVE  FormInv'
  <2>1. ASSUME NEW where, NEW knowers, Commit(s, where, knowers)
        PROVE  FormInv'
    BY <2>1 DEF Commit, Durable, faultVars
  <2>2. CASE ProjectNext(s)
    BY <2>2 DEF ProjectNext, Open, NextUp, storeVars, turnVars, faultVars
  <2>3. CASE Projected(s)
    BY <2>3 DEF Projected, storeVars, turnVars, faultVars
  <2>4. CASE LineGoesOut(s)
    BY <2>4 DEF LineGoesOut, turnVars, faultVars, NotWriting
  <2>5. CASE ManifestGoesOut(s)
    BY <2>5 DEF ManifestGoesOut, turnVars, faultVars, NotWriting
  <2>6. ASSUME NEW saved \in BOOLEAN, Appended(s, saved)
        PROVE  FormInv'
    BY <2>6 DEF Appended, Reported, turnVars, NotWriting
  <2>7. ASSUME NEW answer, Assess(s, answer)
        PROVE  FormInv'
    BY <2>7 DEF Assess, storeVars, turnVars, faultVars
  <2>8. CASE Mediate(s)
    BY <2>8 DEF Mediate, storeVars, turnVars, faultVars
  <2>9. CASE Finalize(s)
    BY <2>9 DEF Finalize, Tell, storeVars, turnVars, faultVars
  <2>10. CASE Decide(s)
    <3>1. /\ stage[s] = "establishing" /\ writing[s] = NotWriting
          /\ stage' = stage /\ turn' = turn /\ crashes' = crashes
          /\ DOMAIN todo' = Sessions
          /\ \/ work' = work /\ \E record : Open(s, record)
             \/ /\ writing' = writing
                /\ \E needs : work' = [work EXCEPT ![s].accepted = needs]
      BY <2>10 DEF Decide, NextUp, storeVars, turnVars, faultVars
    <3>2. QED
      BY <3>1 DEF Open, WorkFields
  <2>11. CASE Established(s)
    BY <2>11 DEF Established, Tell, storeVars, turnVars, faultVars
  <2>12. CASE Narrated(s)
    BY <2>12 DEF Narrated, NoWork, WorkFields, storeVars, turnVars, faultVars
  <2>13. CASE AppendFails(s)
    BY <2>13 DEF AppendFails, GiveUp, Tell, turnVars, NotWriting
  <2>14. CASE CognitionFails(s)
    BY <2>14 DEF CognitionFails, Tell, storeVars, turnVars
  <2>15. CASE EstablishedUnsaved(s)
    BY <2>15 DEF EstablishedUnsaved, Tell, storeVars, turnVars
  <2>16. ASSUME NEW viewer, NEW met, Recall(s, viewer, met)
         PROVE  FormInv'
    BY <2>16 DEF Recall, storeVars, turnVars, faultVars
  <2>17. ASSUME NEW where, NEW knowers, CommitUnprojected(s, where, knowers)
         PROVE  FormInv'
    BY <2>17 DEF CommitUnprojected, Durable, faultVars
  <2>18. CASE IndexUnreadable(s)
    BY <2>18 DEF IndexUnreadable, GiveUp, Tell, turnVars, faultVars, NotWriting
  <2>19. CASE ProjectionSkips(s)
    BY <2>19 DEF ProjectionSkips, storeVars, turnVars, faultVars
  <2>20. CASE ListingFails(s)
    BY <2>20 DEF ListingFails, GiveUp, Tell, storeVars, turnVars, faultVars
  <2>21. QED
    BY <1>3, <2>1, <2>2, <2>3, <2>4, <2>5, <2>6, <2>7, <2>8, <2>9, <2>10, <2>11, <2>12,
       <2>13, <2>14, <2>15, <2>16, <2>17, <2>18, <2>19, <2>20
       DEF Acts, Goes, Fault, VectorGoesOut, VectorFails
<1>4. QED
  BY <1>1, <1>2, <1>3 DEF Next, Acts

-----------------------------------------------------------------------------
(* Nothing is invented *)

\* Only Finalize begins to establish, and it looks at the answer first.
LEMMA DeterminedKept ==
    ASSUME FormInv, DeterminedInv, [Next]_vars
    PROVE  DeterminedInv'
<1> USE DEF FormInv, DeterminedInv
<1>1. CASE UNCHANGED vars
  BY <1>1 DEF vars
<1>2. ASSUME NEW torn, Crash(torn)
      PROVE  DeterminedInv'
  BY <1>2 DEF Crash
<1>3. ASSUME NEW s \in Sessions, Acts(s)
      PROVE  DeterminedInv'
  <2>1. ASSUME NEW where, NEW knowers, Commit(s, where, knowers)
        PROVE  DeterminedInv'
    BY <2>1 DEF Commit, Durable
  <2>2. CASE ProjectNext(s)
    BY <2>2 DEF ProjectNext, storeVars
  <2>3. CASE Projected(s)
    BY <2>3 DEF Projected, storeVars
  <2>4. CASE LineGoesOut(s)
    BY <2>4 DEF LineGoesOut
  <2>5. CASE ManifestGoesOut(s)
    BY <2>5 DEF ManifestGoesOut
  <2>6. ASSUME NEW saved \in BOOLEAN, Appended(s, saved)
        PROVE  DeterminedInv'
    <3>1. CASE stage[s] = "projecting"
      BY <2>6, <3>1 DEF Appended, Reported
    <3>2. CASE stage[s] # "projecting"
      <4>1. stage[s] = "establishing"
        BY <2>6, <3>2 DEF Appended, NotWriting
      <4>2. /\ stage' = stage
            /\ DOMAIN work' = Sessions
            /\ \A t \in Sessions : work'[t].answer = work[t].answer
        BY <2>6, <3>2 DEF Appended, Reported, WorkFields
      <4>3. \A t \in Sessions : stage'[t] = "establishing" => Determined(work'[t].answer)
        BY <4>2
      <4> DEFINE v == [record |-> writing[s].job.record, determined |-> Determined(work[s].answer),
                       mediated |-> Accessed(work[s], Head(todo[s]).need)]
      <4>4. accepted' = accepted \cup {v} /\ v.determined = Determined(work[s].answer)
        BY <2>6, <3>2 DEF Appended, Reported
      <4>5. \A a \in accepted' : a.determined
        <5> HIDE DEF v
        <5>1. QED
          BY <4>1, <4>4
      <4>6. QED
        BY <4>3, <4>5
    <3>3. QED
      BY <3>1, <3>2
  <2>7. ASSUME NEW answer, Assess(s, answer)
        PROVE  DeterminedInv'
    BY <2>7 DEF Assess, storeVars
  <2>8. CASE Mediate(s)
    BY <2>8 DEF Mediate, storeVars
  <2>9. CASE Finalize(s)
    <3>1. CASE Usable(work[s].answer)
      <4>1. /\ accepted' = accepted
            /\ stage' = [stage EXCEPT ![s] = "establishing"]
            /\ \A t \in Sessions : work'[t].answer = work[t].answer
        BY <2>9, <3>1 DEF Finalize, storeVars, WorkFields
      <4>2. QED
        BY <3>1, <4>1 DEF Usable
    <3>2. CASE ~Usable(work[s].answer)
      BY <2>9, <3>2 DEF Finalize, Tell, storeVars
    <3>3. QED
      BY <3>1, <3>2
  <2>10. CASE Decide(s)
    <3>1. /\ accepted' = accepted /\ stage' = stage
          /\ \A t \in Sessions : work'[t].answer = work[t].answer
      BY <2>10 DEF Decide, storeVars, WorkFields
    <3>2. QED
      BY <3>1
  <2>11. CASE Established(s)
    BY <2>11 DEF Established, Tell, storeVars
  <2>12. CASE Narrated(s)
    BY <2>12 DEF Narrated, storeVars
  <2>13. CASE AppendFails(s)
    <3>1. /\ accepted' = accepted
          /\ \A t \in Sessions : work'[t].answer = work[t].answer
          /\ stage' = stage \/ stage' = [stage EXCEPT ![s] = "told"]
      BY <2>13 DEF AppendFails, GiveUp, Tell, WorkFields
    <3>2. QED
      BY <3>1
  <2>14. CASE CognitionFails(s)
    BY <2>14 DEF CognitionFails, Tell, storeVars
  <2>15. CASE EstablishedUnsaved(s)
    BY <2>15 DEF EstablishedUnsaved, Tell, storeVars
  <2>16. ASSUME NEW viewer, NEW met, Recall(s, viewer, met)
         PROVE  DeterminedInv'
    BY <2>16 DEF Recall, storeVars
  <2>17. ASSUME NEW where, NEW knowers, CommitUnprojected(s, where, knowers)
         PROVE  DeterminedInv'
    BY <2>17 DEF CommitUnprojected, Durable
  <2>18. CASE IndexUnreadable(s)
    BY <2>18 DEF IndexUnreadable, GiveUp, Tell
  <2>19. CASE ProjectionSkips(s)
    <3>1. /\ accepted' = accepted /\ stage' = stage
          /\ \A t \in Sessions : work'[t].answer = work[t].answer
      BY <2>19 DEF ProjectionSkips, storeVars, WorkFields
    <3>2. QED
      BY <3>1
  <2>20. CASE ListingFails(s)
    BY <2>20 DEF ListingFails, GiveUp, Tell, storeVars
  <2>21. QED
    BY <1>3, <2>1, <2>2, <2>3, <2>4, <2>5, <2>6, <2>7, <2>8, <2>9, <2>10, <2>11, <2>12,
       <2>13, <2>14, <2>15, <2>16, <2>17, <2>18, <2>19, <2>20
       DEF Acts, Goes, Fault, VectorGoesOut, VectorFails
<1>4. QED
  BY <1>1, <1>2, <1>3 DEF Next, Acts

LEMMA FormInitially == Init => FormInv
BY DEF Init, FormInv, NoWork, WorkFields, NotWriting

\* No property is established on the strength of an answer that determined
\* nothing: of an unusable answer nothing is left to decide, and an answer
\* that is being decided does not change.
THEOREM NothingInvented == Spec => []UndeterminedInventsNothing
<1>1. Init => FormInv /\ DeterminedInv
  BY FormInitially DEF Init, DeterminedInv
<1>2. FormInv /\ DeterminedInv /\ [Next]_vars => FormInv' /\ DeterminedInv'
  BY FormKept, DeterminedKept
<1>3. DeterminedInv => UndeterminedInventsNothing
  BY DEF DeterminedInv, UndeterminedInventsNothing
<1>4. QED
  BY <1>1, <1>2, <1>3, PTL DEF Spec

-----------------------------------------------------------------------------
(* The files *)

\* Lines stay where they are, and so do the entries of a manifest that can
\* be parsed, while one that cannot stays so.
Grown ==
    /\ \A n \in DOMAIN files.lines :
          n \in DOMAIN files'.lines /\ files'.lines[n] = files.lines[n]
    /\ Legible(files)' =>
          /\ Legible(files)
          /\ \A id \in DOMAIN files.manifest :
                id \in DOMAIN files'.manifest /\ files'.manifest[id] = files.manifest[id]

StoreKept ==
    /\ DOMAIN files' = DOMAIN files
    /\ files'.lines = files.lines /\ files'.manifest = files.manifest
    /\ Legible(files)' = Legible(files)

\* A step in which no append goes on: at most some end.
Still ==
    /\ StoreKept
    /\ \A t \in Sessions : writing'[t].step # "none" =>
          writing'[t] = writing[t] /\ stage'[t] = stage[t] /\ todo'[t] = todo[t]

\* A step in which an append begins.
Opens(s, record) ==
    /\ StoreKept
    /\ Open(s, record) /\ stage' = stage /\ todo' = todo
    /\ Legible(files)
    /\ record.whole = TRUE /\ record.id \notin DOMAIN files.manifest
    /\ stage[s] = "projecting" => todo[s] # <<>> /\ record.id = Event(s, Head(todo[s]))
    /\ stage[s] = "establishing" => record.kind = "derived"
    /\ Len(record.id) = 3 => record.id[3] \in 1..Len(files.lines) + 1

StoreSteps == FilesInv' /\ WriteInv' /\ Grown

LEMMA StillKeeps ==
    ASSUME FilesInv, WriteInv, Still
    PROVE  StoreSteps
<1>1. FilesInv' /\ Grown
  BY DEF Still, StoreKept, FilesInv, Grown
<1>2. WriteInv'
  BY DEF Still, StoreKept, WriteInv, RecordOK, JobOK
<1>3. QED
  BY <1>1, <1>2 DEF StoreSteps

LEMMA OpensKeeps ==
    ASSUME FormInv, FilesInv, WriteInv, NoOverlap', NEW s \in Sessions, NEW record, Opens(s, record)
    PROVE  StoreSteps
<1>1. FilesInv' /\ Grown
  BY DEF Opens, StoreKept, FilesInv, Grown
<1>2. /\ writing'[s] = [step |-> "opened", job |-> Opened(files, record)]
      /\ writing'[s].step = "opened"
      /\ writing'[s].job.record = record /\ writing'[s].job.manifest = files.manifest
      /\ writing'[s].job.offset = Len(files.lines) + 1
  BY DEF Opens, Open, Opened, FormInv
<1>3. RecordOK(s)'
  BY <1>2 DEF Opens, RecordOK
<1>4. JobOK(s)'
  BY <1>2 DEF Opens, JobOK, StoreKept
<1>5. \A t \in Sessions : writing'[t].step # "none" => t = s
  BY <1>2 DEF NoOverlap
<1>6. QED
  BY <1>1, <1>3, <1>4, <1>5 DEF StoreSteps, WriteInv

\* The line of the record is the last one.
LEMMA LineKeeps ==
    ASSUME FormInv, FilesInv, WriteInv, NoOverlap', NEW s \in Sessions, LineGoesOut(s)
    PROVE  StoreSteps
<1> DEFINE job == writing[s].job
<1>1. writing[s].step = "opened" /\ DOMAIN writing[s] = {"step", "job"}
  BY DEF LineGoesOut, FormInv, NotWriting
<1>2. RecordOK(s) /\ JobOK(s)
  BY <1>1 DEF WriteInv
<1>3. /\ writing'[s].step = "line" /\ writing'[s].job = job
      /\ stage' = stage /\ todo' = todo
  BY <1>1 DEF LineGoesOut, FormInv
<1>4. /\ files'.lines = Append(files.lines, job.record)
      /\ files'.manifest = files.manifest /\ DOMAIN files' = DOMAIN files
      /\ Legible(files)' = Legible(files)
  <2>1. files' = LineWritten(files, job)
    BY DEF LineGoesOut
  <2>2. QED
    BY <2>1, FilesWritten DEF FilesInv, Legible
<1>5. /\ IsList(files'.lines) /\ Len(files.lines) \in Nat /\ Len(files'.lines) = Len(files.lines) + 1
      /\ DOMAIN files.lines = 1..Len(files.lines)
      /\ DOMAIN files'.lines = 1..Len(files.lines) + 1
      /\ files'.lines[Len(files.lines) + 1] = job.record
      /\ \A n \in DOMAIN files.lines : files'.lines[n] = files.lines[n]
  BY <1>4, ListAppended DEF FilesInv
<1>6. Grown
  BY <1>4, <1>5 DEF Grown
<1>7. FilesInv'
  <2>1. ASSUME NEW id \in DOMAIN files.manifest
        PROVE  /\ files.manifest[id] \in DOMAIN files'.lines
               /\ files'.lines[files.manifest[id]].whole = TRUE
               /\ files'.lines[files.manifest[id]].id = id
               /\ Len(id) = 3 => id[3] \in 1..Len(files'.lines)
    <3>1. /\ files.manifest[id] \in DOMAIN files.lines
          /\ files.lines[files.manifest[id]].whole = TRUE
          /\ files.lines[files.manifest[id]].id = id
          /\ Len(id) = 3 => id[3] \in 1..Len(files.lines)
      BY DEF FilesInv
    <3>2. files'.lines[files.manifest[id]] = files.lines[files.manifest[id]]
      BY <3>1, <1>5
    <3>3. Len(id) = 3 => id[3] \in 1..Len(files'.lines)
      BY <3>1, <1>5
    <3>4. QED
      BY <3>1, <3>2, <3>3, <1>5
  <2>2. QED
    BY <2>1, <1>4, <1>5 DEF FilesInv
<1>8. RecordOK(s)'
  BY <1>2, <1>3 DEF RecordOK
<1>9. JobOK(s)'
  BY <1>1, <1>2, <1>3, <1>4, <1>5 DEF JobOK
<1>10. \A t \in Sessions : writing'[t].step # "none" => t = s
  BY <1>3 DEF NoOverlap
<1>11. QED
  BY <1>6, <1>7, <1>8, <1>9, <1>10 DEF StoreSteps, WriteInv

\* The manifest that is written has everything the files had: nobody appended
\* since it was read.
LEMMA EntrySaved ==
    ASSUME FormInv, FilesInv, WriteInv, NEW s \in Sessions, writing[s].step = "line",
           files' = ManifestSaved(files, writing[s].job)
    PROVE  /\ FilesInv' /\ Grown /\ files'.lines = files.lines
           /\ writing[s].job.record.id \in DOMAIN files'.manifest
           /\ files.lines[files'.manifest[writing[s].job.record.id]] = writing[s].job.record
<1> DEFINE job == writing[s].job
           id0 == job.record.id
<1>1. RecordOK(s) /\ JobOK(s)
  BY DEF WriteInv
<1>2. /\ id0 \notin DOMAIN files.manifest /\ job.manifest = files.manifest
      /\ job.offset \in DOMAIN files.lines /\ files.lines[job.offset] = job.record
      /\ Len(id0) = 3 => id0[3] \in 1..Len(files.lines)
      /\ job.record.whole = TRUE /\ Legible(files)
  BY <1>1 DEF JobOK, RecordOK
<1>3. /\ files'.lines = files.lines /\ DOMAIN files' = DOMAIN files
      /\ files'.manifest = [i \in DOMAIN job.manifest \cup {id0} |->
                              IF i = id0 THEN job.offset ELSE job.manifest[i]]
  BY FilesWritten DEF FilesInv
<1>4. /\ DOMAIN files'.manifest = DOMAIN files.manifest \cup {id0}
      /\ files'.manifest[id0] = job.offset
      /\ \A i \in DOMAIN files.manifest : files'.manifest[i] = files.manifest[i]
  BY <1>2, <1>3
<1>5. job.record.id = id0
  OBVIOUS
<1> HIDE DEF id0
<1>6. Grown
  BY <1>2, <1>3, <1>4 DEF Grown
<1>7. FilesInv'
  BY <1>2, <1>3, <1>4, <1>5 DEF FilesInv
<1>8. QED
  BY <1>2, <1>3, <1>4, <1>5, <1>6, <1>7

LEMMA ManifestKeeps ==
    ASSUME FormInv, FilesInv, WriteInv, NoOverlap', NEW s \in Sessions, ManifestGoesOut(s)
    PROVE  StoreSteps
<1> DEFINE job == writing[s].job
<1>1. writing[s].step = "line" /\ DOMAIN writing[s] = {"step", "job"}
  BY DEF ManifestGoesOut, FormInv, NotWriting
<1>2. RecordOK(s)
  BY <1>1 DEF WriteInv
<1>3. /\ writing'[s].step = "listed" /\ writing'[s].job = job
      /\ stage' = stage /\ todo' = todo
  BY <1>1 DEF ManifestGoesOut, FormInv
<1>4. /\ FilesInv' /\ Grown /\ files'.lines = files.lines
      /\ job.record.id \in DOMAIN files'.manifest
      /\ files.lines[files'.manifest[job.record.id]] = job.record
  BY <1>1, EntrySaved DEF ManifestGoesOut
<1>5. RecordOK(s)'
  BY <1>2, <1>3 DEF RecordOK
<1>6. JobOK(s)'
  BY <1>3, <1>4 DEF JobOK
<1>7. \A t \in Sessions : writing'[t].step # "none" => t = s
  BY <1>3 DEF NoOverlap
<1>8. QED
  BY <1>4, <1>5, <1>6, <1>7 DEF StoreSteps, WriteInv

\* No entry points at a torn line, and a torn manifest has none.
LEMMA CutKeeps ==
    ASSUME FilesInv, NEW s, writing[s].step \in {"opened", "line", "listed"},
           files' \in {files, Cut(s)}
    PROVE  FilesInv' /\ Grown
<1>1. CASE files' = files
  BY <1>1 DEF FilesInv, Grown, Legible
<1>2. CASE files' = Cut(s)
  <2>1. /\ DOMAIN files' = DOMAIN files
        /\ \/ /\ files'.manifest = files.manifest /\ Legible(files)' = Legible(files)
              /\ files'.lines = files.lines \/ \E e : files'.lines = Append(files.lines, e)
           \/ /\ files'.lines = files.lines /\ DOMAIN files'.manifest = {}
              /\ ~Legible(files)'
    BY <1>2, CutTears DEF FilesInv, Legible
  <2>2. CASE files'.lines = files.lines /\ DOMAIN files'.manifest = {} /\ ~Legible(files)'
    BY <2>1, <2>2 DEF FilesInv, Grown
  <2>3. CASE /\ files'.lines = files.lines /\ files'.manifest = files.manifest
             /\ Legible(files)' = Legible(files)
    BY <2>1, <2>3 DEF FilesInv, Grown
  <2>4. ASSUME NEW e, files'.lines = Append(files.lines, e), files'.manifest = files.manifest,
               Legible(files)' = Legible(files)
        PROVE  FilesInv' /\ Grown
    <3>1. /\ IsList(files'.lines) /\ Len(files.lines) \in Nat /\ Len(files'.lines) = Len(files.lines) + 1
          /\ DOMAIN files.lines = 1..Len(files.lines)
          /\ DOMAIN files'.lines = 1..Len(files.lines) + 1
          /\ \A n \in DOMAIN files.lines : files'.lines[n] = files.lines[n]
      BY <2>4, ListAppended DEF FilesInv
    <3>2. Grown
      BY <2>4, <3>1 DEF Grown
    <3>3. ASSUME NEW id \in DOMAIN files.manifest
          PROVE  /\ files.manifest[id] \in DOMAIN files'.lines
                 /\ files'.lines[files.manifest[id]].whole = TRUE
                 /\ files'.lines[files.manifest[id]].id = id
                 /\ Len(id) = 3 => id[3] \in 1..Len(files'.lines)
      <4>1. /\ files.manifest[id] \in DOMAIN files.lines
            /\ files.lines[files.manifest[id]].whole = TRUE
            /\ files.lines[files.manifest[id]].id = id
            /\ Len(id) = 3 => id[3] \in 1..Len(files.lines)
        BY DEF FilesInv
      <4>2. files'.lines[files.manifest[id]] = files.lines[files.manifest[id]]
        BY <4>1, <3>1
      <4>3. Len(id) = 3 => id[3] \in 1..Len(files'.lines)
        BY <4>1, <3>1
      <4>4. QED
        BY <4>1, <4>2, <4>3, <3>1
    <3>4. FilesInv'
      BY <2>1, <2>4, <3>1, <3>3 DEF FilesInv
    <3>5. QED
      BY <3>2, <3>4
  <2>5. QED
    BY <2>1, <2>2, <2>3, <2>4
<1>3. QED
  BY <1>1, <1>2

\* Once no append is under way none has to be accounted for.
LEMMA QuietKeeps ==
    ASSUME FilesInv', Grown, \A t \in Sessions : writing'[t].step = "none"
    PROVE  StoreSteps
BY DEF StoreSteps, WriteInv

LEMMA CrashKeeps ==
    ASSUME FormInv, FilesInv, NEW torn, Crash(torn)
    PROVE  StoreSteps
<1>1. \A t \in Sessions : writing'[t].step = "none"
  BY DEF Crash, NotWriting
<1>2. CASE files' = files
  BY <1>1, <1>2, QuietKeeps DEF FilesInv, Grown, Legible
<1>3. CASE torn \in Sessions /\ writing[torn] # NotWriting /\ files' = Cut(torn)
  BY <1>1, <1>3, CutKeeps, QuietKeeps DEF FormInv
<1>4. QED
  BY <1>2, <1>3 DEF Crash, Torn

\* The append of s ends, and there was no other.
LEMMA EndKeeps ==
    ASSUME FormInv, FilesInv, WriteInv, NoOverlap, NEW s \in Sessions,
           IndexUnreadable(s) \/ AppendFails(s)
    PROVE  StoreSteps
<1>1. /\ writing[s].step \in {"opened", "line"}
      /\ writing' = [writing EXCEPT ![s] = NotWriting]
  BY DEF IndexUnreadable, AppendFails
<1>2. \A t \in Sessions : writing[t].step # "none" => t = s
  BY <1>1 DEF NoOverlap
<1>3. \A t \in Sessions : writing'[t].step = "none"
  BY <1>1, <1>2 DEF FormInv, NotWriting
<1>4. CASE IndexUnreadable(s)
  BY <1>3, <1>4, EntrySaved, QuietKeeps DEF IndexUnreadable
<1>5. CASE AppendFails(s)
  BY <1>1, <1>3, <1>5, CutKeeps, QuietKeeps DEF AppendFails
<1>6. QED
  BY <1>4, <1>5

\* What a step of the scenes does to the files keeps them sound.
LEMMA FilesKept ==
    ASSUME FormInv, FilesInv, WriteInv, NoOverlap, NoOverlap', [Next]_vars
    PROVE  StoreSteps
<1>1. CASE UNCHANGED vars
  <2>1. Still
    BY <1>1 DEF vars, Still, StoreKept, Legible
  <2>2. QED
    BY <2>1, StillKeeps
<1>2. ASSUME NEW torn, Crash(torn)
      PROVE  StoreSteps
  BY <1>2, CrashKeeps
<1>3. ASSUME NEW s \in Sessions, Acts(s)
      PROVE  StoreSteps
  <2> USE DEF FormInv, StoreKept, Still, NotWriting, Legible
  <2>1. ASSUME NEW where, NEW knowers, Commit(s, where, knowers)
        PROVE  Still
    BY <2>1 DEF Commit, Durable
  <2>2. ASSUME ProjectNext(s)
        PROVE  Still \/ \E record : Opens(s, record)
    <3> DEFINE record == Occurrence(Event(s, Head(todo[s])), Head(todo[s]))
    <3>1. CASE Known(files, record.id)
      BY <2>2, <3>1 DEF ProjectNext, NextUp, storeVars, turnVars
    <3>2. CASE ~Known(files, record.id)
      <4>1. record.whole = TRUE /\ record.id = Event(s, Head(todo[s]))
        BY DEF Occurrence
      <4>2. Len(record.id) = 2
        BY <4>1, NamesHaveLengths
      <4>3. /\ stage[s] = "projecting" /\ todo[s] # <<>> /\ stage' = stage /\ todo' = todo
            /\ Open(s, record) /\ files' = files /\ Legible(files)
        BY <2>2, <3>2 DEF ProjectNext, NextUp, storeVars, turnVars
      <4>4. record.id \notin DOMAIN files.manifest
        BY <3>2 DEF Known
      <4> HIDE DEF record
      <4>5. StoreKept
        BY <4>3
      <4> HIDE DEF FormInv, StoreKept, Still, NotWriting, Legible
      <4>6. Opens(s, record)
        <5>1. Len(record.id) = 3 => record.id[3] \in 1..Len(files.lines) + 1
          BY <4>2
        <5>2. stage[s] = "establishing" => record.kind = "derived"
          BY <4>3
        <5>3. QED
          BY <4>1, <4>3, <4>4, <4>5, <5>1, <5>2 DEF Opens
      <4>7. QED
        BY <4>6
    <3>3. QED
      BY <3>1, <3>2
  <2>3. ASSUME Projected(s)
        PROVE  Still
    BY <2>3 DEF Projected, storeVars
  <2>4. ASSUME NEW saved \in BOOLEAN, Appended(s, saved)
        PROVE  Still
    <3>1. StoreKept
      <4> DEFINE loaded == vectors[s]
                 id == writing[s].job.record.id
                 Afters == {files, Vectored(files, loaded, id), VectorsTorn(files)}
      <4>1. files' \in Afters
        BY <2>4 DEF Appended
      <4>2. DOMAIN files = {"lines", "manifest", "vectors", "torn"}
        BY DEF FilesInv
      <4> HIDE DEF Legible, loaded, id, FormInv, StoreKept, Still, NotWriting
      <4>3. \A after \in Afters :
               /\ DOMAIN after = DOMAIN files
               /\ after.lines = files.lines /\ after.manifest = files.manifest
               /\ Legible(after) = Legible(files)
        BY <4>2, VectorWritten
      <4> HIDE DEF Afters
      <4>4. /\ DOMAIN files' = DOMAIN files
            /\ files'.lines = files.lines /\ files'.manifest = files.manifest
            /\ Legible(files') = Legible(files)
        BY <4>1, <4>3
      <4>5. QED
        BY <4>4 DEF Legible, StoreKept
    <3>2. stage' = stage /\ writing' = [writing EXCEPT ![s] = NotWriting]
          /\ \A t \in Sessions : t # s => todo'[t] = todo[t]
      BY <2>4 DEF Appended
    <3>3. QED
      BY <3>1, <3>2
  <2>5. ASSUME NEW answer, Assess(s, answer)
        PROVE  Still
    BY <2>5 DEF Assess, storeVars
  <2>6. ASSUME Mediate(s)
        PROVE  Still
    BY <2>6 DEF Mediate, storeVars
  <2>7. ASSUME Finalize(s)
        PROVE  Still
    BY <2>7 DEF Finalize, Tell, storeVars
  <2>8. ASSUME Decide(s)
        PROVE  Still \/ \E record : Opens(s, record)
    <3> DEFINE resolution == Head(todo[s])
               record == Proposal(s, resolution)
    <3>1. CASE Authorized(resolution, Effective(files, place[s], resolution.key))
      <4>1. /\ record.whole = TRUE /\ record.kind = "derived"
            /\ record.id = <<s, turn[s], Len(files.lines) + 1>>
        BY DEF Proposal, Descriptor
      <4>2. Len(record.id) = 3 /\ record.id[3] = Len(files.lines) + 1 /\ Len(files.lines) \in Nat
        <5> DEFINE k == Len(files.lines) + 1
        <5>1. Len(<<s, turn[s], k>>) = 3 /\ <<s, turn[s], k>>[3] = k
          OBVIOUS
        <5>2. Len(files.lines) \in Nat
          BY ListAppended DEF FilesInv
        <5>3. QED
          BY <4>1, <5>1, <5>2
      <4>3. stage[s] = "establishing" /\ stage' = stage /\ todo' = todo /\ files' = files
            /\ Open(s, record) /\ Legible(files)
        BY <2>8, <3>1 DEF Decide, storeVars
      <4> HIDE DEF record
      <4>4. record.id \notin DOMAIN files.manifest
        BY <4>2 DEF FilesInv
      <4>5. Opens(s, record)
        BY <4>1, <4>2, <4>3, <4>4 DEF Opens
      <4>6. QED
        BY <4>5
    <3>2. CASE ~Authorized(resolution, Effective(files, place[s], resolution.key))
      <4>1. /\ files' = files /\ writing' = writing /\ writing[s] = NotWriting
            /\ stage' = stage /\ \A t \in Sessions : t # s => todo'[t] = todo[t]
        BY <2>8, <3>2 DEF Decide, NextUp, storeVars
      <4>2. Still
        BY <4>1
      <4>3. QED
        BY <4>2
    <3>3. QED
      BY <3>1, <3>2
  <2>9. ASSUME Established(s)
        PROVE  Still
    BY <2>9 DEF Established, Tell, storeVars
  <2>10. ASSUME Narrated(s)
         PROVE  Still
    BY <2>10 DEF Narrated, storeVars
  <2>11. CASE IndexUnreadable(s) \/ AppendFails(s)
    BY <2>11, EndKeeps
  <2>12. ASSUME CognitionFails(s)
         PROVE  Still
    BY <2>12 DEF CognitionFails, Tell, storeVars
  <2>13. ASSUME EstablishedUnsaved(s)
         PROVE  Still
    BY <2>13 DEF EstablishedUnsaved, Tell, storeVars
  <2>14. ASSUME NEW viewer, NEW met, Recall(s, viewer, met)
         PROVE  Still
    BY <2>14 DEF Recall, storeVars
  <2>15. CASE LineGoesOut(s)
    BY <2>15, LineKeeps
  <2>16. CASE ManifestGoesOut(s)
    BY <2>16, ManifestKeeps
  <2>17. Still \/ (\E record : Opens(s, record)) => StoreSteps
    BY StillKeeps, OpensKeeps
  <2>18. ASSUME NEW where, NEW knowers, CommitUnprojected(s, where, knowers)
         PROVE  Still
    BY <2>18 DEF CommitUnprojected, Durable
  <2>19. ASSUME ProjectionSkips(s)
         PROVE  Still
    BY <2>19 DEF ProjectionSkips, NextUp, storeVars
  <2>20. ASSUME ListingFails(s)
         PROVE  Still
    BY <2>20 DEF ListingFails, GiveUp, Tell, storeVars
  <2> HIDE DEF Still, StoreKept, Legible, FormInv
  <2>21. QED
    BY <1>3, <2>1, <2>2, <2>3, <2>4, <2>5, <2>6, <2>7, <2>8, <2>9, <2>10, <2>11, <2>12,
       <2>13, <2>14, <2>15, <2>16, <2>17, <2>18, <2>19, <2>20
       DEF Acts, Goes, Fault, VectorGoesOut, VectorFails
<1>4. QED
  BY <1>1, <1>2, <1>3 DEF Next, Acts

-----------------------------------------------------------------------------
(* What was accepted, and what was projected *)

\* An entry of the manifest can be read back.
LEMMA EntriesAreListed ==
    ASSUME FilesInv
    PROVE  /\ \A id \in DOMAIN files.manifest : files.lines[files.manifest[id]] \in Listed(files)
           /\ \A r \in Listed(files) : \E id \in DOMAIN files.manifest :
                 r = files.lines[files.manifest[id]]
BY DEF FilesInv, Listed

\* What can be read back stays so.
LEMMA ListedStays ==
    ASSUME FilesInv, StoreSteps, Legible(files)', NEW r \in Listed(files)
    PROVE  r \in Listed(files)'
<1>1. PICK id \in DOMAIN files.manifest : r = files.lines[files.manifest[id]]
  BY EntriesAreListed
<1>2. /\ id \in DOMAIN files'.manifest /\ files'.manifest[id] = files.manifest[id]
      /\ files.manifest[id] \in DOMAIN files.lines
  BY DEF StoreSteps, Grown, FilesInv
<1>3. files'.lines[files'.manifest[id]] = r
  BY <1>1, <1>2 DEF StoreSteps, Grown
<1>4. FilesInv'
  BY DEF StoreSteps
<1>5. /\ files'.manifest[id] \in DOMAIN files'.lines
      /\ files'.lines[files'.manifest[id]].whole
  BY <1>2, <1>4 DEF FilesInv
<1>6. QED
  BY <1>2, <1>3, <1>5 DEF Listed

\* A property is reported by the step after its entry was written.
LEMMA AcceptedKept ==
    ASSUME FormInv, FilesInv, WriteInv, AcceptedInv, StoreSteps, [Next]_vars
    PROVE  AcceptedInv'
<1>1. \A a \in accepted :
         Written(a.record)' /\ (Legible(files)' => a.record \in Derived(files)')
  <2>1. \A a \in accepted : Written(a.record)'
    BY DEF AcceptedInv, Written, StoreSteps, Grown
  <2>2. ASSUME Legible(files)', NEW a \in accepted
        PROVE  a.record \in Derived(files)'
    <3>1. a.record \in Derived(files)
      BY <2>2 DEF AcceptedInv, StoreSteps, Grown
    <3>2. QED
      BY <2>2, <3>1, ListedStays DEF Derived
  <2>3. QED
    BY <2>1, <2>2
<1>2. CASE accepted' = accepted
  BY <1>1, <1>2 DEF AcceptedInv
<1>3. ASSUME NEW s \in Sessions, NEW saved \in BOOLEAN, Appended(s, saved), stage[s] # "projecting"
      PROVE  AcceptedInv'
  <2> DEFINE record == writing[s].job.record
  <2>1. writing[s].step = "listed" /\ stage[s] = "establishing"
    BY <1>3 DEF Appended, FormInv, NotWriting
  <2>2. /\ record.id \in DOMAIN files.manifest
        /\ files.lines[files.manifest[record.id]] = record
        /\ record.kind = "derived"
    BY <2>1 DEF WriteInv, RecordOK, JobOK
  <2>3. ASSUME NEW r, r = record
        PROVE  Written(r)' /\ (Legible(files)' => r \in Derived(files)')
    <3>1. files.manifest[r.id] \in DOMAIN files.lines /\ files.lines[files.manifest[r.id]] = r
      BY <2>2, <2>3 DEF FilesInv
    <3>2. Written(r)'
      BY <3>1 DEF Written, StoreSteps, Grown
    <3>3. r \in Derived(files)
      BY <2>2, <2>3, EntriesAreListed DEF Derived
    <3>4. QED
      BY <3>2, <3>3, ListedStays DEF Derived
  <2>4. \E v : accepted' = accepted \cup {v} /\ v.record = record
    <3> DEFINE v == [record |-> record, determined |-> Determined(work[s].answer),
                     mediated |-> Accessed(work[s], Head(todo[s]).need)]
    <3>1. accepted' = accepted \cup {v} /\ v.record = record
      BY <1>3 DEF Appended, Reported
    <3>2. QED
      BY <3>1
  <2> HIDE DEF record
  <2>5. QED
    BY <1>1, <2>3, <2>4 DEF AcceptedInv
<1>4. ASSUME NEW s \in Sessions, Acts(s)
      PROVE  \/ accepted' = accepted
             \/ \E saved \in BOOLEAN : Appended(s, saved) /\ stage[s] # "projecting"
  BY <1>4 DEF Acts, Goes, Fault, VectorGoesOut, VectorFails, Commit, CommitUnprojected, Durable,
     ProjectNext, ProjectionSkips, Projected, LineGoesOut, ManifestGoesOut, IndexUnreadable,
     Appended, Reported, ListingFails, Assess, Mediate, Finalize, Decide, Established,
     Narrated, AppendFails, CognitionFails, EstablishedUnsaved, Recall, storeVars
<1>5. (UNCHANGED vars \/ \E torn : Crash(torn)) => accepted' = accepted
  BY DEF vars, Crash
<1>6. QED
  BY <1>2, <1>3, <1>4, <1>5 DEF Next, Acts

\* Of scene t nothing is projected, or what was listed and is to do stays so.
LEMMA PromotedStays ==
    ASSUME PromotedInv, StoreSteps, NEW t \in Sessions,
           stage'[t] = "projecting" =>
              /\ stage[t] = "projecting" /\ turn'[t] = turn[t] /\ todo'[t] = todo[t]
              /\ work'[t].clean = work[t].clean
    PROVE  stage'[t] = "projecting" =>
              /\ IsList(todo'[t])
              /\ work'[t].clean /\ Legible(files)' =>
                    \A n \in 1..turn'[t] :
                        \/ Event(t, n) \in DOMAIN files'.manifest
                        \/ \E i \in DOMAIN todo'[t] : todo'[t][i] = n
BY DEF PromotedInv, StoreSteps, Grown

\* An event leaves the list when it is in the manifest or its append has failed.
LEMMA PromotedTail ==
    ASSUME FormInv, PromotedInv, StoreSteps, NEW s \in Sessions,
           stage[s] = "projecting", todo[s] # <<>>,
           turn' = turn, todo'[s] = Tail(todo[s]),
           work'[s].clean => work[s].clean /\ Event(s, Head(todo[s])) \in DOMAIN files.manifest
    PROVE  /\ IsList(todo'[s])
           /\ work'[s].clean /\ Legible(files)' =>
                 \A n \in 1..turn'[s] :
                     \/ Event(s, n) \in DOMAIN files'.manifest
                     \/ \E i \in DOMAIN todo'[s] : todo'[s][i] = n
<1>1. IsList(todo[s])
  BY DEF PromotedInv
<1>2. /\ IsList(Tail(todo[s]))
      /\ \A i \in DOMAIN todo[s] :
            todo[s][i] = Head(todo[s]) \/ \E j \in DOMAIN Tail(todo[s]) : Tail(todo[s])[j] = todo[s][i]
  BY <1>1, ListShrinks
<1>3. ASSUME work'[s].clean, Legible(files)', NEW n \in 1..turn[s]
      PROVE  \/ Event(s, n) \in DOMAIN files'.manifest
             \/ \E i \in DOMAIN Tail(todo[s]) : Tail(todo[s])[i] = n
  <2>1. Event(s, n) \in DOMAIN files.manifest \/ \E i \in DOMAIN todo[s] : todo[s][i] = n
    BY <1>3 DEF PromotedInv, StoreSteps, Grown
  <2>2. CASE Event(s, n) \in DOMAIN files.manifest
    BY <1>3, <2>2 DEF StoreSteps, Grown
  <2>3. ASSUME NEW i \in DOMAIN todo[s], todo[s][i] = n, n = Head(todo[s])
        PROVE  Event(s, n) \in DOMAIN files'.manifest
    BY <1>3, <2>3 DEF StoreSteps, Grown
  <2>4. ASSUME NEW i \in DOMAIN todo[s], todo[s][i] = n, n # Head(todo[s])
        PROVE  \E j \in DOMAIN Tail(todo[s]) : Tail(todo[s])[j] = n
    BY <1>2, <2>4
  <2>5. QED
    BY <2>1, <2>2, <2>3, <2>4
<1>4. QED
  BY <1>2, <1>3

\* Each event of the session is to do after a commit.
LEMMA AllToDo ==
    ASSUME NEW s \in Sessions, turn[s] \in Nat
    PROVE  /\ IsList(Unprojected(s))
           /\ \A n \in 1..turn[s] + 1 : \E i \in DOMAIN Unprojected(s) : Unprojected(s)[i] = n
<1>1. Unprojected(s) \in Seq(Nat)
  BY DEF Unprojected
<1>2. QED
  BY <1>1, ListMade DEF Unprojected

LEMMA PromotedKept ==
    ASSUME FormInv, FilesInv, WriteInv, PromotedInv, StoreSteps, [Next]_vars
    PROVE  PromotedInv'
<1> DEFINE Same(t) ==
             stage'[t] = "projecting" =>
                /\ stage[t] = "projecting" /\ turn'[t] = turn[t] /\ todo'[t] = todo[t]
                /\ work'[t].clean = work[t].clean
           Good(t) ==
             stage'[t] = "projecting" =>
                /\ IsList(todo'[t])
                /\ work'[t].clean /\ Legible(files)' =>
                      \A n \in 1..turn'[t] :
                          \/ Event(t, n) \in DOMAIN files'.manifest
                          \/ \E i \in DOMAIN todo'[t] : todo'[t][i] = n
<1>1. \A t \in Sessions : Same(t) => Good(t)
  BY PromotedStays
<1>2. (\A t \in Sessions : Good(t)) => PromotedInv'
  BY DEF PromotedInv
<1>3. CASE UNCHANGED vars
  <2>1. \A t \in Sessions : Same(t)
    BY <1>3 DEF vars
  <2>2. QED
    BY <1>1, <1>2, <2>1
<1>4. ASSUME NEW torn, Crash(torn)
      PROVE  PromotedInv'
  <2>1. \A t \in Sessions : Same(t)
    BY <1>4 DEF Crash
  <2>2. QED
    BY <1>1, <1>2, <2>1
<1>5. ASSUME NEW s \in Sessions, Acts(s)
      PROVE  PromotedInv'
  <2> USE DEF FormInv
  <2>1. ASSUME NEW where, NEW knowers, Commit(s, where, knowers)
        PROVE  (\A t \in Sessions \ {s} : Same(t)) /\ Good(s)
    <3>1. \A t \in Sessions \ {s} : Same(t)
      BY <2>1 DEF Commit, Durable
    <3>2. turn[s] \in Nat /\ turn'[s] = turn[s] + 1 /\ todo'[s] = Unprojected(s)
      BY <2>1 DEF Commit, Durable
    <3>3. QED
      BY <3>1, <3>2, AllToDo
  <2>2. ASSUME ProjectNext(s)
        PROVE  (\A t \in Sessions \ {s} : Same(t)) /\ Good(s)
    <3> DEFINE record == Occurrence(Event(s, Head(todo[s])), Head(todo[s]))
    <3>1. record.id = Event(s, Head(todo[s]))
      BY DEF Occurrence
    <3>2. /\ stage' = stage /\ turn' = turn /\ work' = work
          /\ stage[s] = "projecting" /\ todo[s] # <<>>
      BY <2>2 DEF ProjectNext, NextUp, turnVars
    <3>3. CASE Known(files, record.id)
      <4>1. todo' = [todo EXCEPT ![s] = Tail(@)]
        BY <2>2, <3>3 DEF ProjectNext
      <4>2. Event(s, Head(todo[s])) \in DOMAIN files.manifest
        BY <3>1, <3>3 DEF Known
      <4>3. \A t \in Sessions \ {s} : Same(t)
        BY <3>2, <4>1
      <4>4. Good(s)
        BY <3>2, <4>1, <4>2, PromotedTail
      <4>5. QED
        BY <4>3, <4>4
    <3>4. CASE ~Known(files, record.id)
      <4>1. todo' = todo
        BY <2>2, <3>4 DEF ProjectNext
      <4>2. \A t \in Sessions : Same(t)
        BY <3>2, <4>1
      <4>3. QED
        BY <1>1, <4>2
    <3>5. QED
      BY <3>3, <3>4
  <2>3. ASSUME NEW saved \in BOOLEAN, Appended(s, saved)
        PROVE  (\A t \in Sessions \ {s} : Same(t)) /\ Good(s)
    <3>1. /\ stage' = stage /\ turn' = turn /\ todo' = [todo EXCEPT ![s] = Tail(@)]
          /\ writing[s].step = "listed"
          /\ \A t \in Sessions \ {s} : work'[t] = work[t]
      BY <2>3 DEF Appended, Reported, turnVars
    <3>2. \A t \in Sessions \ {s} : Same(t)
      BY <3>1
    <3>3. CASE stage[s] # "projecting"
      BY <3>1, <3>2, <3>3
    <3>4. CASE stage[s] = "projecting"
      <4>1. work' = work
        BY <2>3, <3>4 DEF Appended, Reported
      <4>2. todo[s] # <<>> /\ Event(s, Head(todo[s])) \in DOMAIN files.manifest
        BY <3>1, <3>4 DEF WriteInv, RecordOK, JobOK
      <4>3. QED
        BY <3>1, <3>2, <3>4, <4>1, <4>2, PromotedTail
    <3>5. QED
      BY <3>3, <3>4
  <2>4. ASSUME AppendFails(s)
        PROVE  (\A t \in Sessions \ {s} : Same(t)) /\ Good(s)
    <3>1. CASE stage[s] = "projecting"
      <4>1. /\ stage' = stage /\ turn' = turn /\ todo' = [todo EXCEPT ![s] = Tail(@)]
            /\ \A t \in Sessions \ {s} : work'[t] = work[t]
            /\ work'[s].clean = FALSE /\ writing[s].step # "none"
        BY <2>4, <3>1 DEF AppendFails, turnVars, WorkFields
      <4>2. todo[s] # <<>>
        BY <3>1, <4>1 DEF WriteInv, RecordOK
      <4>3. \A t \in Sessions \ {s} : Same(t)
        BY <4>1
      <4>4. Good(s)
        BY <3>1, <4>1, <4>2, PromotedTail
      <4>5. QED
        BY <4>3, <4>4
    <3>2. CASE stage[s] # "projecting"
      <4>1. /\ stage'[s] = "told" /\ turn' = turn /\ work' = work
            /\ \A t \in Sessions \ {s} : stage'[t] = stage[t] /\ todo'[t] = todo[t]
        BY <2>4, <3>2 DEF AppendFails, GiveUp, Tell, turnVars
      <4>2. QED
        BY <4>1
    <3>3. QED
      BY <3>1, <3>2
  <2>5. ASSUME \/ Projected(s) \/ LineGoesOut(s) \/ ManifestGoesOut(s)
               \/ (\E answer : Assess(s, answer)) \/ Mediate(s) \/ Finalize(s) \/ Established(s)
               \/ Narrated(s) \/ CognitionFails(s) \/ EstablishedUnsaved(s)
               \/ \E viewer, met : Recall(s, viewer, met)
        PROVE  \A t \in Sessions : Same(t)
    BY <2>5 DEF Projected, LineGoesOut, ManifestGoesOut, Assess, Mediate, Finalize, Established,
       Narrated, CognitionFails, EstablishedUnsaved, Recall, Tell, turnVars
  <2>6. ASSUME Decide(s)
        PROVE  \A t \in Sessions : Same(t)
    <3>1. stage' = stage /\ stage[s] = "establishing" /\ turn' = turn
          /\ \A t \in Sessions \ {s} : todo'[t] = todo[t] /\ work'[t] = work[t]
      BY <2>6 DEF Decide, turnVars
    <3>2. QED
      BY <3>1
  <2>7. (\A t \in Sessions : Same(t)) => PromotedInv'
    BY <1>1, <1>2
  <2>8. (\A t \in Sessions \ {s} : Same(t)) /\ Good(s) => PromotedInv'
    BY <1>1, <1>2
  <2>9. ASSUME \/ (\E where, knowers : CommitUnprojected(s, where, knowers))
               \/ IndexUnreadable(s) \/ ListingFails(s)
        PROVE  \A t \in Sessions : Same(t)
    BY <2>9 DEF CommitUnprojected, Durable, IndexUnreadable, ListingFails, GiveUp, Tell, turnVars
  <2>10. ASSUME ProjectionSkips(s)
         PROVE  (\A t \in Sessions \ {s} : Same(t)) /\ Good(s)
    <3>1. /\ stage' = stage /\ turn' = turn /\ todo' = [todo EXCEPT ![s] = Tail(@)]
          /\ \A t \in Sessions \ {s} : work'[t] = work[t]
          /\ work'[s].clean = FALSE /\ stage[s] = "projecting" /\ todo[s] # <<>>
      BY <2>10 DEF ProjectionSkips, NextUp, turnVars, WorkFields
    <3>2. \A t \in Sessions \ {s} : Same(t)
      BY <3>1
    <3>3. Good(s)
      BY <3>1, PromotedTail
    <3>4. QED
      BY <3>2, <3>3
  <2> HIDE DEF Same, Good
  <2>11. QED
    BY <1>5, <2>1, <2>2, <2>3, <2>4, <2>5, <2>6, <2>7, <2>8, <2>9, <2>10
       DEF Acts, Goes, Fault, VectorGoesOut, VectorFails
<1>6. QED
  BY <1>3, <1>4, <1>5 DEF Next, Acts

-----------------------------------------------------------------------------
(* The story keeps what it was told *)

LEMMA StoreInitially == Init => StoreInv
<1>1. Init => FilesInv
  <2>1. IsList(<<>>) /\ Len(<<>>) = 0
    BY DEF IsList
  <2>2. QED
    BY <2>1 DEF Init, FilesInv, NoFiles, NoEntries
<1>2. Init => WriteInv /\ AcceptedInv /\ PromotedInv
  BY DEF Init, WriteInv, AcceptedInv, PromotedInv, NotWriting
<1>3. QED
  BY <1>1, <1>2, FormInitially DEF StoreInv

LEMMA StoreStep ==
    ASSUME StoreInv, NoOverlap, NoOverlap', [Next]_vars
    PROVE  StoreInv' /\ StoreSteps
<1>1. FormInv'
  BY FormKept DEF StoreInv
<1>2. StoreSteps
  BY FilesKept DEF StoreInv
<1>3. AcceptedInv'
  BY <1>2, AcceptedKept DEF StoreInv
<1>4. PromotedInv'
  BY <1>2, PromotedKept DEF StoreInv
<1>5. QED
  BY <1>1, <1>2, <1>3, <1>4 DEF StoreInv, StoreSteps

\* Of what can be read there is finitely much.
LEMMA ListedFinite ==
    ASSUME FilesInv
    PROVE  IsFiniteSet(Listed(files))
<1> DEFINE D == DOMAIN files.lines
           R == {files.lines[n] : n \in D}
<1>1. Len(files.lines) \in Nat /\ D = 1..Len(files.lines)
  BY ListAppended DEF FilesInv
<1>2. IsFiniteSet(D)
  BY <1>1, FS_Interval
<1> DEFINE f == [n \in D |-> files.lines[n]]
<1>3. f \in Surjection(D, R)
  BY DEF Surjection
<1>4. IsFiniteSet(R)
  <2> HIDE DEF D, R, f
  <2>1. QED
    BY <1>2, <1>3, FS_Surjection
<1>5. Listed(files) \subseteq R
  BY DEF Listed
<1>6. QED
  BY <1>4, <1>5, FS_Subset

\* A property that can be read back is superseded, contradicted, or what the
\* place shows.
LEMMA ReadBackStands ==
    ASSUME FilesInv, NEW r \in Derived(files), NEW location \in r.refs
    PROVE  \/ Contested(files, location, r.key)
           \/ \E b \in DescriptorsAt(files, location) : b.supersedes = r.id
           \/ Effective(files, location, r.key) = {r.value}
<1> DEFINE values == StoryValues(files, location, r.key)
<1> SUFFICES ASSUME ~Contested(files, location, r.key),
                    \A b \in DescriptorsAt(files, location) : b.supersedes # r.id
             PROVE  Effective(files, location, r.key) = {r.value}
  OBVIOUS
<1>1. r \in Active(files, location, r.key)
  BY DEF Active, StoryOf, DescriptorsAt
<1>2. r.value \in values
  BY <1>1 DEF StoryValues
<1>3. IsFiniteSet(values)
  <2>1. Active(files, location, r.key) \subseteq Listed(files)
    BY DEF Active, StoryOf, DescriptorsAt, Derived
  <2>2. IsFiniteSet(Active(files, location, r.key))
    BY <2>1, ListedFinite, FS_Subset
  <2> DEFINE A == Active(files, location, r.key)
  <2> HIDE DEF A
  <2>3. IsFiniteSet(A)
    BY <2>2 DEF A
  <2> DEFINE T == {d.value : d \in A}
             f == [d \in A |-> d.value]
  <2>4. f \in Surjection(A, T)
    BY DEF Surjection
  <2>5. IsFiniteSet(T)
    <3> HIDE DEF T, f
    <3>1. QED
      BY <2>3, <2>4, FS_Surjection
  <2>6. QED
    BY <2>5 DEF A, StoryValues
<1>4. ~(Cardinality(values) > 1)
  BY DEF Contested
<1>5. Cardinality(values) = 1 /\ values = {r.value}
  <2> HIDE DEF values
  <2>1. Cardinality(values) \in Nat /\ Cardinality(values) # 0
    BY <1>2, <1>3, FS_CardinalityType, FS_EmptySet
  <2>2. Cardinality(values) = 1
    BY <1>4, <2>1
  <2>3. \E x : values = {x}
    BY <1>3, <2>2, FS_Singleton
  <2>4. QED
    BY <1>2, <2>2, <2>3
<1>6. QED
  BY <1>5 DEF Effective

LEMMA AcceptedStand ==
    ASSUME StoreInv
    PROVE  AcceptedStands
<1>1. \A a \in accepted : Written(a.record) /\ (Legible(files) => a.record \in Derived(files))
  BY DEF StoreInv, AcceptedInv
<1>2. \A record : Written(record) => record \in Range(files.lines)
  BY DEF Written, Range
<1>3. \A record \in Derived(files) : Stands(record)
  BY ReadBackStands DEF StoreInv, Stands
<1>4. QED
  BY <1>1, <1>2, <1>3 DEF AcceptedStands

\* Only the end of the projection leaves it without a crash.
LEMMA ProjectionEnds ==
    ASSUME StoreInv, [Next]_vars, NEW s \in Sessions,
           stage[s] = "projecting", stage'[s] # "projecting", crashes' = crashes
    PROVE  todo[s] = <<>> /\ files' = files
<1>1. CASE UNCHANGED vars
  BY <1>1 DEF vars
<1>2. ASSUME NEW torn, Crash(torn)
      PROVE  FALSE
  BY <1>2 DEF Crash, StoreInv, FormInv
<1>3. ASSUME NEW t \in Sessions, Acts(t), ~Projected(t) \/ t # s
      PROVE  FALSE
  <2>1. DOMAIN stage = Sessions
    BY DEF StoreInv, FormInv
  <2>2. stage'[s] = stage[s]
    BY <1>3, <2>1 DEF Acts, Goes, Fault, VectorGoesOut, VectorFails, Commit, CommitUnprojected,
       Durable, ProjectNext, ProjectionSkips, Projected, LineGoesOut, ManifestGoesOut,
       IndexUnreadable, Appended, ListingFails, Assess, Mediate, Finalize, Decide, Tell, GiveUp,
       Established, Narrated, AppendFails, CognitionFails, EstablishedUnsaved, Recall
  <2>3. QED
    BY <2>2
<1>4. CASE Projected(s)
  BY <1>4 DEF Projected, storeVars
<1>5. QED
  BY <1>1, <1>2, <1>3, <1>4 DEF Next, Acts

LEMMA PromotionCatches ==
    ASSUME StoreInv, [Next]_vars, NEW s \in Sessions,
           stage[s] = "projecting", stage'[s] # "projecting", crashes' = crashes, work[s].clean,
           Legible(files)'
    PROVE  \A n \in 1..turn[s] : Event(s, n) \in {r.id : r \in Listed(files)'}
<1>1. todo[s] = <<>> /\ files' = files
  BY ProjectionEnds
<1>2. \A n \in 1..turn[s] : Event(s, n) \in DOMAIN files.manifest
  BY <1>1 DEF StoreInv, PromotedInv, Legible
<1>3. \A id \in DOMAIN files.manifest : \E r \in Listed(files) : r.id = id
  BY EntriesAreListed DEF StoreInv, FilesInv
<1>4. Listed(files)' = Listed(files)
  BY <1>1 DEF Listed
<1>5. QED
  BY <1>2, <1>3, <1>4

\* A property the Host reported as established is what its place shows, until a
\* later record supersedes or contradicts it, or a torn manifest makes every
\* listing raise; its line stays in the records file whatever happens.  While no
\* two appends overlap this survives every crash and every failed write, cut
\* short or not, of whichever scene: no later append starts the files afresh.
THEOREM EstablishedStands == Spec /\ []NoOverlap => []AcceptedStands
<1>1. Init => StoreInv
  BY StoreInitially
<1>2. StoreInv /\ NoOverlap /\ NoOverlap' /\ [Next]_vars => StoreInv'
  BY StoreStep
<1>3. StoreInv => AcceptedStands
  BY AcceptedStand
<1>4. QED
  BY <1>1, <1>2, <1>3, PTL DEF Spec

\* While no two appends overlap, a projection that meets no error leaves every
\* event of its session listed, those included that an earlier turn failed to
\* project or a crash cut off, unless the manifest was torn meanwhile.
THEOREM ProjectionCatchesUp == Spec /\ []NoOverlap => PromotionCatchesUp
<1>1. Init => StoreInv
  BY StoreInitially
<1>2. StoreInv /\ NoOverlap /\ NoOverlap' /\ [Next]_vars => StoreInv'
  BY StoreStep
<1>3. StoreInv /\ [Next]_vars =>
        [\A s \in Sessions :
           stage[s] = "projecting" /\ stage'[s] # "projecting" /\ crashes' = crashes /\ work[s].clean =>
              \/ ~Legible(files)'
              \/ \A n \in 1..turn[s] : Event(s, n) \in {r.id : r \in Listed(files)'}]_vars
  BY PromotionCatches
<1>4. QED
  BY <1>1, <1>2, <1>3, PTL DEF Spec, PromotionCatchesUp

\* A scene alone in its memory scope has nobody to overlap with.
COROLLARY OneSceneKeeps ==
    ASSUME \A s, t \in Sessions : s = t
    PROVE  Spec => []AcceptedStands /\ PromotionCatchesUp
<1>1. NoOverlap
  BY DEF NoOverlap
<1>2. QED
  BY <1>1, EstablishedStands, ProjectionCatchesUp, PTL
==============================================================================

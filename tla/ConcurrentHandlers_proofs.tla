---------------------- MODULE ConcurrentHandlers_proofs ----------------------
(***************************************************************************)
(* What was answered as done stays in the session's file, and a            *)
(* finalization is told once, for any number of finalizations, requests,   *)
(* refused saves and crashes, as long as no two threads open the session   *)
(* and no handler saves it in the middle of another.  Then there is one    *)
(* session, one thread at a time saves or undoes, and a handler undoes     *)
(* only what it added and did not tell.                                    *)
(***************************************************************************)
EXTENDS ConcurrentHandlers, FiniteSetTheorems, TLAPS

\* Nothing has crossed that could take what was answered as done.
Quiet == crossed \cap {"opens", "saves"} = {}

AtWork == {"begin", "apply", "record", "build", "write", "undo"}

\* The lock is held by the lane that is at work, and only lanes finalize.
LockInv ==
    /\ \A t \in Lanes : task[t].at \notin {"idle", "lock"} <=> lock = t
    /\ \A t \in Threads : task[t].at # "idle" =>
           /\ task[t].id \in Commits
           /\ task[t].kind = "finalize" <=> t \in Lanes
    /\ \A t \in Threads : task[t].at \in AtWork => task[t].session \in DOMAIN sessions
    /\ task["round"].at # "lock"

\* There is one session since the host was started, made from the file there is.
OneSession ==
    /\ cache = 0 => sessions = <<>>
    /\ cache # 0 => cache = 1 /\ Len(sessions) = 1
    /\ \A t \in Threads : task[t].at \in AtWork => cache = 1 /\ task[t].session = 1
    /\ \A t \in Threads : task[t].at = "install" /\ cache = 0 => task[t].payload = file

\* One thread at a time saves or undoes.
OneSaves ==
    \A t, o \in Threads :
        task[t].at \in {"write", "undo"} /\ task[o].at \in {"write", "undo"} => t = o

Entries(s) == {s[i] : i \in DOMAIN s}

\* A content holds what was answered as done.
Holds(content) ==
    told.commits \subseteq content.commits /\ Entries(told.audits) \subseteq Entries(content.audits)

\* The file, the session and what is about to be saved hold it.
Kept ==
    /\ file # Garbled /\ Holds(file)
    /\ cache = 1 => Holds(sessions[1].content)
    /\ \A t \in Threads : task[t].at = "write" => Holds(task[t].payload)

\* What a handler is about to add was not told, is in the session when it was
\* recorded, and in what is saved; what it would restore was told.
Adds(t, now) ==
    /\ t \in Lanes /\ now.at \in AtWork \ {"begin"} => now.id \notin Entries(told.audits)
    /\ t \in Lanes /\ now.at \in {"build", "write", "undo"} =>
          LET audits == sessions[1].content.audits
          IN  audits # <<>> /\ audits[Len(audits)] = now.id
    /\ t \in Lanes /\ now.at = "write" => now.id \in Entries(now.payload.audits)
    /\ t = "round" /\ now.at \in AtWork \ {"begin"} => told.commits \subseteq now.snapshot.commits
    /\ t = "round" /\ now.kind = "commit" /\ now.at \in {"build", "write"} =>
          now.id \in sessions[1].content.commits
    /\ t = "round" /\ now.kind = "commit" /\ now.at = "write" => now.id \in now.payload.commits

ToldOnce == \A i, j \in DOMAIN told.audits : told.audits[i] = told.audits[j] => i = j

\* What nothing that crosses disturbs.
Core == OneSession /\ OneSaves /\ Kept /\ (\A t \in Threads : Adds(t, task[t])) /\ ToldOnce

QuietInv == Quiet => Core

HandlersInv == TypeOK /\ LockInv /\ QuietInv

-----------------------------------------------------------------------------
(* Threads, contents and sessions *)

LEMMA NewTyped == New \in Contents /\ New.commits = {} /\ New.audits = <<>>
BY DEF New, Contents, Managers

LEMMA IdleTyped == Idle \in Tasks /\ Idle.at = "idle"
BY NewTyped, HandlersAssumption DEF Idle, Tasks, Phases

LEMMA ThreadGoes ==
    ASSUME TypeOK, NEW t \in Threads, NEW now \in Tasks, Goes(t, now)
    PROVE  /\ task' \in [Threads -> Tasks] /\ task'[t] = now
           /\ \A o \in Threads \ {t} : task'[o] = task[o]
BY DEF TypeOK, Goes

LEMMA ContentTyped ==
    ASSUME TypeOK, LockInv, NEW t \in Threads, task[t].at \in AtWork
    PROVE  /\ task[t].session \in DOMAIN sessions /\ sessions[task[t].session] \in LiveSessions
           /\ Content(t) \in Contents /\ Content(t).manager \in Managers /\ task[t] \in Tasks
<1>1. task[t].session \in DOMAIN sessions /\ sessions \in Seq(LiveSessions) /\ task[t] \in Tasks
  BY DEF LockInv, TypeOK
<1>2. sessions[task[t].session] \in LiveSessions
  BY <1>1
<1>3. QED
  BY <1>1, <1>2 DEF Content, LiveSessions, Contents

\* A session that is given another content is what it was otherwise, and the others
\* are as they were.
LEMMA ContentBecomes ==
    ASSUME TypeOK, LockInv, NEW t \in Threads, task[t].at \in AtWork, NEW content \in Contents,
           Becomes(t, content)
    PROVE  /\ sessions' \in Seq(LiveSessions) /\ Len(sessions') = Len(sessions)
           /\ sessions'[task[t].session].content = content
<1> DEFINE k == task[t].session
           one == [sessions[k] EXCEPT !.content = content]
<1>1. k \in DOMAIN sessions /\ sessions[k] \in LiveSessions /\ sessions \in Seq(LiveSessions)
  BY ContentTyped DEF TypeOK
<1>2. sessions' = [sessions EXCEPT ![k] = one]
  BY DEF Becomes
<1>3. one \in LiveSessions /\ one.content = content
  BY <1>1 DEF LiveSessions
<1> HIDE DEF one, k
<1>4. QED
  BY <1>1, <1>2, <1>3 DEF k

\* What is applied leaves the commits and the audits.
LEMMA ManagedTyped ==
    ASSUME TypeOK, LockInv, NEW t \in Threads, task[t].at = "apply", NEW manager \in Managed(t)
    PROVE  manager \in Managers
<1>1. Content(t).manager \in Managers /\ task[t].id \in Commits
  BY ContentTyped DEF AtWork, LockInv
<1> DEFINE before == Content(t).manager
<1>2. before \in Managers
  BY <1>1
<1> HIDE DEF before
<1>3. /\ [before EXCEPT !.turn = @ + 1] \in Managers
      /\ [before EXCEPT !.issues = @ \cup {task[t].id}] \in Managers
  BY <1>1, <1>2 DEF Managers
<1>4. TurnProcessed(t) \in Managers
  BY <1>2, <1>3 DEF TurnProcessed, before
<1>5. CASE task[t].kind = "commit"
  BY <1>4, <1>5 DEF Managed
<1>6. CASE task[t].kind = "finalize"
  BY <1>2, <1>3, <1>6 DEF Managed, before
<1>7. CASE task[t].kind # "commit" /\ task[t].kind # "finalize"
  <2>1. Managed(t) = {Content(t).manager}
    BY <1>7 DEF Managed
  <2>2. QED
    BY <1>1, <2>1
<1>8. QED
  BY <1>5, <1>6, <1>7

\* What is recorded: a commit's id, an audit, or neither.
LEMMA RecordedDoes ==
    ASSUME TypeOK, LockInv, NEW t \in Threads, task[t].at = "record"
    PROVE  /\ Recorded(t) \in Contents
           /\ IF task[t].kind = "commit"
              THEN Recorded(t).commits = Content(t).commits \cup {task[t].id}
              ELSE Recorded(t).commits = Content(t).commits
           /\ IF task[t].kind = "finalize"
              THEN Recorded(t).audits = Append(Content(t).audits, task[t].id)
              ELSE Recorded(t).audits = Content(t).audits
<1> DEFINE now == Content(t)
           id == task[t].id
<1>1. now \in Contents /\ id \in Commits
  BY ContentTyped DEF AtWork, LockInv
<1>2. CASE task[t].kind = "commit"
  <2>1. Recorded(t) = [now EXCEPT !.commits = @ \cup {id}]
    BY <1>2 DEF Recorded
  <2> HIDE DEF now, id
  <2>2. QED
    BY <1>1, <1>2, <2>1 DEF Contents, now, id
<1>3. CASE task[t].kind = "finalize"
  <2>1. Recorded(t) = [now EXCEPT !.audits = Append(@, id)]
    BY <1>3 DEF Recorded
  <2> HIDE DEF now, id
  <2>2. QED
    BY <1>1, <1>3, <2>1 DEF Contents, now, id
<1>4. CASE task[t].kind # "commit" /\ task[t].kind # "finalize"
  <2>1. Recorded(t) = [now EXCEPT !.posts = @ + 1]
    BY <1>4 DEF Recorded
  <2> HIDE DEF now, id
  <2>2. QED
    BY <1>1, <1>4, <2>1 DEF Contents, now, id
<1>5. QED
  BY <1>2, <1>3, <1>4

\* What is undone: a move's ids become those it found, a finalization drops the last
\* audit, the rest stays.
LEMMA UndoneDoes ==
    ASSUME TypeOK, LockInv, NEW t \in Threads, task[t].at = "undo"
    PROVE  /\ Undone(t) \in Contents
           /\ IF task[t].kind = "commit"
              THEN Undone(t).commits = task[t].snapshot.commits
              ELSE Undone(t).commits = Content(t).commits
           /\ IF task[t].kind = "finalize" /\ Content(t).audits # <<>>
              THEN Undone(t).audits = SubSeq(Content(t).audits, 1, Len(Content(t).audits) - 1)
              ELSE Undone(t).audits = Content(t).audits
<1> DEFINE now == Content(t)
           back == task[t].snapshot
           manager == back.manager
           commits == back.commits
           audits == IF now.audits = <<>> THEN now.audits
                     ELSE SubSeq(now.audits, 1, Len(now.audits) - 1)
<1>1. now \in Contents /\ back \in Contents
  BY ContentTyped DEF AtWork, Tasks
<1>2. manager \in Managers /\ commits \subseteq Commits /\ now.audits \in Seq(Commits)
  BY <1>1 DEF Contents
<1>3. audits \in Seq(Commits)
  BY <1>2
<1>4. CASE task[t].kind = "commit"
  <2>1. Undone(t) = [now EXCEPT !.manager = manager, !.commits = commits]
    BY <1>4 DEF Undone
  <2> HIDE DEF now, manager, commits, audits
  <2>2. QED
    BY <1>1, <1>2, <1>4, <2>1 DEF Contents, now, commits
<1>5. CASE task[t].kind = "finalize"
  <2>1. Undone(t) = [now EXCEPT !.manager = manager, !.audits = audits]
    BY <1>1, <1>5 DEF Undone, Contents
  <2> HIDE DEF now, manager, commits, audits
  <2>2. /\ Undone(t) \in Contents /\ Undone(t).commits = now.commits /\ Undone(t).audits = audits
    BY <1>1, <1>2, <1>3, <2>1 DEF Contents
  <2>3. QED
    BY <1>5, <2>2 DEF now, audits
<1>6. CASE task[t].kind = "post"
  <2> DEFINE posts == IF now.posts = 0 THEN 0 ELSE now.posts - 1
  <2>1. Undone(t) = [now EXCEPT !.posts = posts]
    BY <1>1, <1>6 DEF Undone, Contents
  <2>2. posts \in Nat
    BY <1>1 DEF Contents
  <2> HIDE DEF now, manager, commits, audits, posts
  <2>3. QED
    BY <1>1, <1>6, <2>1, <2>2 DEF Contents, now
<1>7. CASE task[t].kind \notin {"commit", "finalize", "post"}
  <2>1. Undone(t) = now
    BY <1>7 DEF Undone
  <2>2. QED
    BY <1>1, <1>7, <2>1
<1>8. QED
  BY <1>4, <1>5, <1>6, <1>7
-----------------------------------------------------------------------------
(* What each step of a handler does *)

\* A handler goes on with the request it has.
Same(t, now) ==
    /\ now.kind = task[t].kind /\ now.id = task[t].id /\ now.session = task[t].session
    /\ now.snapshot = task[t].snapshot

LEMMA AcquireDoes ==
    ASSUME TypeOK, LockInv, NEW t \in Threads, Acquire(t)
    PROVE  /\ t \in Lanes /\ lock = "free" /\ lock' = t
           /\ \E now \in Tasks : Goes(t, now) /\ now.at = "open" /\ Same(t, now)
<1>1. t \in Lanes /\ lock = "free" /\ lock' = t
  BY DEF Acquire, LockFree, LockInv, Threads
<1>2. task[t] \in Tasks
  BY DEF TypeOK
<1> DEFINE now == [task[t] EXCEPT !.at = "open"]
<1>3. now \in Tasks /\ now.at = "open" /\ Same(t, now)
  BY <1>2 DEF Tasks, Phases, Same
<1>4. Goes(t, now)
  BY DEF Acquire
<1>5. QED
  BY <1>1, <1>3, <1>4

LEMMA OpenDoes ==
    ASSUME TypeOK, LockInv, NEW t \in Threads, Open(t)
    PROVE  \E now \in Tasks :
             /\ Goes(t, now)
             /\ \/ now = Idle /\ LockLeft(t)
                \/ /\ now.at = "begin" /\ cache # 0 /\ now.session = cache
                   /\ now.kind = task[t].kind /\ now.id = task[t].id /\ lock' = lock
                \/ /\ now.at = "install" /\ cache = 0 /\ file # Garbled /\ now.payload = file
                   /\ now.kind = task[t].kind /\ now.id = task[t].id /\ lock' = lock
<1>1. task[t] \in Tasks /\ cache \in Nat /\ file \in Contents \cup {Garbled}
  BY DEF TypeOK
<1>2. CASE cache # 0
  <2> DEFINE now == [task[t] EXCEPT !.at = "begin", !.session = cache]
  <2>1. /\ now \in Tasks /\ now.at = "begin" /\ now.session = cache
        /\ now.kind = task[t].kind /\ now.id = task[t].id
    BY <1>1 DEF Tasks, Phases
  <2>2. Goes(t, now) /\ lock' = lock
    BY <1>2 DEF Open
  <2> HIDE DEF now
  <2>3. QED
    BY <1>2, <2>1, <2>2
<1>3. CASE cache = 0 /\ file = Garbled
  BY <1>3, IdleTyped DEF Open, Ends
<1>4. CASE cache = 0 /\ file # Garbled
  <2> DEFINE now == [task[t] EXCEPT !.at = "install", !.payload = file]
  <2>1. /\ now \in Tasks /\ now.at = "install" /\ now.payload = file
        /\ now.kind = task[t].kind /\ now.id = task[t].id
    BY <1>1, <1>4 DEF Tasks, Phases
  <2>2. Goes(t, now) /\ lock' = lock
    BY <1>4 DEF Open
  <2> HIDE DEF now
  <2>3. QED
    BY <1>4, <2>1, <2>2
<1>5. QED
  BY <1>2, <1>3, <1>4

LEMMA InstallDoes ==
    ASSUME TypeOK, LockInv, NEW t \in Threads, Install(t)
    PROVE  /\ sessions' \in Seq(LiveSessions) /\ Len(sessions') = Len(sessions) + 1
           /\ cache' = Len(sessions') /\ sessions'[cache'].content = task[t].payload
           /\ \E now \in Tasks :
                 /\ Goes(t, now) /\ now.at = "begin" /\ now.session = cache'
                 /\ now.kind = task[t].kind /\ now.id = task[t].id /\ lock' = lock
<1> DEFINE one == [content |-> task[t].payload, started |-> FALSE, made |-> 0]
           now == [task[t] EXCEPT !.at = "begin", !.session = cache', !.payload = New]
<1>1. task[t] \in Tasks /\ sessions \in Seq(LiveSessions)
  BY DEF TypeOK
<1>2. one \in LiveSessions /\ one.content = task[t].payload
  BY <1>1 DEF Tasks, LiveSessions
<1>3. sessions' = Append(sessions, one) /\ cache' = Len(sessions') /\ Goes(t, now) /\ lock' = lock
  BY DEF Install
<1> HIDE DEF one
<1>4. /\ sessions' \in Seq(LiveSessions) /\ Len(sessions') = Len(sessions) + 1
      /\ sessions'[Len(sessions) + 1] = one
  BY <1>1, <1>2, <1>3
<1>5. cache' \in Nat
  BY <1>1, <1>3, <1>4
<1>6. /\ now \in Tasks /\ now.at = "begin" /\ now.session = cache'
      /\ now.kind = task[t].kind /\ now.id = task[t].id
  BY <1>1, <1>5, NewTyped DEF Tasks, Phases
<1> HIDE DEF now
<1>7. QED
  BY <1>2, <1>3, <1>4, <1>6

LEMMA BeginDoes ==
    ASSUME TypeOK, LockInv, NEW t \in Threads, Begin(t)
    PROVE  /\ sessions' \in Seq(LiveSessions) /\ Len(sessions') = Len(sessions)
           /\ \A k \in DOMAIN sessions : sessions'[k].content = sessions[k].content
           /\ \E now \in Tasks :
                 /\ Goes(t, now)
                 /\ \/ now = Idle /\ LockLeft(t)
                    \/ /\ now.at = "apply" /\ now.snapshot = Content(t) /\ lock' = lock
                       /\ now.kind = task[t].kind /\ now.id = task[t].id
                       /\ now.session = task[t].session
                       /\ task[t].kind = "finalize" => ~Terminal(t)
<1>1. /\ task[t].session \in DOMAIN sessions /\ sessions[task[t].session] \in LiveSessions
      /\ Content(t) \in Contents /\ task[t] \in Tasks /\ sessions \in Seq(LiveSessions)
  BY ContentTyped DEF Begin, AtWork, TypeOK
<1>2. /\ sessions' \in Seq(LiveSessions) /\ Len(sessions') = Len(sessions)
      /\ \A k \in DOMAIN sessions : sessions'[k].content = sessions[k].content
  <2>1. CASE task[t].kind = "start"
    <3> DEFINE k == task[t].session
               one == [sessions[k] EXCEPT !.started = TRUE]
    <3>1. sessions' = [sessions EXCEPT ![k] = one]
      BY <2>1 DEF Begin
    <3>2. one \in LiveSessions /\ one.content = sessions[k].content
      BY <1>1 DEF LiveSessions
    <3>3. k \in DOMAIN sessions
      BY <1>1
    <3> HIDE DEF one, k
    <3>4. QED
      BY <1>1, <3>1, <3>2, <3>3
  <2>2. CASE task[t].kind # "start"
    BY <1>1, <2>2 DEF Begin
  <2>3. QED
    BY <2>1, <2>2
<1>3. CASE AnsweredAtOnce(t)
  BY <1>2, <1>3, IdleTyped DEF Begin, Ends
<1>4. CASE ~AnsweredAtOnce(t)
  <2> DEFINE now == [task[t] EXCEPT !.at = "apply", !.snapshot = Content(t),
                                    !.made = sessions[task[t].session].made]
  <2>1. sessions[task[t].session].made \in Nat
    BY <1>1 DEF LiveSessions
  <2>2. /\ now \in Tasks /\ now.at = "apply" /\ now.snapshot = Content(t)
        /\ now.kind = task[t].kind /\ now.id = task[t].id /\ now.session = task[t].session
    BY <1>1, <2>1 DEF Tasks, Phases
  <2>3. Goes(t, now) /\ lock' = lock
    BY <1>4 DEF Begin
  <2>4. task[t].kind = "finalize" => ~Terminal(t)
    BY <1>4 DEF AnsweredAtOnce
  <2> HIDE DEF now
  <2>5. QED
    BY <1>2, <2>2, <2>3, <2>4
<1>5. QED
  BY <1>3, <1>4

LEMMA ApplyDoes ==
    ASSUME TypeOK, LockInv, NEW t \in Threads, Apply(t)
    PROVE  /\ sessions' \in Seq(LiveSessions) /\ Len(sessions') = Len(sessions)
           /\ sessions'[task[t].session].content.commits = Content(t).commits
           /\ sessions'[task[t].session].content.audits = Content(t).audits
           /\ \E now \in Tasks : Goes(t, now) /\ now.at = "record" /\ Same(t, now)
<1>1. PICK manager \in Managed(t) :
          /\ Becomes(t, [Content(t) EXCEPT !.manager = manager])
          /\ Goes(t, [task[t] EXCEPT !.at = "record"])
  BY DEF Apply
<1> DEFINE before == Content(t)
           content == [before EXCEPT !.manager = manager]
<1>2. before \in Contents /\ task[t] \in Tasks /\ manager \in Managers /\ task[t].at \in AtWork
  BY ContentTyped, ManagedTyped DEF Apply, AtWork
<1> HIDE DEF before
<1>3. content \in Contents /\ content.commits = before.commits /\ content.audits = before.audits
  BY <1>2 DEF Contents
<1>4. Becomes(t, content)
  BY <1>1 DEF before
<1> HIDE DEF content
<1>5. /\ sessions' \in Seq(LiveSessions) /\ Len(sessions') = Len(sessions)
      /\ sessions'[task[t].session].content = content
  BY <1>2, <1>3, <1>4, ContentBecomes
<1> DEFINE now == [task[t] EXCEPT !.at = "record"]
<1>6. now \in Tasks /\ now.at = "record" /\ Same(t, now)
  BY <1>2 DEF Tasks, Phases, Same
<1>7. Goes(t, now)
  BY <1>1
<1> HIDE DEF now
<1>8. QED
  BY <1>3, <1>5, <1>6, <1>7 DEF before

LEMMA RecordDoes ==
    ASSUME TypeOK, LockInv, NEW t \in Threads, Record(t)
    PROVE  /\ sessions' \in Seq(LiveSessions) /\ Len(sessions') = Len(sessions)
           /\ sessions'[task[t].session].content = Recorded(t)
           /\ \E now \in Tasks : Goes(t, now) /\ now.at = "build" /\ Same(t, now)
<1>1. task[t].at = "record" /\ task[t] \in Tasks /\ task[t].at \in AtWork
  BY DEF Record, TypeOK, AtWork
<1>2. Recorded(t) \in Contents /\ Becomes(t, Recorded(t))
  BY <1>1, RecordedDoes DEF Record
<1> DEFINE now == [task[t] EXCEPT !.at = "build"]
<1>3. now \in Tasks /\ now.at = "build" /\ Same(t, now)
  BY <1>1 DEF Tasks, Phases, Same
<1>4. Goes(t, now)
  BY DEF Record
<1> HIDE DEF now
<1>5. QED
  BY <1>1, <1>2, <1>3, <1>4, ContentBecomes

LEMMA BuildDoes ==
    ASSUME TypeOK, LockInv, NEW t \in Threads, Build(t)
    PROVE  \E now \in Tasks :
              Goes(t, now) /\ now.at = "write" /\ Same(t, now) /\ now.payload = Content(t)
<1>1. task[t] \in Tasks /\ Content(t) \in Contents
  BY ContentTyped DEF Build, AtWork
<1> DEFINE now == [task[t] EXCEPT !.at = "write", !.payload = Content(t)]
<1>2. now \in Tasks /\ now.at = "write" /\ Same(t, now) /\ now.payload = Content(t)
  BY <1>1 DEF Tasks, Phases, Same
<1>3. Goes(t, now)
  BY DEF Build, Payload
<1> HIDE DEF now
<1>4. QED
  BY <1>2, <1>3

LEMMA RefusedDoes ==
    ASSUME TypeOK, LockInv, NEW t \in Threads, Refused(t)
    PROVE  \E now \in Tasks : Goes(t, now) /\ now.at = "undo" /\ Same(t, now)
<1>1. task[t] \in Tasks
  BY DEF TypeOK
<1> DEFINE now == [task[t] EXCEPT !.at = "undo"]
<1>2. now \in Tasks /\ now.at = "undo" /\ Same(t, now)
  BY <1>1 DEF Tasks, Phases, Same
<1>3. Goes(t, now)
  BY DEF Refused
<1> HIDE DEF now
<1>4. QED
  BY <1>2, <1>3

LEMMA UndoDoes ==
    ASSUME TypeOK, LockInv, NEW t \in Threads, Undo(t)
    PROVE  /\ sessions' \in Seq(LiveSessions) /\ Len(sessions') = Len(sessions)
           /\ sessions'[task[t].session].content = Undone(t)
           /\ Goes(t, Idle) /\ LockLeft(t)
<1> DEFINE k == task[t].session
           made == IF task[t].kind \in {"commit", "finalize"} THEN sessions[k].made + 1
                   ELSE sessions[k].made
           content == Undone(t)
           one == [sessions[k] EXCEPT !.content = content, !.made = made]
<1>1. /\ k \in DOMAIN sessions /\ sessions[k] \in LiveSessions /\ sessions \in Seq(LiveSessions)
      /\ content \in Contents
  BY ContentTyped, UndoneDoes DEF Undo, AtWork, TypeOK
<1>2. sessions' = [sessions EXCEPT ![k].content = content,
                       ![k].made = IF task[t].kind \in {"commit", "finalize"} THEN @ + 1 ELSE @]
  BY DEF Undo
<1>3. made \in Nat
  BY <1>1 DEF LiveSessions
<1>4. sessions' = [sessions EXCEPT ![k] = one]
  <2> HIDE DEF content
  <2>1. QED
    BY <1>1, <1>2 DEF LiveSessions
<1> HIDE DEF content, made
<1>5. one \in LiveSessions /\ one.content = content
  BY <1>1, <1>3 DEF LiveSessions
<1> HIDE DEF one, k
<1>6. /\ sessions' \in Seq(LiveSessions) /\ Len(sessions') = Len(sessions)
      /\ sessions'[k].content = content
  BY <1>1, <1>4, <1>5
<1>7. QED
  BY <1>6 DEF Undo, Ends, k, content
LEMMA RequestDoes ==
    ASSUME TypeOK, LockInv, Request
    PROVE  /\ "round" \in Threads /\ lock' = lock
           /\ \E now \in Tasks :
                 Goes("round", now) /\ now.at = "open" /\ now.kind # "finalize" /\ now.id \in Commits
<1>1. PICK kind \in {"start", "commit", "post", "note"} :
          Goes("round", [Idle EXCEPT !.at = "open", !.kind = kind, !.id = requests + 1,
                                     !.expected = TurnTold])
  BY DEF Request
<1>2. requests + 1 \in Commits /\ requests + 1 \in 0 .. MaxRequests
  BY HandlersAssumption DEF Request, TypeOK, Commits
<1>3. TurnTold \in Nat
  <2>1. told.commits \subseteq 1 .. MaxRequests
    BY DEF TypeOK, Commits
  <2>2. IsFiniteSet(1 .. MaxRequests)
    BY FS_Interval, HandlersAssumption
  <2>3. IsFiniteSet(told.commits)
    BY <2>1, <2>2, FS_Subset
  <2>4. QED
    BY <2>3, FS_CardinalityType DEF TurnTold
<1> DEFINE id == requests + 1
           expected == TurnTold
           now == [Idle EXCEPT !.at = "open", !.kind = kind, !.id = id, !.expected = expected]
<1>4. Goes("round", now) /\ id \in Commits /\ id \in 0 .. MaxRequests /\ expected \in Nat
  BY <1>1, <1>2, <1>3
<1> HIDE DEF id, expected
<1>5. now \in Tasks /\ now.at = "open" /\ now.kind # "finalize" /\ now.id = id
  BY <1>4, IdleTyped DEF Tasks, Phases
<1> HIDE DEF now
<1>6. QED
  BY <1>4, <1>5 DEF Request, Threads

LEMMA FinalizeDoes ==
    ASSUME TypeOK, LockInv, NEW t \in Lanes, Finalize(t)
    PROVE  /\ t \in Threads /\ lock' = lock /\ task[t].at = "idle"
           /\ \E now \in Tasks :
                 Goes(t, now) /\ now.at = "lock" /\ now.kind = "finalize" /\ now.id \in Commits
<1>1. PICK c \in told.commits : Goes(t, [Idle EXCEPT !.at = "lock", !.kind = "finalize", !.id = c])
  BY DEF Finalize
<1>2. c \in Commits /\ c \in 0 .. MaxRequests
  BY HandlersAssumption DEF TypeOK, Commits
<1> DEFINE now == [Idle EXCEPT !.at = "lock", !.kind = "finalize", !.id = c]
<1>3. now \in Tasks /\ now.at = "lock" /\ now.kind = "finalize" /\ now.id = c
  BY <1>2, IdleTyped DEF Tasks, Phases
<1>4. Goes(t, now)
  BY <1>1
<1> HIDE DEF now
<1>5. QED
  BY <1>2, <1>3, <1>4 DEF Finalize, Threads

-----------------------------------------------------------------------------
(* The form of the state, and the lock *)

LEMMA TypeStep == ASSUME TypeOK, LockInv, HandlersNext PROVE TypeOK'
<1> USE DEF TypeOK
<1>1. lock \in Lanes \cup {"free"} /\ sessions \in Seq(LiveSessions) /\ cache \in 0 .. Len(sessions)
  OBVIOUS
<1>2. ASSUME NEW t \in Threads, LockLeft(t) PROVE lock' \in Lanes \cup {"free"}
  BY <1>2 DEF LockLeft
<1>3. CASE Request
  <2>1. task' \in [Threads -> Tasks]
    BY <1>3, RequestDoes, ThreadGoes
  <2>2. requests' \in 0 .. MaxRequests
    BY <1>3, HandlersAssumption DEF Request
  <2>3. QED
    BY <1>3, <2>1, <2>2 DEF Request
<1>4. ASSUME NEW t \in Lanes, Finalize(t) PROVE TypeOK'
  <2>1. task' \in [Threads -> Tasks]
    BY <1>4, FinalizeDoes, ThreadGoes
  <2>2. requests' \in 0 .. MaxRequests
    BY <1>4, HandlersAssumption DEF Finalize
  <2>3. QED
    BY <1>4, <2>1, <2>2 DEF Finalize
<1>5. ASSUME NEW t \in Threads, Handles(t) PROVE TypeOK'
  <2>1. CASE Acquire(t)
    BY <2>1, AcquireDoes, ThreadGoes DEF Acquire
  <2>2. CASE Open(t)
    <3>1. task' \in [Threads -> Tasks] /\ lock' \in Lanes \cup {"free"}
      BY <1>1, <1>2, <2>2, OpenDoes, ThreadGoes
    <3>2. QED
      BY <2>2, <3>1 DEF Open
  <2>3. CASE Install(t)
    <3>1. task' \in [Threads -> Tasks] /\ lock' = lock
      BY <2>3, InstallDoes, ThreadGoes
    <3>2. sessions' \in Seq(LiveSessions) /\ cache' = Len(sessions')
      BY <2>3, InstallDoes
    <3>3. cache' \in 0 .. Len(sessions')
      BY <3>2
    <3>4. crossed' \in SUBSET Crossings
      BY <2>3 DEF Install, Crosses, Crossings
    <3>5. QED
      BY <2>3, <3>1, <3>2, <3>3, <3>4 DEF Install
  <2>4. CASE Begin(t)
    <3>1. task' \in [Threads -> Tasks] /\ lock' \in Lanes \cup {"free"}
      BY <1>1, <1>2, <2>4, BeginDoes, ThreadGoes, IdleTyped
    <3>2. sessions' \in Seq(LiveSessions) /\ cache' \in 0 .. Len(sessions')
      BY <2>4, BeginDoes DEF Begin
    <3>3. QED
      BY <2>4, <3>1, <3>2 DEF Begin
  <2>5. CASE Apply(t)
    <3>1. /\ task' \in [Threads -> Tasks] /\ sessions' \in Seq(LiveSessions)
          /\ Len(sessions') = Len(sessions)
      BY <2>5, ApplyDoes, ThreadGoes
    <3>2. QED
      BY <2>5, <3>1 DEF Apply
  <2>6. CASE Record(t)
    <3>1. /\ task' \in [Threads -> Tasks] /\ sessions' \in Seq(LiveSessions)
          /\ Len(sessions') = Len(sessions)
      BY <2>6, RecordDoes, ThreadGoes
    <3>2. QED
      BY <2>6, <3>1 DEF Record
  <2>7. CASE Build(t)
    <3>1. task' \in [Threads -> Tasks]
      BY <2>7, BuildDoes, ThreadGoes
    <3>2. crossed' \in SUBSET Crossings
      BY <2>7 DEF Build, Crosses, Crossings
    <3>3. QED
      BY <2>7, <3>1, <3>2 DEF Build
  <2>8. CASE Write(t)
    <3>1. task' \in [Threads -> Tasks] /\ lock' \in Lanes \cup {"free"}
      BY <1>2, <2>8, IdleTyped, ThreadGoes DEF Write, Ends
    <3>2. task[t].payload \in Contents /\ task[t].id \in Commits
      BY <2>8 DEF Write, Tasks, LockInv
    <3>3. file' \in Contents \cup {Garbled}
      BY <2>8, <3>2 DEF Write
    <3>4. told' \in [commits : SUBSET Commits, audits : Seq(Commits)]
      <4>1. CASE task[t].kind = "commit"
        <5>1. told' = [told EXCEPT !.commits = @ \cup {task[t].id}]
          BY <2>8, <4>1 DEF Write, Answered
        <5>2. QED
          BY <3>2, <5>1
      <4>2. CASE task[t].kind = "finalize"
        <5> DEFINE audits == Append(told.audits, task[t].id)
        <5>1. told' = [told EXCEPT !.audits = audits]
          BY <2>8, <4>2 DEF Write, Answered
        <5>2. audits \in Seq(Commits)
          BY <3>2
        <5> HIDE DEF audits
        <5>3. QED
          BY <5>1, <5>2
      <4>3. CASE task[t].kind # "commit" /\ task[t].kind # "finalize"
        BY <2>8, <4>3 DEF Write, Answered
      <4>4. QED
        BY <4>1, <4>2, <4>3
    <3>5. QED
      BY <2>8, <3>1, <3>3, <3>4 DEF Write
  <2>9. CASE Refused(t)
    <3>1. task' \in [Threads -> Tasks]
      BY <2>9, RefusedDoes, ThreadGoes
    <3>2. faults' \in 0 .. MaxFaults
      BY <2>9, HandlersAssumption DEF Refused
    <3>3. QED
      BY <2>9, <3>1, <3>2 DEF Refused
  <2>10. CASE Undo(t)
    <3>1. /\ task' \in [Threads -> Tasks] /\ sessions' \in Seq(LiveSessions)
          /\ Len(sessions') = Len(sessions) /\ lock' \in Lanes \cup {"free"}
      BY <1>2, <2>10, UndoDoes, IdleTyped, ThreadGoes
    <3>2. crossed' \in SUBSET Crossings
      BY <2>10 DEF Undo, Crosses, Crossings
    <3>3. QED
      BY <2>10, <3>1, <3>2 DEF Undo
  <2>11. QED
    BY <1>5, <2>1, <2>2, <2>3, <2>4, <2>5, <2>6, <2>7, <2>8, <2>9, <2>10 DEF Handles
<1>6. CASE Crash
  <2>1. faults' \in 0 .. MaxFaults
    BY <1>6, HandlersAssumption DEF Crash
  <2>2. sessions' \in Seq(LiveSessions) /\ cache' \in 0 .. Len(sessions')
    BY <1>6 DEF Crash
  <2>3. task' \in [Threads -> Tasks]
    BY <1>6, IdleTyped DEF Crash
  <2>4. QED
    BY <1>6, <2>1, <2>2, <2>3 DEF Crash
<1>7. QED
  BY <1>3, <1>4, <1>5, <1>6 DEF HandlersNext

\* A thread that goes on keeps the lock or is without it, takes it when it is free,
\* or leaves it at its end.
LEMMA LockKept ==
    ASSUME TypeOK, LockInv, NEW t \in Threads, NEW now \in Tasks, Goes(t, now),
           DOMAIN sessions \subseteq DOMAIN sessions',
           now.at # "idle" => now.id \in Commits /\ (now.kind = "finalize" <=> t \in Lanes),
           now.at \in AtWork => now.session \in DOMAIN sessions',
           t \notin Lanes => now.at # "lock",
           \/ now.at = "idle" /\ LockLeft(t)
           \/ /\ lock' = lock
              /\ t \in Lanes => (now.at \notin {"idle", "lock"} <=> task[t].at \notin {"idle", "lock"})
           \/ t \in Lanes /\ lock = "free" /\ lock' = t /\ now.at \notin {"idle", "lock"}
    PROVE  LockInv'
<1>1. task'[t] = now /\ \A o \in Threads \ {t} : task'[o] = task[o]
  BY ThreadGoes
<1>2. Lanes \subseteq Threads /\ "round" \in Threads /\ "round" \notin Lanes /\ "free" \notin Lanes
  BY HandlersAssumption DEF Threads
<1>3. ASSUME NEW o \in Lanes PROVE task'[o].at \notin {"idle", "lock"} <=> lock' = o
  <2>1. task[o].at \notin {"idle", "lock"} <=> lock = o
    BY DEF LockInv
  <2>2. CASE o = t
    BY <1>1, <1>2, <1>3, <2>1, <2>2 DEF LockLeft
  <2>3. CASE o # t
    BY <1>1, <1>2, <1>3, <2>1, <2>3 DEF LockLeft
  <2>4. QED
    BY <2>2, <2>3
<1>4. ASSUME NEW o \in Threads, task'[o].at # "idle"
      PROVE  task'[o].id \in Commits /\ (task'[o].kind = "finalize" <=> o \in Lanes)
  BY <1>1, <1>4 DEF LockInv
<1>5. ASSUME NEW o \in Threads, task'[o].at \in AtWork PROVE task'[o].session \in DOMAIN sessions'
  BY <1>1, <1>5 DEF LockInv
<1>6. task'["round"].at # "lock"
  BY <1>1, <1>2 DEF LockInv
<1>7. QED
  BY <1>3, <1>4, <1>5, <1>6 DEF LockInv
LEMMA LockStep == ASSUME TypeOK, LockInv, HandlersNext PROVE LockInv'
<1>1. sessions \in Seq(LiveSessions) /\ task \in [Threads -> Tasks] /\ cache \in 0 .. Len(sessions)
  BY DEF TypeOK
<1>2. Idle.at = "idle" /\ Idle \in Tasks /\ AtWork \cap {"idle", "lock", "open", "install"} = {}
  BY IdleTyped DEF AtWork
<1>3. "round" \notin Lanes /\ Lanes \subseteq Threads /\ \A t \in Threads : t \notin Lanes => t = "round"
  BY HandlersAssumption DEF Threads
<1>4. \A t \in Threads : task[t].at # "idle" =>
          task[t].id \in Commits /\ (task[t].kind = "finalize" <=> t \in Lanes)
  BY DEF LockInv
<1>5. CASE Request
  <2>1. PICK now \in Tasks :
             Goes("round", now) /\ now.at = "open" /\ now.kind # "finalize" /\ now.id \in Commits
    BY <1>5, RequestDoes
  <2>2. sessions' = sessions /\ lock' = lock /\ "round" \in Threads
    BY <1>5, RequestDoes DEF Request
  <2>3. QED
    BY <1>2, <1>3, <2>1, <2>2, LockKept
<1>6. ASSUME NEW t \in Lanes, Finalize(t) PROVE LockInv'
  <2>1. PICK now \in Tasks :
             Goes(t, now) /\ now.at = "lock" /\ now.kind = "finalize" /\ now.id \in Commits
    BY <1>6, FinalizeDoes
  <2>2. sessions' = sessions /\ lock' = lock /\ task[t].at = "idle" /\ t \in Threads
    BY <1>6, FinalizeDoes DEF Finalize
  <2>3. QED
    BY <1>2, <2>1, <2>2, LockKept
<1>7. ASSUME NEW t \in Threads, Handles(t) PROVE LockInv'
  <2>1. task[t].at # "idle"
    BY <1>7 DEF Handles, Acquire, Open, Install, Begin, Apply, Record, Build, Write, Refused, Undo
  <2>2. task[t].id \in Commits /\ (task[t].kind = "finalize" <=> t \in Lanes)
    BY <1>4, <2>1
  <2>3. CASE Acquire(t)
    <3>1. PICK now \in Tasks : Goes(t, now) /\ now.at = "open" /\ Same(t, now)
      BY <2>3, AcquireDoes
    <3>2. sessions' = sessions /\ t \in Lanes /\ lock = "free" /\ lock' = t
      BY <2>3, AcquireDoes DEF Acquire
    <3>3. QED
      BY <1>2, <2>2, <3>1, <3>2, LockKept DEF Same
  <2>4. CASE Open(t)
    <3>1. PICK now \in Tasks :
             /\ Goes(t, now)
             /\ \/ now = Idle /\ LockLeft(t)
                \/ /\ now.at = "begin" /\ cache # 0 /\ now.session = cache
                   /\ now.kind = task[t].kind /\ now.id = task[t].id /\ lock' = lock
                \/ /\ now.at = "install" /\ cache = 0 /\ file # Garbled /\ now.payload = file
                   /\ now.kind = task[t].kind /\ now.id = task[t].id /\ lock' = lock
      BY <2>4, OpenDoes
    <3>2. sessions' = sessions /\ task[t].at = "open"
      BY <2>4 DEF Open
    <3>3. cache # 0 => cache \in DOMAIN sessions
      BY <1>1
    <3>4. QED
      BY <1>2, <2>2, <3>1, <3>2, <3>3, LockKept
  <2>5. CASE Install(t)
    <3>1. PICK now \in Tasks :
             /\ Goes(t, now) /\ now.at = "begin" /\ now.session = cache'
             /\ now.kind = task[t].kind /\ now.id = task[t].id /\ lock' = lock
      BY <2>5, InstallDoes
    <3>2. /\ sessions' \in Seq(LiveSessions) /\ Len(sessions') = Len(sessions) + 1
          /\ cache' = Len(sessions') /\ task[t].at = "install"
      BY <2>5, InstallDoes DEF Install
    <3>3. DOMAIN sessions \subseteq DOMAIN sessions' /\ cache' \in DOMAIN sessions'
      BY <1>1, <3>2
    <3>4. QED
      BY <1>2, <2>2, <3>1, <3>2, <3>3, LockKept
  <2>6. CASE Begin(t)
    <3>1. PICK now \in Tasks :
             /\ Goes(t, now)
             /\ \/ now = Idle /\ LockLeft(t)
                \/ /\ now.at = "apply" /\ now.snapshot = Content(t) /\ lock' = lock
                   /\ now.kind = task[t].kind /\ now.id = task[t].id
                   /\ now.session = task[t].session
      BY <2>6, BeginDoes
    <3>2. DOMAIN sessions = DOMAIN sessions' /\ task[t].at = "begin"
      BY <1>1, <2>6, BeginDoes DEF Begin
    <3>3. task[t].session \in DOMAIN sessions
      BY <3>2 DEF LockInv, AtWork
    <3>4. QED
      BY <1>2, <2>2, <3>1, <3>2, <3>3, LockKept
  <2>7. CASE Apply(t) \/ Record(t) \/ Build(t) \/ Refused(t)
    <3>1. PICK now \in Tasks :
             Goes(t, now) /\ now.at \in {"record", "build", "write", "undo"} /\ Same(t, now)
      BY <2>7, ApplyDoes, RecordDoes, BuildDoes, RefusedDoes
    <3>2. DOMAIN sessions = DOMAIN sessions'
      <4>1. Len(sessions') = Len(sessions) /\ sessions' \in Seq(LiveSessions)
        BY <1>1, <2>7, ApplyDoes, RecordDoes DEF Build, Refused
      <4>2. QED
        BY <1>1, <4>1
    <3>3. task[t].at \in AtWork /\ lock' = lock
      BY <2>7 DEF Apply, Record, Build, Refused, AtWork
    <3>4. task[t].session \in DOMAIN sessions
      BY <3>3 DEF LockInv
    <3>5. QED
      BY <1>2, <2>2, <3>1, <3>2, <3>3, <3>4, LockKept DEF Same
  <2>8. CASE Write(t) \/ Undo(t)
    <3>1. Goes(t, Idle) /\ LockLeft(t)
      BY <2>8 DEF Write, Undo, Ends
    <3>2. DOMAIN sessions = DOMAIN sessions'
      BY <1>1, <2>8, UndoDoes DEF Write
    <3>3. QED
      BY <1>2, <3>1, <3>2, LockKept
  <2>9. QED
    BY <1>7, <2>3, <2>4, <2>5, <2>6, <2>7, <2>8 DEF Handles
<1>8. CASE Crash
  BY <1>2, <1>3, <1>8, HandlersAssumption DEF Crash, LockInv, Threads
<1>9. QED
  BY <1>5, <1>6, <1>7, <1>8 DEF HandlersNext

-----------------------------------------------------------------------------
(* One session, one thread that saves *)

\* What has crossed stays crossed.
LEMMA QuietBefore == ASSUME HandlersNext, Quiet' PROVE Quiet
<1>1. crossed \subseteq crossed'
  BY DEF HandlersNext, Request, Finalize, Handles, Acquire, Open, Install, Begin, Apply, Record, Build,
    Write, Refused, Undo, Crash, Crosses
<1>2. QED
  BY <1>1 DEF Quiet

LEMMA SessionKept ==
    ASSUME TypeOK, OneSession, NEW t \in Threads, NEW now \in Tasks, Goes(t, now),
           Len(sessions') = Len(sessions), sessions' \in Seq(LiveSessions), cache' = cache,
           file' = file \/ cache # 0,
           now.at \in AtWork => cache = 1 /\ now.session = 1,
           now.at = "install" /\ cache = 0 => now.payload = file
    PROVE  OneSession'
<1>1. task'[t] = now /\ \A o \in Threads \ {t} : task'[o] = task[o]
  BY ThreadGoes
<1>2. sessions = <<>> => sessions' = <<>>
  <2>1. sessions = <<>> => Len(sessions') = 0
    OBVIOUS
  <2>2. QED
    BY <2>1
<1>3. (cache' = 0 => sessions' = <<>>) /\ (cache' # 0 => cache' = 1 /\ Len(sessions') = 1)
  BY <1>2 DEF OneSession
<1>4. ASSUME NEW o \in Threads, task'[o].at \in AtWork PROVE cache' = 1 /\ task'[o].session = 1
  BY <1>1, <1>4 DEF OneSession
<1>5. ASSUME NEW o \in Threads, task'[o].at = "install", cache' = 0 PROVE task'[o].payload = file'
  BY <1>1, <1>5 DEF OneSession
<1>6. QED
  BY <1>3, <1>4, <1>5 DEF OneSession

LEMMA SessionStep ==
    ASSUME TypeOK, LockInv, OneSession, HandlersNext, Quiet'
    PROVE  OneSession'
<1>1. sessions \in Seq(LiveSessions) /\ task \in [Threads -> Tasks]
  BY DEF TypeOK
<1>2. Idle.at = "idle" /\ Idle \in Tasks /\ AtWork \cap {"idle", "lock", "open", "install"} = {}
  BY IdleTyped DEF AtWork
<1>3. \A t \in Threads : task[t].at \in AtWork => cache = 1 /\ task[t].session = 1
  BY DEF OneSession
<1>4. CASE Request
  <2>1. PICK now \in Tasks : Goes("round", now) /\ now.at = "open"
    BY <1>4, RequestDoes
  <2>2. UNCHANGED <<sessions, cache, file>> /\ "round" \in Threads
    BY <1>4 DEF Request, Threads
  <2>3. QED
    BY <1>1, <1>2, <2>1, <2>2, SessionKept
<1>5. ASSUME NEW t \in Lanes, Finalize(t) PROVE OneSession'
  <2>1. PICK now \in Tasks : Goes(t, now) /\ now.at = "lock"
    BY <1>5, FinalizeDoes
  <2>2. UNCHANGED <<sessions, cache, file>> /\ t \in Threads
    BY <1>5 DEF Finalize, Threads
  <2>3. QED
    BY <1>1, <1>2, <2>1, <2>2, SessionKept
<1>6. ASSUME NEW t \in Threads, Handles(t) PROVE OneSession'
  <2>1. CASE Acquire(t)
    <3>1. PICK now \in Tasks : Goes(t, now) /\ now.at = "open"
      BY <2>1, AcquireDoes
    <3>2. UNCHANGED <<sessions, cache, file>>
      BY <2>1 DEF Acquire
    <3>3. QED
      BY <1>1, <1>2, <3>1, <3>2, SessionKept
  <2>2. CASE Open(t)
    <3>1. PICK now \in Tasks :
             /\ Goes(t, now)
             /\ \/ now = Idle
                \/ now.at = "begin" /\ cache # 0 /\ now.session = cache
                \/ now.at = "install" /\ cache = 0 /\ now.payload = file
      BY <2>2, OpenDoes
    <3>2. UNCHANGED <<sessions, cache, file>>
      BY <2>2 DEF Open
    <3>3. cache # 0 => cache = 1
      BY DEF OneSession
    <3>4. QED
      BY <1>1, <1>2, <3>1, <3>2, <3>3, SessionKept
  <2>3. CASE Install(t)
    <3>1. cache = 0
      BY <2>3 DEF Install, Crosses, Quiet
    <3>2. sessions = <<>>
      BY <3>1 DEF OneSession
    <3>3. PICK now \in Tasks : Goes(t, now) /\ now.at = "begin" /\ now.session = cache'
      BY <2>3, InstallDoes
    <3>4. sessions' \in Seq(LiveSessions) /\ Len(sessions') = 1 /\ cache' = 1
      <4>1. Len(sessions) = 0
        BY <3>2
      <4>2. QED
        BY <2>3, <4>1, InstallDoes
    <3>5. task'[t] = now /\ \A o \in Threads \ {t} : task'[o] = task[o]
      BY <3>3, ThreadGoes
    <3>6. \A o \in Threads : task[o].at \notin AtWork
      BY <1>3, <3>1
    <3>7. QED
      BY <3>3, <3>4, <3>5, <3>6 DEF OneSession
  <2>4. CASE Begin(t)
    <3>1. PICK now \in Tasks :
             /\ Goes(t, now)
             /\ now = Idle \/ (now.at = "apply" /\ now.session = task[t].session)
      BY <2>4, BeginDoes
    <3>2. UNCHANGED <<cache, file>> /\ task[t].at \in AtWork
      BY <2>4 DEF Begin, AtWork
    <3>3. Len(sessions') = Len(sessions) /\ sessions' \in Seq(LiveSessions)
      BY <2>4, BeginDoes
    <3>4. QED
      BY <1>2, <1>3, <3>1, <3>2, <3>3, SessionKept
  <2>5. CASE Apply(t) \/ Record(t) \/ Build(t) \/ Refused(t)
    <3>1. PICK now \in Tasks :
             Goes(t, now) /\ now.at \in {"record", "build", "write", "undo"} /\ Same(t, now)
      BY <2>5, ApplyDoes, RecordDoes, BuildDoes, RefusedDoes
    <3>2. Len(sessions') = Len(sessions) /\ sessions' \in Seq(LiveSessions)
      BY <1>1, <2>5, ApplyDoes, RecordDoes DEF Build, Refused
    <3>3. UNCHANGED <<cache, file>> /\ task[t].at \in AtWork
      BY <2>5 DEF Apply, Record, Build, Refused, AtWork
    <3>4. QED
      BY <1>3, <3>1, <3>2, <3>3, SessionKept DEF Same
  <2>6. CASE Write(t) \/ Undo(t)
    <3>1. Goes(t, Idle) /\ cache' = cache /\ task[t].at \in AtWork
      BY <2>6 DEF Write, Undo, Ends, AtWork
    <3>2. Len(sessions') = Len(sessions) /\ sessions' \in Seq(LiveSessions)
      BY <1>1, <2>6, UndoDoes DEF Write
    <3>3. cache # 0
      BY <1>3, <3>1
    <3>4. QED
      BY <1>2, <3>1, <3>2, <3>3, SessionKept
  <2>7. QED
    BY <1>6, <2>1, <2>2, <2>3, <2>4, <2>5, <2>6 DEF Handles
<1>7. CASE Crash
  BY <1>2, <1>7 DEF Crash, OneSession
<1>8. QED
  BY <1>4, <1>5, <1>6, <1>7 DEF HandlersNext

LEMMA SavesStep ==
    ASSUME TypeOK, LockInv, OneSaves, HandlersNext, Quiet'
    PROVE  OneSaves'
<1>1. Idle.at = "idle" /\ Idle \in Tasks
  BY IdleTyped
<1>2. ASSUME NEW t \in Threads, NEW now \in Tasks, Goes(t, now),
             \/ now.at \notin {"write", "undo"}
             \/ task[t].at \in {"write", "undo"}
             \/ \A o \in Threads \ {t} : task[o].at \notin {"write", "undo"}
      PROVE  OneSaves'
  <2>1. task'[t] = now /\ \A o \in Threads \ {t} : task'[o] = task[o]
    BY <1>2, ThreadGoes
  <2>2. QED
    BY <1>2, <2>1 DEF OneSaves
<1>3. CASE Request
  BY <1>2, <1>3, RequestDoes
<1>4. ASSUME NEW t \in Lanes, Finalize(t) PROVE OneSaves'
  BY <1>2, <1>4, FinalizeDoes
<1>5. ASSUME NEW t \in Threads, Handles(t) PROVE OneSaves'
  <2>1. CASE Acquire(t)
    BY <1>2, <2>1, AcquireDoes
  <2>2. CASE Open(t)
    BY <1>1, <1>2, <2>2, OpenDoes
  <2>3. CASE Install(t)
    BY <1>2, <2>3, InstallDoes
  <2>4. CASE Begin(t)
    BY <1>1, <1>2, <2>4, BeginDoes
  <2>5. CASE Apply(t)
    BY <1>2, <2>5, ApplyDoes
  <2>6. CASE Record(t)
    BY <1>2, <2>6, RecordDoes
  <2>7. CASE Build(t)
    <3>1. \A o \in Threads \ {t} : task[o].at \notin {"write", "undo"}
      BY <2>7 DEF Build, Crosses, Quiet, Unsettled
    <3>2. QED
      BY <1>2, <2>7, <3>1, BuildDoes
  <2>8. CASE Refused(t)
    <3>1. task[t].at \in {"write", "undo"}
      BY <2>8 DEF Refused
    <3>2. QED
      BY <1>2, <2>8, <3>1, RefusedDoes
  <2>9. CASE Write(t) \/ Undo(t)
    BY <1>1, <1>2, <2>9 DEF Write, Undo, Ends
  <2>10. QED
    BY <1>5, <2>1, <2>2, <2>3, <2>4, <2>5, <2>6, <2>7, <2>8, <2>9 DEF Handles
<1>6. CASE Crash
  BY <1>1, <1>6 DEF Crash, OneSaves
<1>7. QED
  BY <1>3, <1>4, <1>5, <1>6 DEF HandlersNext
-----------------------------------------------------------------------------
(* What was told is kept *)

\* A step that tells nothing, saves nothing and leaves the commits and the audits
\* of the session.
LEMMA CalmStep ==
    ASSUME TypeOK, LockInv, Core, NEW t \in Threads, NEW now \in Tasks, Goes(t, now),
           UNCHANGED <<cache, file, told>>,
           cache = 1 => /\ sessions'[1].content.commits = sessions[1].content.commits
                        /\ sessions'[1].content.audits = sessions[1].content.audits,
           now.at \in AtWork => cache = 1,
           now.at = "write" => Holds(now.payload),
           Adds(t, now)
    PROVE  Kept' /\ (\A o \in Threads : Adds(o, task[o])') /\ ToldOnce'
<1>1. task'[t] = now /\ \A o \in Threads \ {t} : task'[o] = task[o]
  BY ThreadGoes
<1>2. Kept'
  <2>1. file' # Garbled /\ Holds(file)'
    BY DEF Core, Kept, Holds, Entries
  <2>2. cache' = 1 => Holds(sessions[1].content)'
    BY DEF Core, Kept, Holds, Entries
  <2>3. ASSUME NEW o \in Threads, task'[o].at = "write" PROVE Holds(task[o].payload)'
    BY <1>1, <2>3 DEF Core, Kept, Holds, Entries
  <2>4. QED
    BY <2>1, <2>2, <2>3 DEF Kept
<1>3. ASSUME NEW o \in Threads PROVE Adds(o, task[o])'
  <2>1. Adds(o, task'[o])
    BY <1>1 DEF Core
  <2>2. task'[o].at \in AtWork => cache = 1
    BY <1>1 DEF Core, OneSession
  <2>3. {"build", "write", "undo"} \subseteq AtWork
    BY DEF AtWork
  <2>4. CASE task'[o].at \notin AtWork
    BY <2>3, <2>4 DEF Adds
  <2>5. CASE task'[o].at \in AtWork
    BY <2>1, <2>2, <2>5 DEF Adds
  <2>6. QED
    BY <2>4, <2>5
<1>4. QED
  BY <1>2, <1>3 DEF Core, ToldOnce

\* What a step that changes the session, or tells, leaves to the others: a lane at
\* work is the only one, and so is the runtime's request.
LEMMA OthersAdd ==
    ASSUME TypeOK, LockInv, Core, NEW t \in Threads, NEW now \in Tasks, Goes(t, now),
           task[t].at \in AtWork,
           t \in Lanes => /\ told'.commits = told.commits
                          /\ sessions'[1].content.commits = sessions[1].content.commits,
           t \notin Lanes => /\ told'.audits = told.audits
                             /\ sessions'[1].content.audits = sessions[1].content.audits,
           NEW o \in Threads \ {t}
    PROVE  Adds(o, task[o])'
<1>1. task'[o] = task[o]
  BY ThreadGoes
<1>2. AtWork \cap {"idle", "lock"} = {} /\ {"build", "write", "undo"} \subseteq AtWork
  BY DEF AtWork
<1>3. CASE o \in Lanes /\ t \in Lanes
  <2>1. lock = t
    BY <1>2, <1>3 DEF LockInv
  <2>2. task[o].at \notin AtWork
    BY <1>2, <1>3, <2>1 DEF LockInv
  <2>3. "round" \notin Lanes
    BY HandlersAssumption
  <2>4. QED
    BY <1>1, <1>2, <1>3, <2>2, <2>3 DEF Adds
<1>4. CASE o \in Lanes /\ t \notin Lanes
  <2>1. "round" \notin Lanes
    BY HandlersAssumption
  <2>2. Adds(o, task[o])
    BY DEF Core
  <2>3. QED
    BY <1>1, <1>4, <2>1, <2>2 DEF Adds
<1>5. CASE o \notin Lanes
  <2>1. o = "round" /\ t \in Lanes
    BY <1>5 DEF Threads
  <2>2. Adds(o, task[o])
    BY DEF Core
  <2>3. QED
    BY <1>1, <1>5, <2>1, <2>2 DEF Adds
<1>6. QED
  BY <1>3, <1>4, <1>5

\* A handler at work is at the one session.
LEMMA WorksAtOne ==
    ASSUME TypeOK, LockInv, Core, NEW t \in Threads, task[t].at \in AtWork
    PROVE  /\ cache = 1 /\ task[t].session = 1 /\ Content(t) = sessions[1].content
           /\ Content(t) \in Contents /\ Holds(Content(t)) /\ told.audits \in Seq(Commits)
           /\ task[t].id \in Commits /\ (task[t].kind = "finalize" <=> t \in Lanes)
<1>1. cache = 1 /\ task[t].session = 1
  BY DEF Core, OneSession
<1>2. Content(t) = sessions[1].content /\ Content(t) \in Contents
  BY <1>1, ContentTyped DEF Content
<1>3. Holds(Content(t))
  BY <1>1, <1>2 DEF Core, Kept
<1>4. task[t].at # "idle"
  BY DEF AtWork
<1>5. QED
  BY <1>1, <1>2, <1>3, <1>4 DEF TypeOK, LockInv

LEMMA RecordKeeps ==
    ASSUME TypeOK, LockInv, Core, NEW t \in Threads, Record(t)
    PROVE  Kept' /\ (\A o \in Threads : Adds(o, task[o])') /\ ToldOnce'
<1>1. /\ task[t].at = "record" /\ task[t].at \in AtWork
      /\ UNCHANGED <<cache, file, told>>
  BY DEF Record, AtWork
<1>2. /\ cache = 1 /\ task[t].session = 1 /\ Content(t) = sessions[1].content
      /\ Content(t) \in Contents /\ Holds(Content(t))
      /\ task[t].id \in Commits /\ (task[t].kind = "finalize" <=> t \in Lanes)
  BY <1>1, WorksAtOne
<1>3. sessions'[1].content = Recorded(t)
  BY <1>2, RecordDoes
<1>4. PICK now \in Tasks : Goes(t, now) /\ now.at = "build" /\ Same(t, now)
  BY RecordDoes
<1>5. task'[t] = now /\ \A o \in Threads \ {t} : task'[o] = task[o]
  BY <1>4, ThreadGoes
<1> DEFINE before == sessions[1].content
           after == sessions'[1].content
<1>6. /\ IF task[t].kind = "commit" THEN after.commits = before.commits \cup {task[t].id}
         ELSE after.commits = before.commits
      /\ IF t \in Lanes THEN after.audits = Append(before.audits, task[t].id)
         ELSE after.audits = before.audits
  BY <1>1, <1>2, <1>3, RecordedDoes
<1>7. before.audits \in Seq(Commits)
  BY <1>2 DEF Contents
<1>8. /\ Entries(before.audits) \subseteq Entries(after.audits)
      /\ t \in Lanes => after.audits # <<>> /\ after.audits[Len(after.audits)] = task[t].id
  <2>1. CASE t \in Lanes
    <3> DEFINE id == task[t].id
               old == before.audits
    <3>1. after.audits = Append(old, id) /\ old \in Seq(Commits) /\ id \in Commits
      BY <1>2, <1>6, <1>7, <2>1
    <3> HIDE DEF before, after, id, old
    <3>2. /\ Append(old, id) # <<>> /\ Append(old, id)[Len(Append(old, id))] = id
          /\ \A i \in DOMAIN old : i \in DOMAIN Append(old, id) /\ Append(old, id)[i] = old[i]
      BY <3>1
    <3>3. Entries(old) \subseteq Entries(Append(old, id))
      BY <3>2 DEF Entries
    <3>4. QED
      BY <3>1, <3>2, <3>3 DEF old, id
  <2>2. CASE t \notin Lanes
    BY <1>6, <2>2
  <2>3. QED
    BY <2>1, <2>2
<1>9. Kept'
  <2>1. Holds(sessions[1].content)'
    <3>1. told.commits \subseteq after.commits
      BY <1>2, <1>6 DEF Holds
    <3>2. Entries(told.audits) \subseteq Entries(after.audits)
      BY <1>2, <1>8 DEF Holds
    <3>3. QED
      BY <1>1, <3>1, <3>2 DEF Holds, Entries
  <2>2. file' # Garbled /\ Holds(file)'
    BY <1>1 DEF Core, Kept, Holds, Entries
  <2>3. ASSUME NEW o \in Threads, task'[o].at = "write" PROVE Holds(task[o].payload)'
    BY <1>1, <1>4, <1>5, <2>3 DEF Core, Kept, Holds, Entries
  <2>4. QED
    BY <2>1, <2>2, <2>3 DEF Kept
<1>10. Adds(t, task[t])'
  <2>1. Adds(t, task[t])
    BY DEF Core
  <2>2. now.id = task[t].id /\ now.kind = task[t].kind /\ now.snapshot = task[t].snapshot
    BY <1>4 DEF Same
  <2>3. t \in Lanes => now.id \notin Entries(told.audits)
    BY <1>1, <2>1, <2>2 DEF Adds
  <2>4. t = "round" => told.commits \subseteq now.snapshot.commits
    BY <1>1, <2>1, <2>2 DEF Adds
  <2>5. now.kind = "commit" => now.id \in after.commits
    BY <1>6, <2>2
  <2>6. QED
    BY <1>1, <1>4, <1>5, <1>8, <2>2, <2>3, <2>4, <2>5 DEF Adds
<1>11. ASSUME NEW o \in Threads \ {t} PROVE Adds(o, task[o])'
  <2>1. t \in Lanes => after.commits = before.commits
    BY <1>2, <1>6
  <2>2. QED
    BY <1>1, <1>4, <1>6, <2>1, OthersAdd
<1>12. ToldOnce'
  BY <1>1 DEF Core, ToldOnce
<1>13. QED
  BY <1>9, <1>10, <1>11, <1>12
LEMMA WriteKeeps ==
    ASSUME TypeOK, LockInv, Core, NEW t \in Threads, Write(t)
    PROVE  Kept' /\ (\A o \in Threads : Adds(o, task[o])') /\ ToldOnce'
<1>1. /\ task[t].at = "write" /\ task[t].at \in AtWork
      /\ UNCHANGED <<cache, sessions>> /\ Goes(t, Idle) /\ told' = Answered(t)
  BY DEF Write, AtWork, Ends
<1>2. /\ cache = 1 /\ Content(t) = sessions[1].content /\ Holds(Content(t))
      /\ told.audits \in Seq(Commits) /\ task[t].id \in Commits
      /\ (task[t].kind = "finalize" <=> t \in Lanes)
  BY <1>1, WorksAtOne
<1>3. Idle.at = "idle" /\ task'[t] = Idle /\ \A o \in Threads \ {t} : task'[o] = task[o]
  BY <1>1, IdleTyped, ThreadGoes
<1>4. \A o \in Threads \ {t} : task[o].at # "write"
  BY <1>1 DEF Core, OneSaves
<1>5. file' = task[t].payload
  BY <1>4 DEF Write
<1>6. /\ Holds(task[t].payload) /\ Adds(t, task[t])
      /\ told \in [commits : SUBSET Commits, audits : Seq(Commits)]
  BY <1>1 DEF Core, Kept, TypeOK
<1> DEFINE id == task[t].id
           before == sessions[1].content
           saved == task[t].payload
<1>7. /\ IF task[t].kind = "commit" THEN told'.commits = told.commits \cup {id}
         ELSE told'.commits = told.commits
      /\ IF t \in Lanes THEN told'.audits = Append(told.audits, id)
         ELSE told'.audits = told.audits
  <2>1. CASE task[t].kind = "commit"
    BY <1>1, <1>2, <1>6, <2>1 DEF Answered
  <2>2. CASE task[t].kind = "finalize"
    <3> DEFINE audits == Append(told.audits, id)
    <3>1. told' = [told EXCEPT !.audits = audits]
      BY <1>1, <2>2 DEF Answered
    <3> HIDE DEF audits, id
    <3>2. told'.audits = audits /\ told'.commits = told.commits
      BY <1>6, <3>1
    <3>3. QED
      BY <1>2, <2>2, <3>2 DEF audits
  <2>3. CASE task[t].kind # "commit" /\ task[t].kind # "finalize"
    BY <1>1, <1>2, <2>3 DEF Answered
  <2>4. QED
    BY <2>1, <2>2, <2>3
<1>8. /\ t \in Lanes => id \notin Entries(told.audits) /\ id \in Entries(saved.audits)
                        /\ before.audits # <<>> /\ before.audits[Len(before.audits)] = id
      /\ task[t].kind = "commit" => id \in before.commits /\ id \in saved.commits
  <2>1. t \notin Lanes => t = "round"
    BY DEF Threads
  <2>2. QED
    BY <1>1, <1>2, <1>6, <2>1 DEF Adds
<1>9. t \in Lanes => id \in Entries(before.audits)
  <2>1. before.audits \in Seq(Commits)
    BY <1>1, <1>2, WorksAtOne DEF Contents
  <2>2. before.audits # <<>> => Len(before.audits) \in DOMAIN before.audits
    BY <2>1
  <2>3. QED
    BY <1>8, <2>2 DEF Entries
<1>10. t \in Lanes => Entries(told'.audits) = Entries(told.audits) \cup {id}
  <2>1. SUFFICES ASSUME t \in Lanes
                 PROVE  Entries(Append(told.audits, id)) = Entries(told.audits) \cup {id}
    BY <1>7
  <2> DEFINE old == told.audits
             new == Append(old, id)
  <2>2. old \in Seq(Commits) /\ id \in Commits
    BY <1>2
  <2> HIDE DEF old, id
  <2>3. /\ DOMAIN new = 1 .. (Len(old) + 1) /\ DOMAIN old = 1 .. Len(old) /\ Len(old) \in Nat
        /\ new[Len(old) + 1] = id /\ \A i \in DOMAIN old : new[i] = old[i]
    BY <2>2
  <2> HIDE DEF new
  <2>4. \A i \in DOMAIN new : i \in DOMAIN old \/ i = Len(old) + 1
    BY <2>3
  <2>5. Len(old) + 1 \in DOMAIN new /\ DOMAIN old \subseteq DOMAIN new
    BY <2>3
  <2>6. Entries(new) = Entries(old) \cup {id}
    BY <2>3, <2>4, <2>5 DEF Entries
  <2>7. QED
    BY <2>6 DEF new, old
<1>11. Entries(told'.audits) \subseteq Entries(told.audits) \cup {id}
       /\ (t \notin Lanes => told'.audits = told.audits)
  BY <1>7, <1>10
<1>12. Kept'
  <2>1. told'.commits \subseteq saved.commits /\ Entries(told'.audits) \subseteq Entries(saved.audits)
    BY <1>6, <1>7, <1>8, <1>10 DEF Holds
  <2>2. told'.commits \subseteq before.commits /\ Entries(told'.audits) \subseteq Entries(before.audits)
    BY <1>2, <1>7, <1>8, <1>9, <1>10 DEF Holds
  <2>3. saved # Garbled
    <3>1. saved \in Contents
      BY <1>1 DEF TypeOK, Tasks
    <3>2. saved.posts \in Nat /\ DOMAIN saved = {"manager", "commits", "posts", "audits"}
      BY <3>1 DEF Contents
    <3>3. DOMAIN Garbled = {"garbled"}
      BY DEF Garbled
    <3>4. "manager" \in DOMAIN saved /\ "manager" \notin DOMAIN Garbled
      BY <3>2, <3>3
    <3>5. QED
      BY <3>4
  <2>4. Holds(file)'
    BY <1>5, <2>1 DEF Holds, Entries
  <2>5. Holds(sessions[1].content)'
    BY <1>1, <2>2 DEF Holds, Entries
  <2>6. ASSUME NEW o \in Threads, task'[o].at = "write" PROVE Holds(task[o].payload)'
    BY <1>3, <1>4, <2>6
  <2>7. QED
    BY <1>5, <2>3, <2>4, <2>5, <2>6 DEF Kept
<1>13. Adds(t, task[t])'
  BY <1>3 DEF Adds, AtWork
<1>14. ASSUME NEW o \in Threads \ {t} PROVE Adds(o, task[o])'
  <2>1. t \in Lanes => told'.commits = told.commits
    BY <1>2, <1>7
  <2>2. QED
    BY <1>1, <1>3, <1>11, <2>1, IdleTyped, OthersAdd
<1>15. ToldOnce'
  <2>1. CASE t \in Lanes
    <3> DEFINE old == told.audits
               new == Append(old, id)
    <3>1. told'.audits = new /\ old \in Seq(Commits) /\ id \notin Entries(old)
      BY <1>2, <1>7, <1>8, <2>1
    <3>2. id \in Commits /\ \A i, j \in DOMAIN old : old[i] = old[j] => i = j
      BY <1>2 DEF Core, ToldOnce
    <3> HIDE DEF old, id
    <3>3. /\ DOMAIN new = 1 .. (Len(old) + 1) /\ DOMAIN old = 1 .. Len(old) /\ Len(old) \in Nat
          /\ new[Len(old) + 1] = id /\ \A i \in DOMAIN old : new[i] = old[i]
      BY <3>1, <3>2
    <3> HIDE DEF new
    <3>4. \A i \in DOMAIN new : i \in DOMAIN old \/ i = Len(old) + 1
      BY <3>3
    <3>5. \A i \in DOMAIN old : old[i] # id
      BY <3>1 DEF Entries
    <3>6. \A i, j \in DOMAIN new : new[i] = new[j] => i = j
      BY <3>2, <3>3, <3>4, <3>5
    <3>7. QED
      BY <3>1, <3>6 DEF ToldOnce
  <2>2. CASE t \notin Lanes
    BY <1>11, <2>2 DEF Core, ToldOnce
  <2>3. QED
    BY <2>1, <2>2
<1>16. QED
  BY <1>12, <1>13, <1>14, <1>15

LEMMA UndoKeeps ==
    ASSUME TypeOK, LockInv, Core, NEW t \in Threads, Undo(t)
    PROVE  Kept' /\ (\A o \in Threads : Adds(o, task[o])') /\ ToldOnce'
<1>1. /\ task[t].at = "undo" /\ task[t].at \in AtWork
      /\ UNCHANGED <<cache, file, told>> /\ Goes(t, Idle)
  BY DEF Undo, AtWork, Ends
<1>2. /\ cache = 1 /\ task[t].session = 1 /\ Content(t) = sessions[1].content
      /\ Content(t) \in Contents /\ Holds(Content(t)) /\ told.audits \in Seq(Commits)
      /\ task[t].id \in Commits /\ (task[t].kind = "finalize" <=> t \in Lanes)
  BY <1>1, WorksAtOne
<1>3. Idle.at = "idle" /\ task'[t] = Idle /\ \A o \in Threads \ {t} : task'[o] = task[o]
  BY <1>1, IdleTyped, ThreadGoes
<1>4. sessions'[1].content = Undone(t) /\ Adds(t, task[t])
  BY <1>2, UndoDoes DEF Core
<1> DEFINE id == task[t].id
           before == sessions[1].content
           after == sessions'[1].content
<1>5. before.audits \in Seq(Commits) /\ told.commits \subseteq before.commits
      /\ Entries(told.audits) \subseteq Entries(before.audits)
  BY <1>2 DEF Contents, Holds
<1>6. t \notin Lanes => t = "round"
  BY DEF Threads
<1>7. told.commits \subseteq after.commits /\ (t \in Lanes => after.commits = before.commits)
  <2>1. IF task[t].kind = "commit" THEN after.commits = task[t].snapshot.commits
        ELSE after.commits = before.commits
    BY <1>1, <1>2, <1>4, UndoneDoes
  <2>2. task[t].kind = "commit" => told.commits \subseteq task[t].snapshot.commits
    BY <1>1, <1>2, <1>4, <1>6 DEF Adds
  <2>3. QED
    BY <1>2, <1>5, <2>1, <2>2
<1>8. Entries(told.audits) \subseteq Entries(after.audits) /\ (t \notin Lanes => after.audits = before.audits)
  <2>1. CASE t \in Lanes
    <3> DEFINE old == before.audits
               new == SubSeq(old, 1, Len(old) - 1)
    <3>1. /\ old # <<>> /\ old[Len(old)] = id /\ id \notin Entries(told.audits)
          /\ old \in Seq(Commits) /\ Entries(told.audits) \subseteq Entries(old)
      BY <1>1, <1>4, <1>5, <2>1 DEF Adds
    <3>2. after.audits = new
      BY <1>1, <1>2, <1>4, <2>1, <3>1, UndoneDoes
    <3> HIDE DEF old, id
    <3>3. /\ DOMAIN old = 1 .. Len(old) /\ Len(old) \in Nat /\ Len(old) >= 1
          /\ DOMAIN new = 1 .. (Len(old) - 1) /\ \A i \in 1 .. (Len(old) - 1) : new[i] = old[i]
      BY <3>1
    <3> HIDE DEF new
    <3>4. ASSUME NEW e \in Entries(told.audits) PROVE e \in Entries(new)
      <4>1. PICK i \in DOMAIN old : old[i] = e
        BY <3>1 DEF Entries
      <4>2. i # Len(old)
        BY <3>1, <3>4, <4>1
      <4>3. i \in 1 .. (Len(old) - 1)
        BY <3>3, <4>1, <4>2
      <4>4. QED
        BY <3>3, <4>1, <4>3 DEF Entries
    <3>5. QED
      BY <2>1, <3>2, <3>4
  <2>2. CASE t \notin Lanes
    <3>1. after.audits = before.audits
      BY <1>1, <1>2, <1>4, <2>2, UndoneDoes
    <3>2. QED
      BY <1>5, <2>2, <3>1
  <2>3. QED
    BY <2>1, <2>2
<1>9. Kept'
  <2>1. Holds(sessions[1].content)'
    BY <1>1, <1>7, <1>8 DEF Holds, Entries
  <2>2. file' # Garbled /\ Holds(file)'
    BY <1>1 DEF Core, Kept, Holds, Entries
  <2>3. ASSUME NEW o \in Threads, task'[o].at = "write" PROVE Holds(task[o].payload)'
    <3>1. o # t /\ task'[o] = task[o]
      BY <1>3, <2>3
    <3>2. QED
      BY <1>1, <2>3, <3>1 DEF Core, Kept, Holds, Entries
  <2>4. QED
    BY <2>1, <2>2, <2>3 DEF Kept
<1>10. Adds(t, task[t])'
  BY <1>3 DEF Adds, AtWork
<1>11. ASSUME NEW o \in Threads \ {t} PROVE Adds(o, task[o])'
  BY <1>1, <1>7, <1>8, IdleTyped, OthersAdd
<1>12. ToldOnce'
  BY <1>1 DEF Core, ToldOnce
<1>13. QED
  BY <1>9, <1>10, <1>11, <1>12
LEMMA CoreStep ==
    ASSUME TypeOK, LockInv, Core, HandlersNext, Quiet'
    PROVE  Core'
<1>1. OneSession' /\ OneSaves'
  BY SessionStep, SavesStep DEF Core
<1>2. AtWork \cap {"idle", "lock", "open", "install"} = {} /\ Idle.at = "idle" /\ Idle \in Tasks
  BY IdleTyped DEF AtWork
<1>3. "round" \notin Lanes
  BY HandlersAssumption
<1>4. ASSUME NEW t \in Threads, NEW now, now.at \notin AtWork \/ now.at = "begin" PROVE Adds(t, now)
  BY <1>4 DEF Adds, AtWork
<1>5. SUFFICES Kept' /\ (\A o \in Threads : Adds(o, task[o])') /\ ToldOnce'
  BY <1>1 DEF Core
<1>6. CASE Request
  <2>1. PICK now \in Tasks : Goes("round", now) /\ now.at = "open"
    BY <1>6, RequestDoes
  <2>2. UNCHANGED <<sessions, cache, file, told>> /\ "round" \in Threads
    BY <1>6 DEF Request, Threads
  <2>3. now.at \notin AtWork /\ now.at # "write"
    BY <1>2, <2>1
  <2>4. Adds("round", now)
    BY <1>4, <2>2, <2>3
  <2>5. QED
    BY <2>1, <2>2, <2>3, <2>4, CalmStep
<1>7. ASSUME NEW t \in Lanes, Finalize(t)
      PROVE  Kept' /\ (\A o \in Threads : Adds(o, task[o])') /\ ToldOnce'
  <2>1. PICK now \in Tasks : Goes(t, now) /\ now.at = "lock"
    BY <1>7, FinalizeDoes
  <2>2. UNCHANGED <<sessions, cache, file, told>> /\ t \in Threads
    BY <1>7 DEF Finalize, Threads
  <2>3. now.at \notin AtWork /\ now.at # "write"
    BY <1>2, <2>1
  <2>4. Adds(t, now)
    BY <1>4, <2>2, <2>3
  <2>5. QED
    BY <2>1, <2>2, <2>3, <2>4, CalmStep
<1>8. ASSUME NEW t \in Threads, Handles(t)
      PROVE  Kept' /\ (\A o \in Threads : Adds(o, task[o])') /\ ToldOnce'
  <2>1. CASE Acquire(t)
    <3>1. PICK now \in Tasks : Goes(t, now) /\ now.at = "open"
      BY <2>1, AcquireDoes
    <3>2. UNCHANGED <<sessions, cache, file, told>>
      BY <2>1 DEF Acquire
    <3>3. now.at \notin AtWork /\ now.at # "write"
      BY <1>2, <3>1
    <3>4. Adds(t, now)
      BY <1>4, <3>3
    <3>5. QED
      BY <3>1, <3>2, <3>3, <3>4, CalmStep
  <2>2. CASE Open(t)
    <3>1. PICK now \in Tasks :
             /\ Goes(t, now)
             /\ now.at \in {"idle", "install"} \/ (now.at = "begin" /\ cache # 0)
      BY <1>2, <2>2, OpenDoes
    <3>2. UNCHANGED <<sessions, cache, file, told>>
      BY <2>2 DEF Open
    <3>3. Adds(t, now)
      BY <1>2, <1>4, <3>1
    <3>4. now.at # "write" /\ (now.at \in AtWork => cache = 1)
      BY <1>2, <3>1 DEF Core, OneSession
    <3>5. QED
      BY <3>1, <3>2, <3>3, <3>4, CalmStep
  <2>3. CASE Install(t)
    <3>1. cache = 0 /\ task[t].at = "install"
      BY <2>3 DEF Install, Crosses, Quiet
    <3>2. sessions = <<>> /\ task[t].payload = file
      BY <3>1 DEF Core, OneSession
    <3>3. PICK now \in Tasks : Goes(t, now) /\ now.at = "begin"
      BY <2>3, InstallDoes
    <3>4. cache' = 1 /\ sessions'[1].content = file /\ UNCHANGED <<file, told>>
      <4>1. Len(sessions) = 0
        BY <3>2
      <4>2. /\ Len(sessions') = Len(sessions) + 1 /\ cache' = Len(sessions')
            /\ sessions'[cache'].content = task[t].payload
        BY <1>2, <2>3, InstallDoes
      <4>3. UNCHANGED <<file, told>>
        BY <2>3 DEF Install
      <4>4. cache' = 1
        BY <4>1, <4>2
      <4>5. QED
        BY <3>2, <4>2, <4>3, <4>4
    <3>5. task'[t] = now /\ \A o \in Threads \ {t} : task'[o] = task[o]
      BY <3>3, ThreadGoes
    <3>6. \A o \in Threads : task[o].at \notin AtWork
      BY <3>1 DEF Core, OneSession
    <3>7. \A o \in Threads : task'[o].at \notin AtWork \/ task'[o].at = "begin"
      BY <3>3, <3>5, <3>6
    <3>8. Kept'
      <4>1. \A o \in Threads : task'[o].at # "write"
        BY <3>7 DEF AtWork
      <4>2. file' # Garbled /\ Holds(file)'
        BY <3>4 DEF Core, Kept, Holds, Entries
      <4>3. Holds(sessions[1].content)'
        BY <3>4, <4>2 DEF Holds, Entries
      <4>4. QED
        BY <4>1, <4>2, <4>3 DEF Kept
    <3>9. \A o \in Threads : Adds(o, task[o])'
      BY <3>7 DEF Adds, AtWork
    <3>10. QED
      BY <3>4, <3>8, <3>9 DEF Core, ToldOnce
  <2>4. CASE Begin(t)
    <3>1. PICK now \in Tasks :
             /\ Goes(t, now)
             /\ \/ now = Idle
                \/ /\ now.at = "apply" /\ now.snapshot = Content(t) /\ now.id = task[t].id
                   /\ now.kind = task[t].kind
                   /\ task[t].kind = "finalize" => ~Terminal(t)
      BY <2>4, BeginDoes
    <3>2. UNCHANGED <<cache, file, told>> /\ task[t].at \in AtWork
      BY <2>4 DEF Begin, AtWork
    <3>3. /\ cache = 1 /\ Content(t) = sessions[1].content /\ Holds(Content(t))
          /\ (task[t].kind = "finalize" <=> t \in Lanes) /\ task[t].session = 1
      BY <3>2, WorksAtOne
    <3>4. sessions'[1].content = sessions[1].content
      <4>1. 1 \in DOMAIN sessions
        BY <3>2, <3>3, ContentTyped
      <4>2. QED
        BY <2>4, <4>1, BeginDoes
    <3>5. Adds(t, now)
      <4>1. CASE now = Idle
        BY <1>2, <1>4, <4>1
      <4>2. CASE now.at = "apply"
        <5>1. now # Idle
          BY <1>2, <4>2
        <5>2. t \in Lanes => now.id \notin Entries(told.audits)
          <6>1. t \in Lanes => task[t].id \notin Entries(Content(t).audits)
            BY <3>1, <3>3, <5>1 DEF Terminal, Entries
          <6>2. QED
            BY <3>1, <3>3, <5>1, <6>1 DEF Holds
        <5>3. told.commits \subseteq now.snapshot.commits
          BY <3>1, <3>3, <5>1 DEF Holds
        <5>4. QED
          BY <4>2, <5>2, <5>3 DEF Adds
      <4>3. QED
        BY <3>1, <4>1, <4>2
    <3>6. now.at # "write"
      BY <1>2, <3>1
    <3>7. QED
      BY <3>1, <3>2, <3>3, <3>4, <3>5, <3>6, CalmStep
  <2>5. CASE Apply(t)
    <3>1. PICK now \in Tasks : Goes(t, now) /\ now.at = "record" /\ Same(t, now)
      BY <2>5, ApplyDoes
    <3>2. UNCHANGED <<cache, file, told>> /\ task[t].at = "apply" /\ task[t].at \in AtWork
      BY <2>5 DEF Apply, AtWork
    <3>3. cache = 1 /\ task[t].session = 1 /\ Content(t) = sessions[1].content
      BY <3>2, WorksAtOne
    <3>4. /\ sessions'[1].content.commits = sessions[1].content.commits
          /\ sessions'[1].content.audits = sessions[1].content.audits
      BY <2>5, <3>3, ApplyDoes
    <3>5. Adds(t, now)
      <4>1. Adds(t, task[t])
        BY DEF Core
      <4>2. QED
        BY <3>1, <3>2, <4>1 DEF Adds, Same, AtWork
    <3>6. QED
      BY <3>1, <3>2, <3>3, <3>4, <3>5, CalmStep
  <2>6. CASE Record(t)
    BY <2>6, RecordKeeps
  <2>7. CASE Build(t)
    <3>1. PICK now \in Tasks :
               Goes(t, now) /\ now.at = "write" /\ Same(t, now) /\ now.payload = Content(t)
      BY <2>7, BuildDoes
    <3>2. UNCHANGED <<sessions, cache, file, told>> /\ task[t].at = "build" /\ task[t].at \in AtWork
      BY <2>7 DEF Build, AtWork
    <3>3. /\ cache = 1 /\ Content(t) = sessions[1].content /\ Holds(Content(t))
          /\ Content(t) \in Contents
      BY <3>2, WorksAtOne
    <3>4. Adds(t, now)
      <4>1. Adds(t, task[t])
        BY DEF Core
      <4>2. t \in Lanes => now.id \in Entries(now.payload.audits)
        <5>1. SUFFICES ASSUME t \in Lanes PROVE now.id \in Entries(now.payload.audits)
          OBVIOUS
        <5>2. Content(t).audits # <<>> /\ Content(t).audits[Len(Content(t).audits)] = now.id
          BY <3>1, <3>2, <3>3, <4>1, <5>1 DEF Adds, Same
        <5>3. Content(t).audits \in Seq(Commits)
          BY <3>3 DEF Contents
        <5>4. Len(Content(t).audits) \in DOMAIN Content(t).audits
          BY <5>2, <5>3
        <5>5. QED
          BY <3>1, <5>2, <5>4 DEF Entries
      <4>3. QED
        BY <3>1, <3>2, <3>3, <4>1, <4>2 DEF Adds, Same, AtWork
    <3>5. QED
      BY <3>1, <3>2, <3>3, <3>4, CalmStep
  <2>8. CASE Write(t)
    BY <2>8, WriteKeeps
  <2>9. CASE Refused(t)
    <3>1. PICK now \in Tasks : Goes(t, now) /\ now.at = "undo" /\ Same(t, now)
      BY <2>9, RefusedDoes
    <3>2. UNCHANGED <<sessions, cache, file, told>> /\ task[t].at = "write" /\ task[t].at \in AtWork
      BY <2>9 DEF Refused, AtWork
    <3>3. cache = 1
      BY <3>2, WorksAtOne
    <3>4. Adds(t, now)
      <4>1. Adds(t, task[t])
        BY DEF Core
      <4>2. QED
        BY <3>1, <3>2, <4>1 DEF Adds, Same, AtWork
    <3>5. QED
      BY <3>1, <3>2, <3>3, <3>4, CalmStep
  <2>10. CASE Undo(t)
    BY <2>10, UndoKeeps
  <2>11. QED
    BY <1>8, <2>1, <2>2, <2>3, <2>4, <2>5, <2>6, <2>7, <2>8, <2>9, <2>10 DEF Handles
<1>9. CASE Crash
  <2>1. /\ cache' = 0 /\ UNCHANGED <<file, told>> /\ \A o \in Threads : task'[o].at = "idle"
    BY <1>2, <1>9 DEF Crash
  <2>2. file' # Garbled /\ Holds(file)'
    BY <2>1 DEF Core, Kept, Holds, Entries
  <2>3. Kept'
    BY <2>1, <2>2 DEF Kept
  <2>4. \A o \in Threads : Adds(o, task[o])'
    BY <2>1 DEF Adds, AtWork
  <2>5. QED
    BY <2>1, <2>3, <2>4 DEF Core, ToldOnce
<1>10. QED
  BY <1>6, <1>7, <1>8, <1>9 DEF HandlersNext

-----------------------------------------------------------------------------
(* The theorems *)

LEMMA HandlersStart == ASSUME HandlersInit PROVE HandlersInv
<1> USE DEF HandlersInit
<1>1. Idle.at = "idle" /\ Idle \in Tasks /\ New \in Contents /\ New.commits = {} /\ New.audits = <<>>
  BY IdleTyped, NewTyped
<1> DEFINE one == [content |-> New, started |-> TRUE, made |-> 0]
<1>2. one \in LiveSessions /\ one.content = New
  BY <1>1 DEF LiveSessions
<1>3. sessions = <<one>>
  OBVIOUS
<1> HIDE DEF one
<1>4. sessions \in Seq(LiveSessions) /\ Len(sessions) = 1 /\ sessions[1] = one
  <2>1. <<one>> \in Seq(LiveSessions)
    BY <1>2
  <2>2. Len(<<one>>) = 1 /\ <<one>>[1] = one
    OBVIOUS
  <2>3. QED
    BY <1>3, <2>1, <2>2
<1>5. \A t \in Threads : task[t] = Idle
  OBVIOUS
<1>6. TypeOK
  <2>1. task \in [Threads -> Tasks]
    BY <1>1
  <2>2. told \in [commits : SUBSET Commits, audits : Seq(Commits)]
    OBVIOUS
  <2>3. cache \in 0 .. Len(sessions)
    BY <1>4
  <2>4. file \in Contents \cup {Garbled} /\ crossed \in SUBSET Crossings /\ lock \in Lanes \cup {"free"}
    BY <1>1
  <2>5. requests \in 0 .. MaxRequests /\ faults \in 0 .. MaxFaults
    BY HandlersAssumption
  <2>6. QED
    BY <1>4, <2>1, <2>2, <2>3, <2>4, <2>5 DEF TypeOK
<1>7. LockInv
  BY <1>1, <1>5, HandlersAssumption DEF LockInv, Threads, AtWork
<1>8. OneSession /\ OneSaves
  BY <1>1, <1>4, <1>5 DEF OneSession, OneSaves, AtWork
<1>9. Kept
  <2>1. file # Garbled
    <3>1. "manager" \in DOMAIN New /\ "manager" \notin DOMAIN Garbled
      BY DEF New, Garbled
    <3>2. QED
      BY <3>1
  <2>2. Holds(New)
    BY <1>1 DEF Holds, Entries
  <2>3. QED
    BY <1>1, <1>2, <1>4, <1>5, <2>1, <2>2 DEF Kept
<1>10. \A t \in Threads : Adds(t, task[t])
  BY <1>1, <1>5 DEF Adds, AtWork
<1>11. ToldOnce
  BY DEF ToldOnce
<1>12. QED
  BY <1>6, <1>7, <1>8, <1>9, <1>10, <1>11 DEF HandlersInv, QuietInv, Core

\* The inductive invariant of the handlers, the session and its file.
THEOREM HandlersInvariant == HandlersSpec => []HandlersInv
<1>1. ASSUME HandlersInv, [HandlersNext]_vars PROVE HandlersInv'
  <2>1. CASE HandlersNext
    <3>1. TypeOK' /\ LockInv'
      BY <1>1, <2>1, TypeStep, LockStep DEF HandlersInv
    <3>2. QuietInv'
      BY <1>1, <2>1, QuietBefore, CoreStep DEF HandlersInv, QuietInv
    <3>3. QED
      BY <3>1, <3>2 DEF HandlersInv
  <2>2. CASE UNCHANGED vars
    <3>1. /\ sessions' = sessions /\ cache' = cache /\ file' = file /\ lock' = lock
          /\ task' = task /\ told' = told /\ crossed' = crossed
          /\ requests' = requests /\ faults' = faults
      BY <2>2 DEF vars
    <3>2. TypeOK'
      BY <1>1, <3>1 DEF HandlersInv, TypeOK
    <3>3. LockInv'
      BY <1>1, <3>1 DEF HandlersInv, LockInv
    <3>4. ASSUME Core PROVE Core'
      <4>1. OneSession'
        BY <3>1, <3>4 DEF Core, OneSession
      <4>2. OneSaves' /\ ToldOnce'
        BY <3>1, <3>4 DEF Core, OneSaves, ToldOnce
      <4>3. Kept'
        BY <3>1, <3>4 DEF Core, Kept, Holds, Entries
      <4>4. \A o \in Threads : Adds(o, task[o])'
        BY <3>1, <3>4 DEF Core, Adds
      <4>5. QED
        BY <4>1, <4>2, <4>3, <4>4 DEF Core
    <3>5. QuietInv'
      BY <1>1, <3>1, <3>4 DEF HandlersInv, QuietInv, Quiet
    <3>6. QED
      BY <3>2, <3>3, <3>5 DEF HandlersInv
  <2>3. QED
    BY <1>1, <2>1, <2>2
<1>2. QED
  BY <1>1, HandlersStart, PTL DEF HandlersSpec

\* The state has the form the code gives it, whatever has crossed: an index is within
\* its list, a session's lock is a lane's or free.
THEOREM HandlersTyped == HandlersSpec => []TypeOK
BY HandlersInvariant, PTL DEF HandlersInv

\* Proposals of a move are decided and told once (finalize_librarian_proposals under
\* its lock, its audit in the file before it is told): FinalizedOnce, for any number
\* of lanes, requests and crashes.
THEOREM FinalizationsToldOnce == HandlersSpec => []FinalizedOnce
<1>1. HandlersInv => FinalizedOnce
  BY DEF HandlersInv, QuietInv, Quiet, Core, ToldOnce, FinalizedOnce
<1>2. QED
  BY <1>1, HandlersInvariant, PTL

\* What was answered as done is in the session's file: ToldIsSaved.  A rollback that
\* crosses another handler (crossed holds "undo") does not endanger it, so more is
\* shown than the property says.
THEOREM ToldStaysSaved == HandlersSpec => [](Quiet => file # Garbled /\ Holds(file))
<1>1. HandlersInv => (Quiet => file # Garbled /\ Holds(file))
  BY DEF HandlersInv, QuietInv, Core, Kept
<1>2. QED
  BY <1>1, HandlersInvariant, PTL

\* The property of the run, of which nothing is asked once anything has crossed.
THEOREM ToldSaved == HandlersSpec => []ToldIsSaved
<1>1. (Quiet => file # Garbled /\ Holds(file)) => ToldIsSaved
  BY DEF Quiet, Holds, Entries, ToldIsSaved
<1>2. QED
  BY <1>1, ToldStaysSaved, PTL

=============================================================================

------------------------- MODULE ConcurrentHandlers -------------------------
(***************************************************************************)
(* The Domain Host answers each request on a thread of its own.  The       *)
(* runtime sends the requests of a round one after the other, and beside   *)
(* them the librarian's finalization, which a failed round leaves behind.  *)
(* Finalizations take the session's lock; nothing else does.  A handler is *)
(* therefore not one step here: it looks the session up, reads, changes    *)
(* it, builds what is to be saved, saves it or undoes what it did.         *)
(***************************************************************************)
EXTENDS Integers, Sequences, FiniteSets

CONSTANTS
    Lanes,          \* the finalizations that may be under way at once
    MaxRequests,    \* bound: requests the host receives
    MaxFaults       \* bound: refused saves and crashes

ASSUME HandlersAssumption ==
    /\ {"round", "free"} \cap Lanes = {}
    /\ MaxRequests \in Nat
    /\ MaxFaults \in Nat

VARIABLES
    sessions,       \* every LiveSession made since the host was started
    cache,          \* the one that is looked up, 0 for none
    file,           \* the session's file
    lock,           \* the thread that holds the session's lock
    task,           \* what each thread is doing
    told,           \* history: the commits and the audits answered as done
    crossed,        \* history: what has crossed so far
    requests, faults \* counters that bound the model

vars == <<sessions, cache, file, lock, task, told, crossed, requests, faults>>

Threads == Lanes \cup {"round"}
Commits == 1 .. MaxRequests

\* What a ContinuityManager holds: its turns, and the librarian's changes.
Managers == [turn : Nat, issues : SUBSET Commits]

\* "commits" stands for the commit ids, and for the history entries, the round and
\* the dedup records that are written and undone together with them; "posts" for
\* the entries of the player's turns, of skips and of presentations.
Contents == [manager : Managers, commits : SUBSET Commits, posts : Nat, audits : Seq(Commits)]

\* What is not saved: whether the runtime's round was started in this session, and
\* which manager it has, as one that is restored is another object.
LiveSessions == [content : Contents, started : BOOLEAN, made : Nat]

New == [manager |-> [turn |-> 0, issues |-> {}], commits |-> {}, posts |-> 0, audits |-> <<>>]

\* What a file is when two threads have written it at once.
Garbled == [garbled |-> TRUE]

Crossings == {"opens", "undo", "saves"}

Phases ==
    {"idle", "lock", "open", "install", "begin", "apply", "record", "build", "write", "undo"}

Tasks ==
    [at : Phases,
     kind : {"start", "commit", "post", "note", "finalize"},
     id : 0 .. MaxRequests,          \* the commit it makes, or finalizes
     session : Nat,                  \* the LiveSession it holds
     expected : Nat,                 \* expected_turn_index
     made : Nat,                     \* the manager it holds
     snapshot : Contents,            \* what it would restore
     payload : Contents]             \* what it is about to save, or has loaded

Idle == [at |-> "idle", kind |-> "post", id |-> 0, session |-> 0, expected |-> 0, made |-> 0,
         snapshot |-> New, payload |-> New]

TypeOK ==
    /\ sessions \in Seq(LiveSessions)
    /\ cache \in 0 .. Len(sessions)
    /\ file \in Contents \cup {Garbled}
    /\ lock \in Lanes \cup {"free"}
    /\ task \in [Threads -> Tasks]
    /\ told \in [commits : SUBSET Commits, audits : Seq(Commits)]
    /\ crossed \in SUBSET Crossings
    /\ requests \in 0 .. MaxRequests
    /\ faults \in 0 .. MaxFaults

HandlersInit ==
    /\ sessions = <<[content |-> New, started |-> TRUE, made |-> 0]>>
    /\ cache = 1
    /\ file = New
    /\ lock = "free"
    /\ task = [t \in Threads |-> Idle]
    /\ told = [commits |-> {}, audits |-> <<>>]
    /\ crossed = {}
    /\ requests = 0
    /\ faults = 0

-----------------------------------------------------------------------------
(* Threads *)

Goes(t, now) == task' = [task EXCEPT ![t] = now]

Content(t) == sessions[task[t].session].content

\* The handler's session with this content, whichever one is looked up by now.
Becomes(t, content) == sessions' = [sessions EXCEPT ![task[t].session].content = content]

LockLeft_OnSuccess(t) ==
    lock' = IF lock = t /\ task[t].at # "undo" THEN "free" ELSE lock

\* The scope of the lock is left on every way out.
LockLeft(t) == lock' = IF lock = t THEN "free" ELSE lock

Ends(t) == Goes(t, Idle) /\ LockLeft(t)

\* Another handler that has changed the session and may still undo or save it.
Unsettled(t) == task[t].at \in {"record", "build", "write", "undo"}

Crosses(how, condition) == crossed' = IF condition THEN crossed \cup {how} ELSE crossed

-----------------------------------------------------------------------------
(* Requests *)

\* The turn the runtime has got to.
TurnTold == Cardinality(told.commits)

\* The runtime's next request: a round, a move of it, the player's turn, or an entry
\* that is not undone (record_player_skip, record_presentation).
Request ==
    /\ task["round"].at = "idle"
    /\ requests < MaxRequests
    /\ requests' = requests + 1
    /\ \E kind \in {"start", "commit", "post", "note"} :
          Goes("round", [Idle EXCEPT !.at = "open", !.kind = kind, !.id = requests + 1,
                                     !.expected = TurnTold])
    /\ UNCHANGED <<sessions, cache, file, lock, told, crossed, faults>>

\* finalize_librarian_proposals of a move that was answered as committed.
Finalize(t) ==
    /\ task[t].at = "idle"
    /\ requests < MaxRequests
    /\ requests' = requests + 1
    /\ \E c \in told.commits :
          Goes(t, [Idle EXCEPT !.at = "lock", !.kind = "finalize", !.id = c])
    /\ UNCHANGED <<sessions, cache, file, lock, told, crossed, faults>>

LockFree_Ignored == TRUE

LockFree == lock = "free"

\* session_scope
Acquire(t) ==
    /\ task[t].at = "lock"
    /\ LockFree
    /\ lock' = t
    /\ Goes(t, [task[t] EXCEPT !.at = "open"])
    /\ UNCHANGED <<sessions, cache, file, told, crossed, requests, faults>>

-----------------------------------------------------------------------------
(* The session is looked up: require, get, open_session *)

\* It is in the cache, or read from its file; a file that cannot be read ends the
\* request.
Open(t) ==
    /\ task[t].at = "open"
    /\ IF cache # 0
       THEN Goes(t, [task[t] EXCEPT !.at = "begin", !.session = cache]) /\ UNCHANGED lock
       ELSE IF file = Garbled
            THEN Ends(t)
            ELSE Goes(t, [task[t] EXCEPT !.at = "install", !.payload = file]) /\ UNCHANGED lock
    /\ UNCHANGED <<sessions, cache, file, told, crossed, requests, faults>>

\* What was read becomes the session, also when another thread has put one there
\* since.
Install(t) ==
    /\ task[t].at = "install"
    /\ sessions' = Append(sessions, [content |-> task[t].payload, started |-> FALSE, made |-> 0])
    /\ cache' = Len(sessions')
    /\ Crosses("opens", cache # 0)
    /\ Goes(t, [task[t] EXCEPT !.at = "begin", !.session = cache', !.payload = New])
    /\ UNCHANGED <<file, lock, told, requests, faults>>

-----------------------------------------------------------------------------
(* The handler at work *)

\* The anchor of a move: the turn it was inferred against is the session's.
TurnMatches(t) == Content(t).manager.turn = task[t].expected

\* find_terminal_audit_for_commit
Terminal(t) == \E i \in DOMAIN Content(t).audits : Content(t).audits[i] = task[t].id

\* Answered at once: a round is started, a move is of a round that this session does
\* not know or of another turn, or a finalization was already made.
AnsweredAtOnce(t) ==
    \/ task[t].kind = "start"
    \/ task[t].kind = "commit" /\ (~sessions[task[t].session].started \/ ~TurnMatches(t))
    \/ task[t].kind = "finalize" /\ Terminal(t)

\* Otherwise what may have to be restored is put aside.
Begin(t) ==
    /\ task[t].at = "begin"
    /\ IF AnsweredAtOnce(t)
       THEN Ends(t)
       ELSE /\ Goes(t, [task[t] EXCEPT !.at = "apply", !.snapshot = Content(t),
                                       !.made = sessions[task[t].session].made])
            /\ UNCHANGED lock
    /\ sessions' = IF task[t].kind = "start"
                   THEN [sessions EXCEPT ![task[t].session].started = TRUE]
                   ELSE sessions
    /\ UNCHANGED <<cache, file, told, crossed, requests, faults>>

\* process_turn, on the manager the handler was begun with: one restored since is
\* another, and does not see the turn.
TurnProcessed(t) ==
    LET manager == Content(t).manager
    IN  IF sessions[task[t].session].made = task[t].made
        THEN [manager EXCEPT !.turn = @ + 1]
        ELSE manager

\* What is decided of the proposals is applied to the manager: the issues change,
\* or nothing was accepted.
Managed(t) ==
    CASE task[t].kind = "commit" -> {TurnProcessed(t)}
      [] task[t].kind = "finalize" ->
            {Content(t).manager, [Content(t).manager EXCEPT !.issues = @ \cup {task[t].id}]}
      [] OTHER -> {Content(t).manager}

Apply(t) ==
    /\ task[t].at = "apply"
    /\ \E manager \in Managed(t) :
          /\ Becomes(t, [Content(t) EXCEPT !.manager = manager])
          /\ Goes(t, [task[t] EXCEPT !.at = "record"])
    /\ UNCHANGED <<cache, file, lock, told, crossed, requests, faults>>

\* The entry, the commit's id and all that goes with it, or the audit.
Recorded(t) ==
    CASE task[t].kind = "commit" -> [Content(t) EXCEPT !.commits = @ \cup {task[t].id}]
      [] task[t].kind = "finalize" -> [Content(t) EXCEPT !.audits = Append(@, task[t].id)]
      [] OTHER -> [Content(t) EXCEPT !.posts = @ + 1]

Record(t) ==
    /\ task[t].at = "record"
    /\ Becomes(t, Recorded(t))
    /\ Goes(t, [task[t] EXCEPT !.at = "build"])
    /\ UNCHANGED <<cache, file, lock, told, crossed, requests, faults>>

-----------------------------------------------------------------------------
(* Saving: persist, and what a refused save leaves *)

Payload_WithoutAudits(t) == [Content(t) EXCEPT !.audits = <<>>]

\* _build_session_payload: the session as it is now, with what others are at.
Payload(t) == Content(t)

Build(t) ==
    /\ task[t].at = "build"
    /\ Crosses("saves", \E o \in Threads \ {t} : Unsettled(o))
    /\ Goes(t, [task[t] EXCEPT !.at = "write", !.payload = Payload(t)])
    /\ UNCHANGED <<sessions, cache, file, lock, told, requests, faults>>

Answered(t) ==
    CASE task[t].kind = "commit" -> [told EXCEPT !.commits = @ \cup {task[t].id}]
      [] task[t].kind = "finalize" -> [told EXCEPT !.audits = Append(@, task[t].id)]
      [] OTHER -> told

\* The file is written over; two threads that write at once may garble it.
Write(t) ==
    /\ task[t].at = "write"
    /\ file' \in {task[t].payload} \cup
                 {f \in {Garbled} : \E o \in Threads \ {t} : task[o].at = "write"}
    /\ told' = Answered(t)
    /\ Ends(t)
    /\ UNCHANGED <<sessions, cache, crossed, requests, faults>>

\* The save is refused, the file is as it was.
Refused(t) ==
    /\ task[t].at = "write"
    /\ faults < MaxFaults
    /\ faults' = faults + 1
    /\ Goes(t, [task[t] EXCEPT !.at = "undo"])
    /\ UNCHANGED <<sessions, cache, file, lock, told, crossed, requests>>

\* A move restores the manager and the ids it found, a finalization the manager,
\* and it drops the last audit; a player's turn drops the last entry.  A skip or a
\* presentation stays.
Undone(t) ==
    LET now == Content(t)
        restored == task[t].snapshot.manager
    IN  CASE task[t].kind = "commit" ->
                [now EXCEPT !.manager = restored, !.commits = task[t].snapshot.commits]
          [] task[t].kind = "finalize" ->
                [now EXCEPT !.manager = restored,
                            !.audits = IF @ = <<>> THEN @ ELSE SubSeq(@, 1, Len(@) - 1)]
          [] task[t].kind = "post" -> [now EXCEPT !.posts = IF @ = 0 THEN 0 ELSE @ - 1]
          [] OTHER -> now

\* The manager that is restored holds more than this handler's change, or another
\* handler is about to change it.
UndoCrosses(t) ==
    LET now == Content(t).manager
        before == task[t].snapshot.manager
    IN  /\ task[t].kind \in {"commit", "finalize"}
        /\ \/ now.turn - before.turn # IF task[t].kind = "commit" THEN 1 ELSE 0
           \/ now.issues \ {task[t].id} # before.issues \ {task[t].id}
           \/ \E o \in Threads \ {t} : task[o].at = "apply" \/ Unsettled(o)

Undo(t) ==
    /\ task[t].at = "undo"
    /\ sessions' = [sessions EXCEPT
           ![task[t].session].content = Undone(t),
           ![task[t].session].made = IF task[t].kind \in {"commit", "finalize"} THEN @ + 1 ELSE @]
    /\ Crosses("undo", UndoCrosses(t))
    /\ Ends(t)
    /\ UNCHANGED <<cache, file, told, requests, faults>>

-----------------------------------------------------------------------------

\* The host's process ends, and is started again with an empty cache.
Crash ==
    /\ faults < MaxFaults
    /\ faults' = faults + 1
    /\ sessions' = <<>>
    /\ cache' = 0
    /\ lock' = "free"
    /\ task' = [t \in Threads |-> Idle]
    /\ UNCHANGED <<file, told, crossed, requests>>

Handles(t) ==
    \/ Acquire(t)
    \/ Open(t)
    \/ Install(t)
    \/ Begin(t)
    \/ Apply(t)
    \/ Record(t)
    \/ Build(t)
    \/ Write(t)
    \/ Refused(t)
    \/ Undo(t)

HandlersNext ==
    \/ Request
    \/ \E t \in Lanes : Finalize(t)
    \/ \E t \in Threads : Handles(t)
    \/ Crash

HandlersSpec == HandlersInit /\ [][HandlersNext]_vars

\* Every thread of the host gets to run.
FairHandlersSpec == HandlersSpec /\ \A t \in Threads : WF_vars(Handles(t))

-----------------------------------------------------------------------------
(* Properties *)

\* Proposals of a move are decided once, however often and by how many threads
\* its finalization is asked for, across restarts (the lock around
\* finalize_librarian_proposals; its audit is in the file before it is told):
\* unless two threads opened the session, or another handler's save crossed.
FinalizedOnce ==
    crossed \cap {"opens", "saves"} = {}
        => \A i, j \in DOMAIN told.audits : told.audits[i] = told.audits[j] => i = j

\* What was answered as done is in the file, for the next host to find, as long as
\* no handler saved the session in the middle of another.
ToldIsSaved ==
    crossed = {}
        => /\ file # Garbled
           /\ told.commits \subseteq file.commits
           /\ {told.audits[i] : i \in DOMAIN told.audits}
                  \subseteq {file.audits[i] : i \in DOMAIN file.audits}

\* No finalization waits forever, whatever fails while the lock is held.
FinalizationsEnd == \A t \in Lanes : task[t].at = "lock" ~> task[t].at = "idle"

=============================================================================

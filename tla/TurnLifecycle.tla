--------------------------- MODULE TurnLifecycle ---------------------------
(***************************************************************************)
(* The life of a player turn between the Streamlit pages and the Node      *)
(* application: a page submits a turn or a skip and waits for the answer;  *)
(* the application client plays one round at a time and refuses a second;  *)
(* a page that stopped waiting polls the application's status to learn how *)
(* the turn ended.  Node runs one callback at a time, so the code between  *)
(* two awaits is one step.  The active session is fixed, and the runtime   *)
(* is up for the whole behaviour.                                          *)
(***************************************************************************)
EXTENDS FiniteSets

CONSTANTS
    Pages,          \* Streamlit pages, each with its own session_state
    Operations,     \* client operation ids: the bound on turns submitted
    Faults,         \* what may go wrong (a subset of AllFaults)
    NoOperation

\* transport: the work before the round fails with an error that has no
\* httpStatus.  http: the domain host answers that work with an HTTP error.
\* round: the round fails.  state: the state read that follows a played round
\* fails.  slow: a page may stop waiting before the answer.  offline: a page
\* may not reach the application.
AllFaults == {"transport", "http", "round", "state", "slow", "offline"}

ASSUME FaultsAssumption == Faults \subseteq AllFaults
ASSUME NoOperationAssumption == NoOperation \notin Operations

VARIABLES
    roundInProgress,    \* the application refuses turns
    current,            \* activeRoundOperation.operation_id
    terminal,           \* lastRoundTerminal
    task,               \* the request of each operation, in the application
    page,               \* what each page remembers
    latest,             \* observer: the operation that began last
    told                \* observer: what pages were told of operations

lifecycleVars == <<roundInProgress, current, terminal, task, page, latest, told>>

-----------------------------------------------------------------------------
(* State *)

Kinds == {"user_turn", "skip_turn"}
Outcomes == {"succeeded", "failed"}

\* posting: up to the record of the player's turn.  playing: runRound, its
\* presentations and the transcript.  closing: the state read of the answer.
RunningStages == {"posting", "playing", "closing"}

Tasks ==
    [at : {"unused", "sent", "over"} \cup RunningStages,
     kind : Kinds,
     milestones : SUBSET Outcomes,      \* round_terminal_* evidence recorded
     answer : {"none", "succeeded", "failed", "refused"}]

PageStates ==
    [mode : {"idle", "waiting", "recovering"},
     op : Operations \cup {NoOperation},    \* pending_operation_id
     seesBusy : BOOLEAN]                    \* runtime_status = "round_in_progress"

Terminals == [op : Operations, outcome : Outcomes]
NoTerminal == [op |-> NoOperation, outcome |-> "none"]

Unused == [at |-> "unused", kind |-> "user_turn", milestones |-> {}, answer |-> "none"]
IdlePage == [mode |-> "idle", op |-> NoOperation, seesBusy |-> FALSE]

\* Operations the application is working on.
Running == {op \in Operations : task[op].at \in RunningStages}

LifecycleInit ==
    /\ roundInProgress = FALSE
    /\ current = NoOperation
    /\ terminal = NoTerminal
    /\ task = [op \in Operations |-> Unused]
    /\ page = [p \in Pages |-> IdlePage]
    /\ latest = NoOperation
    /\ told = {}

-----------------------------------------------------------------------------
(* The application client *)

Available_Always == TRUE

\* _assertRoundAvailable
Available == ~roundInProgress

TerminalReset_Kept(t) == t

\* A new operation forgets the outcome of the one before it.
TerminalReset(t) == NoTerminal

\* The request passes _assertRoundAvailable and _beginRoundOperation.
Accept(op) ==
    /\ task[op].at = "sent"
    /\ Available
    /\ roundInProgress' = TRUE
    /\ current' = op
    /\ latest' = op
    /\ terminal' = TerminalReset(terminal)
    /\ task' = [task EXCEPT ![op].at = "posting"]
    /\ UNCHANGED <<page, told>>

\* The request is answered 409: a round is already in progress.
Refuse(op) ==
    /\ task[op].at = "sent"
    /\ ~Available
    /\ task' = [task EXCEPT ![op].at = "over", ![op].answer = "refused"]
    /\ UNCHANGED <<roundInProgress, current, terminal, page, latest, told>>

\* The domain host recorded the player's turn: _runActiveRound starts.
Posted(op) ==
    /\ task[op].at = "posting"
    /\ task' = [task EXCEPT ![op].at = "playing"]
    /\ UNCHANGED <<roundInProgress, current, terminal, page, latest, told>>

\* The next operation may begin.
RoundReleased == roundInProgress' = FALSE /\ current' = NoOperation

\* The work before the round failed, and _abortRoundOperation releases it.
PostAborted(op) ==
    /\ "transport" \in Faults
    /\ task[op].at = "posting"
    /\ RoundReleased
    /\ task' = [task EXCEPT ![op].at = "over", ![op].answer = "failed"]
    /\ UNCHANGED <<terminal, page, latest, told>>

\* An error with an httpStatus is taken for the 409 of _assertRoundAvailable:
\* nothing is released.
PostRefused(op) ==
    /\ "http" \in Faults
    /\ task[op].at = "posting"
    /\ task' = [task EXCEPT ![op].at = "over", ![op].answer = "failed"]
    /\ UNCHANGED <<roundInProgress, current, terminal, page, latest, told>>

\* The lifecycle evidence of the operation's end.
Recorded(t, outcome) == [t EXCEPT !.milestones = @ \cup {outcome}]

\* buildTerminalOutcome
TerminalOutcome(op, outcome) == [op |-> op, outcome |-> outcome]

\* The round, its presentations and the transcript are done.
RoundSucceeds(op) ==
    /\ task[op].at = "playing"
    /\ terminal' = TerminalOutcome(op, "succeeded")
    /\ task' = [task EXCEPT ![op] = [Recorded(@, "succeeded") EXCEPT !.at = "closing"]]
    /\ UNCHANGED <<roundInProgress, current, page, latest, told>>

\* The state was read, the answer is sent.
Close(op) ==
    /\ task[op].at = "closing"
    /\ RoundReleased
    /\ task' = [task EXCEPT ![op].at = "over", ![op].answer = "succeeded"]
    /\ UNCHANGED <<terminal, page, latest, told>>

\* Any error inside _runActiveRound, also one after the outcome was recorded.
RoundFails(op) ==
    /\ \/ "round" \in Faults /\ task[op].at = "playing"
       \/ "state" \in Faults /\ task[op].at = "closing"
    /\ terminal' = TerminalOutcome(op, "failed")
    /\ RoundReleased
    /\ task' = [task EXCEPT ![op] = [Recorded(@, "failed") EXCEPT !.at = "over",
                                                                 !.answer = "failed"]]
    /\ UNCHANGED <<page, latest, told>>

ApplicationStep(op) ==
    \/ Accept(op) \/ Refuse(op) \/ Posted(op) \/ PostAborted(op) \/ PostRefused(op)
    \/ RoundSucceeds(op) \/ Close(op) \/ RoundFails(op)

-----------------------------------------------------------------------------
(* What a page sees of the application *)

ShownOutcome_WhileRunning(op) == IF terminal.op = op THEN terminal.outcome ELSE "none"
\* The status view withholds the last terminal while a round is in progress,
\* and the page matches it with the operation it waits for.
ShownOutcome(op) ==
    IF ~roundInProgress /\ terminal.op = op THEN terminal.outcome ELSE "none"

\* recovery_poll_once: "processing" covers every status without the outcome.
Phase(p) == IF ShownOutcome(page[p].op) = "none" THEN "processing"
            ELSE ShownOutcome(page[p].op)

\* clear_turn_recovery
Cleared(q) == [q EXCEPT !.mode = "idle", !.op = NoOperation]

Telling(op, outcome) == told' = told \cup {[op |-> op, outcome |-> outcome]}

-----------------------------------------------------------------------------
(* The pages *)

\* refresh_status at the start of a script run; an unreachable application
\* shows as "unavailable", which locks nothing.
Refresh(p) ==
    /\ page[p].mode = "idle"
    /\ \/ page' = [page EXCEPT ![p].seesBusy = roundInProgress]
       \/ "offline" \in Faults /\ page' = [page EXCEPT ![p].seesBusy = FALSE]
    /\ UNCHANGED <<roundInProgress, current, terminal, task, latest, told>>

\* The player sends a turn or skips on a page whose controls are enabled: the
\* script runs again, refreshes the status and posts the request.
Submit(p, op, kind) ==
    /\ page[p].mode = "idle"
    /\ ~page[p].seesBusy
    /\ task[op].at = "unused"
    /\ page' = [page EXCEPT ![p] = [mode |-> "waiting", op |-> op,
                                    seesBusy |-> roundInProgress]]
    /\ task' = [task EXCEPT ![op].at = "sent", ![op].kind = kind]
    /\ UNCHANGED <<roundInProgress, current, terminal, latest, told>>

Answered(p) ==
    LET op == page[p].op IN
    /\ page[p].mode = "waiting"
    /\ task[op].answer # "none"
    /\ Telling(op, task[op].answer)
    /\ page' = [page EXCEPT ![p] = Cleared(@)]
    /\ UNCHANGED <<roundInProgress, current, terminal, task, latest>>

\* The connection fails, before the request arrived or after: the page reports
\* an error and unlocks.
ConnectionLost(p) ==
    LET op == page[p].op IN
    /\ "offline" \in Faults
    /\ page[p].mode = "waiting"
    /\ \/ UNCHANGED task
       \/ task[op].at = "sent" /\ task' = [task EXCEPT ![op].at = "over"]
    /\ Telling(op, "error")
    /\ page' = [page EXCEPT ![p] = Cleared(@)]
    /\ UNCHANGED <<roundInProgress, current, terminal, latest>>

\* TURN_SUBMIT_WAIT_SEC passed.  api_request raises ApiResponseWaitExpired for
\* /api/turns/submit only.
WaitExpires(p) ==
    LET op == page[p].op IN
    /\ "slow" \in Faults
    /\ page[p].mode = "waiting"
    /\ IF task[op].kind = "user_turn"
       THEN /\ page' = [page EXCEPT ![p].mode = "recovering"]
            /\ UNCHANGED told
       ELSE /\ page' = [page EXCEPT ![p] = Cleared(@)]
            /\ Telling(op, "error")
    /\ UNCHANGED <<roundInProgress, current, terminal, task, latest>>

\* A poll that finds no outcome yet.
Poll(p) ==
    /\ page[p].mode = "recovering"
    /\ Phase(p) = "processing"
    /\ page' = [page EXCEPT ![p].seesBusy = roundInProgress]
    /\ UNCHANGED <<roundInProgress, current, terminal, task, latest, told>>

PollLearns(p) ==
    /\ page[p].mode = "recovering"
    /\ Phase(p) \in Outcomes
    /\ Telling(page[p].op, Phase(p))
    /\ page' = [page EXCEPT ![p] = [Cleared(@) EXCEPT !.seesBusy = roundInProgress]]
    /\ UNCHANGED <<roundInProgress, current, terminal, task, latest>>

BudgetSpent_OnlyOffline(p) == FALSE

\* The recovery budget may be spent at any poll that finds no outcome.
BudgetSpent(p) == Phase(p) = "processing"

\* The last poll of the budget: the page unlocks without an outcome.
GiveUp(p) ==
    /\ page[p].mode = "recovering"
    /\ BudgetSpent(p)
    /\ page' = [page EXCEPT ![p] = [Cleared(@) EXCEPT !.seesBusy = roundInProgress]]
    /\ UNCHANGED <<roundInProgress, current, terminal, task, latest, told>>

\* The application is out of reach for the whole budget.
StatusUnknown(p) ==
    /\ "offline" \in Faults
    /\ page[p].mode = "recovering"
    /\ page' = [page EXCEPT ![p] = Cleared(@)]
    /\ UNCHANGED <<roundInProgress, current, terminal, task, latest, told>>

PageStep(p) ==
    \/ Refresh(p)
    \/ \E op \in Operations, kind \in Kinds : Submit(p, op, kind)
    \/ Answered(p) \/ ConnectionLost(p) \/ WaitExpires(p)
    \/ Poll(p) \/ PollLearns(p) \/ GiveUp(p) \/ StatusUnknown(p)

-----------------------------------------------------------------------------
LifecycleNext == \/ \E op \in Operations : ApplicationStep(op)
        \/ \E p \in Pages : PageStep(p)

LifecycleSpec == LifecycleInit /\ [][LifecycleNext]_lifecycleVars

\* Every request and every call of the application is eventually answered or
\* fails; a waiting page reads its answer; a recovering page keeps polling and
\* its budget is finite.  No fairness on what players do.
Fairness ==
    /\ \A op \in Operations : WF_lifecycleVars(ApplicationStep(op))
    /\ \A p \in Pages : WF_lifecycleVars(Answered(p)) /\ WF_lifecycleVars(PollLearns(p) \/ GiveUp(p))

FairSpec == LifecycleSpec /\ Fairness

-----------------------------------------------------------------------------
(* Properties *)

\* The application's fields and each page's memory are well formed, and a page
\* remembers an operation exactly while its controls are locked on one.
TypeOK ==
    /\ roundInProgress \in BOOLEAN
    /\ current \in Operations \cup {NoOperation}
    /\ latest \in Operations \cup {NoOperation}
    /\ terminal \in Terminals \cup {NoTerminal}
    /\ task \in [Operations -> Tasks]
    /\ page \in [Pages -> PageStates]
    /\ told \subseteq [op : Operations, outcome : Outcomes \cup {"refused", "error"}]
    /\ \A p \in Pages : page[p].mode = "idle" <=> page[p].op = NoOperation

\* Two operations never run at the same time, whatever pages submit, and the
\* one that runs is the one activeRoundOperation names.
OneRoundAtATime ==
    \A op \in Running : roundInProgress /\ current = op

\* A page that was told its turn succeeded is never contradicted by a failure
\* of the same operation: the state read after the round may still fail.
NoFalseSuccess ==
    \A op \in Operations :
        [op |-> op, outcome |-> "succeeded"] \in told => "failed" \notin task[op].milestones

\* Once the application is free, the terminal it shows is of the operation that
\* began last, never of an earlier one.
ShownOutcomeIsLatest ==
    ~roundInProgress /\ terminal # NoTerminal => terminal.op = latest

\* A page never waits or recovers for ever.
PageUnlocks == \A p \in Pages : page[p].mode # "idle" ~> page[p].mode = "idle"

=============================================================================

-------------------------- MODULE Application_proofs --------------------------
(***************************************************************************)
(* Proofs about the application: the life of a turn between the pages and  *)
(* the client (TurnLifecycle), for every set of pages, operations and      *)
(* faults, and the settings an inference ran under (ConfigurationEpochs).  *)
(*                                                                         *)
(* An epoch is made for one session, and stays with it: in the client's    *)
(* list of the active session, in the posts under way, in the Domain       *)
(* Host's memory, on disk and in the answers it gives.  An inference of a  *)
(* round reads the session and the epoch together, and so names an epoch   *)
(* of its own session.                                                     *)
(***************************************************************************)
EXTENDS TurnLifecycle, ConfigurationEpochs, TLAPS

-----------------------------------------------------------------------------
(* Types *)

\* clear_turn_recovery leaves an idle page without an operation.
LEMMA ClearedType ==
    ASSUME NEW q \in PageStates, NEW b \in BOOLEAN
    PROVE  /\ Cleared(q) \in PageStates
           /\ Cleared(q).mode = "idle" /\ Cleared(q).op = NoOperation
           /\ [Cleared(q) EXCEPT !.seesBusy = b] \in PageStates
           /\ [Cleared(q) EXCEPT !.seesBusy = b].mode = "idle"
           /\ [Cleared(q) EXCEPT !.seesBusy = b].op = NoOperation
BY DEF Cleared, PageStates

\* A page with a well-formed memory replaces another.
LEMMA PageReplaced ==
    ASSUME TypeOK, NEW p \in Pages, NEW q \in PageStates,
           q.mode = "idle" <=> q.op = NoOperation,
           page' = [page EXCEPT ![p] = q]
    PROVE  /\ page' \in [Pages -> PageStates]
           /\ \A x \in Pages : page'[x].mode = "idle" <=> page'[x].op = NoOperation
BY DEF TypeOK

\* A step of the application keeps the types.
LEMMA ApplicationStepType ==
    ASSUME TypeOK, NEW op \in Operations, ApplicationStep(op)
    PROVE  TypeOK'
<1> USE DEF TypeOK
<1>1. task[op] \in Tasks /\ UNCHANGED <<page, told>>
  BY DEF ApplicationStep, Accept, Refuse, Posted, PostAborted, PostRefused,
         RoundSucceeds, Close, RoundFails
<1>2. \A outcome \in Outcomes : Recorded(task[op], outcome) \in Tasks
  BY <1>1 DEF Recorded, Tasks
<1>3. \A outcome \in Outcomes : TerminalOutcome(op, outcome) \in Terminals
  BY DEF TerminalOutcome, Terminals
<1>4. \A t \in Tasks, s \in {"over"} \cup RunningStages,
         a \in {"none", "succeeded", "failed", "refused"} :
         [t EXCEPT !.at = s] \in Tasks /\ [t EXCEPT !.at = s, !.answer = a] \in Tasks
  BY DEF Tasks
<1>5. CASE Accept(op)
  BY <1>1, <1>4, <1>5 DEF Accept, TerminalReset, RunningStages
<1>6. CASE Refuse(op)
  BY <1>1, <1>4, <1>6 DEF Refuse
<1>7. CASE Posted(op)
  BY <1>1, <1>4, <1>7 DEF Posted, RunningStages
<1>8. CASE PostAborted(op)
  BY <1>1, <1>4, <1>8 DEF PostAborted, RoundReleased
<1>9. CASE PostRefused(op)
  BY <1>1, <1>4, <1>9 DEF PostRefused
<1>10. CASE RoundSucceeds(op)
  BY <1>1, <1>2, <1>3, <1>4, <1>10 DEF RoundSucceeds, Outcomes, RunningStages
<1>11. CASE Close(op)
  BY <1>1, <1>4, <1>11 DEF Close, RoundReleased
<1>12. CASE RoundFails(op)
  BY <1>1, <1>2, <1>3, <1>4, <1>12 DEF RoundFails, RoundReleased, Outcomes
<1>13. QED
  BY <1>5, <1>6, <1>7, <1>8, <1>9, <1>10, <1>11, <1>12 DEF ApplicationStep

\* A step of a page keeps the types.
LEMMA PageStepType ==
    ASSUME TypeOK, NEW p \in Pages, PageStep(p)
    PROVE  TypeOK'
<1> DEFINE op == page[p].op
           PagesOK == /\ page' \in [Pages -> PageStates]
                      /\ \A x \in Pages : page'[x].mode = "idle" <=> page'[x].op = NoOperation
           ToldOK == told' \subseteq [op : Operations, outcome : Outcomes \cup {"refused", "error"}]
<1>1. /\ page[p] \in PageStates
      /\ page[p].mode = "idle" <=> op = NoOperation
      /\ page[p].mode # "idle" => op \in Operations
  BY DEF TypeOK, PageStates
<1>2. \A b \in BOOLEAN : [page[p] EXCEPT !.seesBusy = b] \in PageStates
  BY <1>1 DEF PageStates
<1>3. /\ Cleared(page[p]) \in PageStates
      /\ Cleared(page[p]).mode = "idle" /\ Cleared(page[p]).op = NoOperation
      /\ [Cleared(page[p]) EXCEPT !.seesBusy = roundInProgress] \in PageStates
      /\ [Cleared(page[p]) EXCEPT !.seesBusy = roundInProgress].mode = "idle"
      /\ [Cleared(page[p]) EXCEPT !.seesBusy = roundInProgress].op = NoOperation
  BY <1>1, ClearedType DEF TypeOK
<1>4. \A o \in Operations, outcome \in Outcomes \cup {"refused", "error"} :
         Telling(o, outcome) => ToldOK
  BY DEF Telling, TypeOK
<1>5. ASSUME UNCHANGED <<roundInProgress, current, terminal, latest>>,
             task' \in [Operations -> Tasks], PagesOK, ToldOK
      PROVE  TypeOK'
  BY <1>5 DEF TypeOK
<1>6. ASSUME UNCHANGED told PROVE ToldOK
  BY <1>6 DEF TypeOK
<1>7. ASSUME UNCHANGED task PROVE task' \in [Operations -> Tasks]
  BY <1>7 DEF TypeOK
<1>8. CASE Refresh(p)
  <2>1. \E b \in BOOLEAN : page' = [page EXCEPT ![p] = [page[p] EXCEPT !.seesBusy = b]]
    BY <1>8 DEF Refresh, TypeOK
  <2>2. PagesOK
    BY <2>1, <1>1, <1>2, PageReplaced DEF PageStates
  <2>3. QED
    BY <2>2, <1>5, <1>6, <1>7, <1>8 DEF Refresh
<1>9. ASSUME NEW o \in Operations, NEW kind \in Kinds, Submit(p, o, kind) PROVE TypeOK'
  <2> DEFINE q == [mode |-> "waiting", op |-> o, seesBusy |-> roundInProgress]
  <2>1. q \in PageStates /\ (q.mode = "idle" <=> q.op = NoOperation)
    BY NoOperationAssumption DEF PageStates, TypeOK
  <2>2. page' = [page EXCEPT ![p] = q]
    BY <1>9 DEF Submit
  <2>3. PagesOK
    BY <2>1, <2>2, PageReplaced
  <2>4. [task[o] EXCEPT !.at = "sent", !.kind = kind] \in Tasks
    BY DEF Tasks, TypeOK
  <2>5. task' \in [Operations -> Tasks]
    BY <2>4, <1>9 DEF Submit, TypeOK
  <2>6. QED
    BY <2>3, <2>5, <1>5, <1>6, <1>9 DEF Submit
<1>10. CASE Answered(p)
  <2>1. PagesOK
    BY <1>10, <1>3, PageReplaced DEF Answered
  <2>2. op \in Operations /\ task[op].answer \in Outcomes \cup {"refused"}
    BY <1>10, <1>1 DEF Answered, TypeOK, Tasks, Outcomes
  <2>3. ToldOK
    BY <2>2, <1>4, <1>10 DEF Answered
  <2>4. QED
    BY <2>1, <2>3, <1>5, <1>7, <1>10 DEF Answered
<1>11. CASE ConnectionLost(p)
  <2>1. PagesOK
    BY <1>11, <1>3, PageReplaced DEF ConnectionLost
  <2>2. ToldOK
    BY <1>1, <1>4, <1>11 DEF ConnectionLost
  <2>3. op \in Operations => [task[op] EXCEPT !.at = "over"] \in Tasks
    BY DEF Tasks, TypeOK
  <2>4. task' \in [Operations -> Tasks]
    BY <2>3, <1>1, <1>11 DEF ConnectionLost, TypeOK
  <2>5. QED
    BY <2>1, <2>2, <2>4, <1>5, <1>11 DEF ConnectionLost
<1>12. CASE WaitExpires(p)
  <2>1. [page[p] EXCEPT !.mode = "recovering"] \in PageStates
    BY <1>1 DEF PageStates
  <2>2. PagesOK
    BY <2>1, <1>1, <1>3, <1>12, PageReplaced DEF WaitExpires, PageStates
  <2>3. ToldOK
    BY <1>1, <1>4, <1>6, <1>12 DEF WaitExpires
  <2>4. QED
    BY <2>2, <2>3, <1>5, <1>7, <1>12 DEF WaitExpires
<1>13. CASE Poll(p)
  <2>1. page' = [page EXCEPT ![p] = [page[p] EXCEPT !.seesBusy = roundInProgress]]
    BY <1>13 DEF Poll
  <2>2. PagesOK
    BY <2>1, <1>1, <1>2, PageReplaced DEF PageStates, TypeOK
  <2>3. QED
    BY <2>2, <1>5, <1>6, <1>7, <1>13 DEF Poll
<1>14. CASE PollLearns(p)
  <2>1. PagesOK
    BY <1>14, <1>3, PageReplaced DEF PollLearns
  <2>2. ToldOK
    BY <1>1, <1>4, <1>14 DEF PollLearns
  <2>3. QED
    BY <2>1, <2>2, <1>5, <1>7, <1>14 DEF PollLearns
<1>15. CASE GiveUp(p)
  <2>1. PagesOK
    BY <1>15, <1>3, PageReplaced DEF GiveUp
  <2>2. QED
    BY <2>1, <1>5, <1>6, <1>7, <1>15 DEF GiveUp
<1>16. CASE StatusUnknown(p)
  <2>1. PagesOK
    BY <1>16, <1>3, PageReplaced DEF StatusUnknown
  <2>2. QED
    BY <2>1, <1>5, <1>6, <1>7, <1>16 DEF StatusUnknown
<1>17. QED
  BY <1>8, <1>9, <1>10, <1>11, <1>12, <1>13, <1>14, <1>15, <1>16 DEF PageStep

\* The application's fields and each page's memory stay well formed.
THEOREM TurnTypes == LifecycleSpec => []TypeOK
<1>1. LifecycleInit => TypeOK
  <2>1. Unused \in Tasks
    BY DEF Unused, Tasks, Kinds
  <2>2. IdlePage \in PageStates /\ (IdlePage.mode = "idle" <=> IdlePage.op = NoOperation)
    BY DEF IdlePage, PageStates
  <2>3. QED
    BY <2>1, <2>2 DEF LifecycleInit, TypeOK
<1>2. TypeOK /\ [LifecycleNext]_lifecycleVars => TypeOK'
  <2>1. SUFFICES ASSUME TypeOK, [LifecycleNext]_lifecycleVars PROVE TypeOK'
    OBVIOUS
  <2>2. CASE UNCHANGED lifecycleVars
    BY <2>1, <2>2 DEF lifecycleVars, TypeOK
  <2>3. QED
    BY <2>1, <2>2, ApplicationStepType, PageStepType DEF LifecycleNext
<1>3. QED
  BY <1>1, <1>2, PTL DEF LifecycleSpec
-----------------------------------------------------------------------------
(* One round at a time, and the outcomes pages are shown *)

\* The operation that runs began last, and the terminal is of the operation
\* that began last.
LatestAgree ==
    /\ \A op \in Running : latest = op
    /\ terminal # NoTerminal => terminal.op = latest

\* An operation that ended well, and never failed.
EndedWell(op) == task[op].at = "over" /\ "failed" \notin task[op].milestones

\* What says that an operation succeeded says it of one that did.
OutcomesAgreeOn(op) ==
    /\ task[op].at \in {"unused", "sent", "posting", "playing"} => task[op].milestones = {}
    /\ task[op].at = "closing" => "failed" \notin task[op].milestones
    /\ task[op].answer = "succeeded" => EndedWell(op)
    /\ [op |-> op, outcome |-> "succeeded"] \in told => EndedWell(op)
    /\ terminal = [op |-> op, outcome |-> "succeeded"]
       => EndedWell(op) \/ task[op].at = "closing"

OutcomesAgree == \A op \in Operations : OutcomesAgreeOn(op)

LifecycleInv == TypeOK /\ OneRoundAtATime /\ LatestAgree /\ OutcomesAgree

\* The terminal a page may see is of an operation that is over.
LEMMA ShownIsOver ==
    ASSUME LifecycleInv, NEW op \in Operations, ShownOutcome(op) = "succeeded"
    PROVE  EndedWell(op)
<1>1. ~roundInProgress /\ terminal.op = op /\ terminal.outcome = "succeeded"
  BY DEF ShownOutcome
<1>2. terminal = [op |-> op, outcome |-> "succeeded"]
  BY <1>1 DEF LifecycleInv, TypeOK, Terminals, NoTerminal
<1>3. task[op].at # "closing"
  BY <1>1 DEF LifecycleInv, OneRoundAtATime, Running, RunningStages
<1>4. QED
  BY <1>2, <1>3 DEF LifecycleInv, OutcomesAgree, OutcomesAgreeOn

\* The operations other than the one a step of the application serves keep
\* their state.
LEMMA OthersKept ==
    ASSUME TypeOK, NEW op \in Operations, ApplicationStep(op)
    PROVE  \A x \in Operations \ {op} : task'[x] = task[x]
BY DEF TypeOK, ApplicationStep, Accept, Refuse, Posted, PostAborted, PostRefused,
       RoundSucceeds, Close, RoundFails

\* A step of the application keeps one round at a time.
LEMMA ApplicationStepOneRound ==
    ASSUME LifecycleInv, NEW op \in Operations, ApplicationStep(op)
    PROVE  OneRoundAtATime' /\ LatestAgree'
<1>1. \A x \in Operations \ {op} : task'[x] = task[x]
  BY OthersKept DEF LifecycleInv
<1>2. task \in [Operations -> Tasks] /\ task[op] \in Tasks
  BY DEF LifecycleInv, TypeOK
<1>3. op \in Running => roundInProgress /\ current = op /\ latest = op /\ Running = {op}
  BY DEF LifecycleInv, OneRoundAtATime, LatestAgree, Running
<1>4. ~roundInProgress => Running = {}
  BY DEF LifecycleInv, OneRoundAtATime, Running
<1>5. CASE Accept(op)
  <2>1. Running' \subseteq {op}
    BY <1>1, <1>4, <1>5 DEF Accept, Available, Running
  <2>2. QED
    BY <2>1, <1>5 DEF Accept, OneRoundAtATime, LatestAgree, TerminalReset
<1>6. CASE Refuse(op) \/ Posted(op) \/ PostRefused(op)
  <2>1. Running' \subseteq Running
    BY <1>1, <1>2, <1>6 DEF Refuse, Posted, PostRefused, Running, RunningStages, Tasks
  <2>2. UNCHANGED <<roundInProgress, current, terminal, latest>>
    BY <1>6 DEF Refuse, Posted, PostRefused
  <2>3. QED
    BY <2>1, <2>2 DEF LifecycleInv, OneRoundAtATime, LatestAgree
<1>7. CASE PostAborted(op) \/ Close(op)
  <2>1. Running' = {}
    BY <1>1, <1>2, <1>3, <1>7 DEF PostAborted, Close, Running, RunningStages, Tasks
  <2>2. UNCHANGED <<terminal, latest>>
    BY <1>7 DEF PostAborted, Close
  <2>3. QED
    BY <2>1, <2>2 DEF LifecycleInv, OneRoundAtATime, LatestAgree
<1>8. CASE RoundSucceeds(op)
  <2>1. op \in Running
    BY <1>8 DEF RoundSucceeds, Running, RunningStages
  <2>2. Running' \subseteq {op}
    BY <2>1, <1>1, <1>3 DEF Running
  <2>3. terminal'.op = op
    BY <1>8 DEF RoundSucceeds, TerminalOutcome
  <2>4. QED
    BY <2>1, <2>2, <2>3, <1>3, <1>8 DEF RoundSucceeds, OneRoundAtATime, LatestAgree
<1>9. CASE RoundFails(op)
  <2>1. op \in Running
    BY <1>9 DEF RoundFails, Running, RunningStages
  <2>2. task'[op].at = "over"
    BY <1>2, <1>9 DEF RoundFails, Recorded, Tasks
  <2>3. Running' = {}
    BY <2>1, <2>2, <1>1, <1>3 DEF Running, RunningStages
  <2>4. terminal'.op = op
    BY <1>9 DEF RoundFails, TerminalOutcome
  <2>5. QED
    BY <2>1, <2>3, <2>4, <1>3, <1>9 DEF RoundFails, OneRoundAtATime, LatestAgree
<1>10. QED
  BY <1>5, <1>6, <1>7, <1>8, <1>9 DEF ApplicationStep

\* A step of the application keeps the outcomes in agreement.
LEMMA ApplicationStepOutcomes ==
    ASSUME LifecycleInv, NEW op \in Operations, ApplicationStep(op)
    PROVE  OutcomesAgree'
<1>1. UNCHANGED told /\ task \in [Operations -> Tasks] /\ task[op] \in Tasks
  BY DEF LifecycleInv, TypeOK, ApplicationStep, Accept, Refuse, Posted, PostAborted,
         PostRefused, RoundSucceeds, Close, RoundFails
<1>2. OutcomesAgreeOn(op) /\ op # NoOperation
  BY NoOperationAssumption DEF LifecycleInv, OutcomesAgree, OutcomesAgreeOn
<1>3. ASSUME NEW x \in Operations \ {op} PROVE OutcomesAgreeOn(x)'
  <2>1. task'[x] = task[x]
    BY OthersKept DEF LifecycleInv
  <2>2. terminal' = terminal \/ terminal'.op \in {op, NoOperation}
    BY DEF ApplicationStep, Accept, Refuse, Posted, PostAborted, PostRefused,
           RoundSucceeds, Close, RoundFails, TerminalReset, NoTerminal, TerminalOutcome
  <2>3. terminal' = [op |-> x, outcome |-> "succeeded"] => terminal = terminal'
    BY <2>2, NoOperationAssumption
  <2>4. OutcomesAgreeOn(x)
    BY DEF LifecycleInv, OutcomesAgree, OutcomesAgreeOn
  <2>5. QED
    BY <1>1, <2>1, <2>3, <2>4 DEF OutcomesAgreeOn, EndedWell
<1>4. OutcomesAgreeOn(op)'
  <2> USE <1>1, <1>2 DEF OutcomesAgreeOn, EndedWell, Tasks
  <2>1. CASE Accept(op)
    BY <2>1 DEF Accept, TerminalReset, NoTerminal
  <2>2. CASE Refuse(op)
    BY <2>2 DEF Refuse
  <2>3. CASE Posted(op)
    BY <2>3 DEF Posted
  <2>4. CASE PostAborted(op) \/ PostRefused(op)
    BY <2>4 DEF PostAborted, PostRefused
  <2>5. CASE RoundSucceeds(op)
    BY <2>5 DEF RoundSucceeds, Recorded
  <2>6. CASE Close(op)
    BY <2>6 DEF Close
  <2>7. CASE RoundFails(op)
    <3>1. terminal'.outcome = "failed" /\ task'[op].answer = "failed" /\ task'[op].at = "over"
      BY <2>7 DEF RoundFails, TerminalOutcome, Recorded
    <3>2. [op |-> op, outcome |-> "succeeded"] \notin told
      BY <2>7 DEF RoundFails
    <3>3. QED
      BY <3>1, <3>2
  <2>8. QED
    BY <2>1, <2>2, <2>3, <2>4, <2>5, <2>6, <2>7 DEF ApplicationStep
<1>5. \A x \in Operations : OutcomesAgreeOn(x)'
  BY <1>3, <1>4
<1>6. QED
  BY <1>5 DEF OutcomesAgree, OutcomesAgreeOn

\* A page changes nothing of the application but the requests: one that is sent,
\* or one that never arrives.
LEMMA PageStepRequests ==
    ASSUME TypeOK, NEW p \in Pages, PageStep(p)
    PROVE  /\ UNCHANGED <<roundInProgress, current, terminal, latest>>
           /\ \A x \in Operations :
                 \/ task'[x] = task[x]
                 \/ /\ task[x].at \in {"unused", "sent"} /\ task'[x].at \in {"sent", "over"}
                    /\ task'[x].milestones = task[x].milestones
                    /\ task'[x].answer = task[x].answer
<1>1. task \in [Operations -> Tasks]
  BY DEF TypeOK
<1>2. CASE \E o \in Operations, kind \in Kinds : Submit(p, o, kind)
  BY <1>1, <1>2 DEF Submit, Tasks
<1>3. CASE ConnectionLost(p)
  BY <1>1, <1>3 DEF ConnectionLost, Tasks
<1>4. CASE ~(\E o \in Operations, kind \in Kinds : Submit(p, o, kind)) /\ ~ConnectionLost(p)
  BY <1>4 DEF PageStep, Refresh, Answered, WaitExpires, Poll, PollLearns, GiveUp, StatusUnknown
<1>5. QED
  BY <1>2, <1>3, <1>4 DEF PageStep, Submit, ConnectionLost

\* A page is told of success by the answer or by the status view.
LEMMA PageStepTold ==
    ASSUME LifecycleInv, NEW p \in Pages, PageStep(p), NEW x \in Operations,
           [op |-> x, outcome |-> "succeeded"] \in told'
    PROVE  EndedWell(x)
<1> DEFINE good == [op |-> x, outcome |-> "succeeded"]
           op == page[p].op
<1>1. ASSUME good \in told PROVE EndedWell(x)
  BY <1>1 DEF LifecycleInv, OutcomesAgree, OutcomesAgreeOn
<1>2. ASSUME NEW outcome, Telling(op, outcome), good \notin told
      PROVE  op = x /\ outcome = "succeeded"
  BY <1>2 DEF Telling
<1>3. CASE UNCHANGED told
  BY <1>1, <1>3
<1>4. CASE Answered(p)
  BY <1>1, <1>2, <1>4 DEF Answered, LifecycleInv, OutcomesAgree, OutcomesAgreeOn
<1>5. CASE ConnectionLost(p)
  BY <1>1, <1>2, <1>5 DEF ConnectionLost
<1>6. CASE WaitExpires(p)
  BY <1>1, <1>2, <1>3, <1>6 DEF WaitExpires
<1>7. CASE PollLearns(p)
  <2>1. Phase(p) = "succeeded" => ShownOutcome(op) = "succeeded"
    BY DEF Phase
  <2>2. QED
    BY <1>1, <1>2, <1>7, <2>1, ShownIsOver DEF PollLearns
<1>8. QED
  BY <1>3, <1>4, <1>5, <1>6, <1>7 DEF PageStep, Refresh, Submit, Poll, GiveUp, StatusUnknown

\* A step of a page keeps the invariant.
LEMMA PageStepKeeps ==
    ASSUME LifecycleInv, NEW p \in Pages, PageStep(p)
    PROVE  OneRoundAtATime' /\ LatestAgree' /\ OutcomesAgree'
<1>1. /\ UNCHANGED <<roundInProgress, current, terminal, latest>>
      /\ \A x \in Operations :
            \/ task'[x] = task[x]
            \/ /\ task[x].at \in {"unused", "sent"} /\ task'[x].at \in {"sent", "over"}
               /\ task'[x].milestones = task[x].milestones
               /\ task'[x].answer = task[x].answer
  BY PageStepRequests DEF LifecycleInv
<1>2. Running' = Running
  BY <1>1 DEF Running, RunningStages
<1>3. OneRoundAtATime' /\ LatestAgree'
  BY <1>1, <1>2 DEF LifecycleInv, OneRoundAtATime, LatestAgree
<1>4. ASSUME NEW x \in Operations PROVE OutcomesAgreeOn(x)'
  <2>1. OutcomesAgreeOn(x)
    BY DEF LifecycleInv, OutcomesAgree, OutcomesAgreeOn
  <2>2. EndedWell(x) => EndedWell(x)'
    BY <1>1 DEF EndedWell
  <2>3. [op |-> x, outcome |-> "succeeded"] \in told' => EndedWell(x)
    BY PageStepTold
  <2>4. QED
    BY <1>1, <2>1, <2>2, <2>3 DEF OutcomesAgreeOn, EndedWell
<1>5. QED
  BY <1>3, <1>4 DEF OutcomesAgree, OutcomesAgreeOn

\* The invariant holds in every reachable state.
THEOREM TurnInvariant == LifecycleSpec => []LifecycleInv
<1>1. LifecycleInit => OneRoundAtATime /\ LatestAgree /\ OutcomesAgree
  BY NoOperationAssumption
  DEF LifecycleInit, OneRoundAtATime, LatestAgree, OutcomesAgree, OutcomesAgreeOn, Running,
      RunningStages, Unused, NoTerminal, EndedWell
<1>2. LifecycleInv /\ TypeOK' /\ [LifecycleNext]_lifecycleVars => LifecycleInv'
  <2>1. SUFFICES ASSUME LifecycleInv, TypeOK', [LifecycleNext]_lifecycleVars
                 PROVE  OneRoundAtATime' /\ LatestAgree' /\ OutcomesAgree'
    BY DEF LifecycleInv
  <2>2. CASE UNCHANGED lifecycleVars
    BY <2>1, <2>2 DEF lifecycleVars, LifecycleInv, OneRoundAtATime, LatestAgree, OutcomesAgree,
       OutcomesAgreeOn, Running, EndedWell
  <2>3. QED
    BY <2>1, <2>2, ApplicationStepOneRound, ApplicationStepOutcomes, PageStepKeeps DEF LifecycleNext
<1>3. LifecycleInit /\ TypeOK => LifecycleInv
  BY <1>1 DEF LifecycleInv
<1>4. QED
  BY <1>2, <1>3, TurnTypes, PTL DEF LifecycleSpec

\* Two operations never run at the same time, and the one that runs is the one
\* the application names.
THEOREM OneRound == LifecycleSpec => []OneRoundAtATime
<1>1. LifecycleInv => OneRoundAtATime
  BY DEF LifecycleInv
<1>2. QED
  BY <1>1, TurnInvariant, PTL

\* A free application shows the terminal of the operation that began last.
THEOREM LatestShown == LifecycleSpec => []ShownOutcomeIsLatest
<1>1. LifecycleInv => ShownOutcomeIsLatest
  BY DEF LifecycleInv, LatestAgree, ShownOutcomeIsLatest
<1>2. QED
  BY <1>1, TurnInvariant, PTL

\* A page told of success is never contradicted, also when the state read that
\* follows the round fails.
THEOREM SuccessIsFinal == LifecycleSpec => []NoFalseSuccess
<1>1. LifecycleInv => NoFalseSuccess
  BY DEF LifecycleInv, OutcomesAgree, OutcomesAgreeOn, NoFalseSuccess, EndedWell
<1>2. QED
  BY <1>1, TurnInvariant, PTL
-----------------------------------------------------------------------------

\* What a field of the settings can be, the settings, and the lists of epochs.
Values == UNION {{p[f] : f \in DOMAIN p} : p \in {Defaults} \cup Patches \cup Overrides}

AnySettings == [DOMAIN Defaults -> Values]

Snapshots == {Snapshot(s) : s \in AnySettings}

Epochs == [id : Nat, resolved : Snapshots]

Lists == Seq(Epochs)

Posts == [by : {"turn", "side", "nobody"}, session : Sessions, epochs : Lists]

Replies == {"none", "ok", "error"}

Turns == [stage : TurnStages, input : Overrides \cup {<<>>}, ranIn : Sessions \cup {None},
          reply : Replies, clean : BOOLEAN, used : Snapshots \cup {None}]

Sides == [op : {"none", "create", "open", "settings"}, stage : SideStages,
          session : Sessions \cup {None}, payload : Lists, reply : Replies]

FormInv ==
  /\ active \in Sessions \cup {None}
  /\ settings \in AnySettings
  /\ config \in Lists
  /\ turn \in Turns
  /\ side \in Sides
  /\ posts \in SUBSET Posts
  /\ stored \in [Sessions -> Lists] /\ saved \in [Sessions -> Lists]
  /\ created \in SUBSET Sessions
  /\ bornIn \in Seq(Sessions)

\* The epochs of a list were made for this session.
Homed(epochs, s) ==
  \A i \in DOMAIN epochs : epochs[i].id \in DOMAIN bornIn /\ bornIn[epochs[i].id] = s

HomeInv ==
  /\ active # None => Homed(config, active)
  /\ \A p \in posts : Homed(p.epochs, p.session)
  /\ \A s \in Sessions : Homed(stored[s], s) /\ Homed(saved[s], s)
  /\ side.stage \in {"creating", "opening", "applying"} =>
        side.session \in Sessions /\ Homed(side.payload, side.session)

\* A turn is of a session, and its configuration was made before its round, unless
\* the settings can make none.
TurnInv ==
  /\ turn.stage # "idle" => active # None
  /\ turn.stage = "syncing" /\ config = <<>> => Unresolvable(settings)

\* Until something disturbs it, a turn's post holds the configuration it will run with.
GovernInv ==
  turn.stage = "syncing" /\ turn.clean =>
    /\ config # <<>> /\ Last(config).resolved = Snapshot(TurnSettings)
    /\ \A p \in posts : p.session = active /\ p.epochs = config
    /\ turn.reply = "ok" => saved[active] = config

\* The epoch a round's inference names, if any, was made for its session.
NamedInv ==
  attempt.kind = "round" /\ attempt.epoch # None =>
    attempt.epoch \in DOMAIN bornIn /\ bornIn[attempt.epoch] = attempt.session

EpochInv == FormInv /\ HomeInv /\ TurnInv /\ GovernInv /\ NamedInv

-----------------------------------------------------------------------------
(* Settings and lists of epochs *)

LEMMA MergedIsSettings ==
    ASSUME NEW s \in AnySettings, NEW p \in Patches \cup Overrides \cup {<<>>}
    PROVE  Merged(s, p) \in AnySettings
<1>1. DOMAIN s = DOMAIN Defaults
  BY DEF AnySettings
<1>2. ASSUME NEW f \in DOMAIN Defaults PROVE (IF f \in DOMAIN p THEN p[f] ELSE s[f]) \in Values
  <2>1. CASE f \in DOMAIN p
    <3>1. p \in Patches \cup Overrides
      BY <2>1
    <3>2. p[f] \in {p[g] : g \in DOMAIN p}
      BY <2>1
    <3>3. QED
      BY <2>1, <3>1, <3>2 DEF Values
  <2>2. CASE f \notin DOMAIN p
    BY <1>2, <2>2 DEF AnySettings
  <2>3. QED
    BY <2>1, <2>2
<1>3. QED
  BY <1>1, <1>2 DEF Merged, AnySettings

LEMMA DefaultsAreSettings == Defaults \in AnySettings
<1>1. Defaults = [f \in DOMAIN Defaults |-> Defaults[f]]
  BY SettingsAreRecords DEF Settings
<1>2. ASSUME NEW f \in DOMAIN Defaults PROVE Defaults[f] \in Values
  <2>1. Defaults[f] \in {Defaults[g] : g \in DOMAIN Defaults}
    OBVIOUS
  <2>2. QED
    BY <2>1 DEF Values
<1>3. QED
  BY <1>1, <1>2 DEF AnySettings

\* appendEffectiveConfigurationEpoch: what is last resolves to these settings, and
\* nothing else has changed.
LEMMA AppendedDoes ==
    ASSUME NEW epochs \in Lists, NEW s \in AnySettings, NEW id \in Nat
    PROVE  /\ Appended(epochs, s, id) \in Lists /\ Appended(epochs, s, id) # <<>>
           /\ Last(Appended(epochs, s, id)).resolved = Snapshot(s)
           /\ \/ Appended(epochs, s, id) = epochs
              \/ /\ Appended(epochs, s, id) # epochs
                 /\ Appended(epochs, s, id) = Append(epochs, [id |-> id, resolved |-> Snapshot(s)])
<1> DEFINE epoch == [id |-> id, resolved |-> Snapshot(s)]
<1>1. epoch \in Epochs /\ epoch.resolved = Snapshot(s)
  BY DEF Epochs, Snapshots
<1>2. CASE epochs # <<>> /\ Last(epochs).resolved = Snapshot(s)
  <2>1. Appended(epochs, s, id) = epochs
    BY <1>2 DEF Appended
  <2>2. QED
    BY <1>2, <2>1
<1>3. CASE ~(epochs # <<>> /\ Last(epochs).resolved = Snapshot(s))
  <2>1. Appended(epochs, s, id) = Append(epochs, epoch)
    BY <1>3 DEF Appended
  <2> HIDE DEF epoch
  <2>2. /\ Append(epochs, epoch) \in Lists /\ Len(Append(epochs, epoch)) = Len(epochs) + 1
        /\ Append(epochs, epoch)[Len(epochs) + 1] = epoch /\ Len(epochs) \in Nat
    BY <1>1 DEF Lists
  <2>3. Append(epochs, epoch) # epochs /\ Append(epochs, epoch) # <<>>
    BY <2>2
  <2>4. Last(Append(epochs, epoch)) = epoch
    BY <2>2 DEF Last
  <2>5. QED
    BY <1>1, <2>1, <2>2, <2>3, <2>4 DEF epoch
<1>4. QED
  BY <1>2, <1>3

\* What was made for a session stays so.
Keeps == \A e \in DOMAIN bornIn : e \in DOMAIN bornIn' /\ bornIn'[e] = bornIn[e]

LEMMA HomesKept ==
    ASSUME Keeps, NEW epochs, NEW s, Homed(epochs, s)
    PROVE  Homed(epochs, s)'
BY DEF Keeps, Homed

\* _syncRuntimeProvenance: the session's list, with an epoch of these settings, is
\* the client's and is posted.
LEMMA SyncedDoes ==
    ASSUME NEW by \in {"turn", "side"}, NEW session \in Sessions, NEW epochs \in Lists,
           NEW s \in AnySettings, bornIn \in Seq(Sessions), Homed(epochs, session),
           Synced(by, session, epochs, s)
    PROVE  /\ config' \in Lists /\ config' # <<>> /\ Last(config').resolved = Snapshot(s)
           /\ bornIn' \in Seq(Sessions) /\ Keeps
           /\ \A i \in DOMAIN config' :
                 config'[i].id \in DOMAIN bornIn' /\ bornIn'[config'[i].id] = session
           /\ [by |-> by, session |-> session, epochs |-> config'] \in Posts
           /\ posts' = posts \cup {[by |-> by, session |-> session, epochs |-> config']}
<1> DEFINE id == Len(bornIn) + 1
           now == Appended(epochs, s, id)
           epoch == [id |-> id, resolved |-> Snapshot(s)]
<1>1. id \in Nat /\ Len(bornIn) \in Nat
  OBVIOUS
<1>2. /\ config' = now /\ bornIn' = IF now = epochs THEN bornIn ELSE Append(bornIn, session)
      /\ posts' = posts \cup {[by |-> by, session |-> session, epochs |-> now]}
  BY DEF Synced
<1>3. /\ now \in Lists /\ now # <<>> /\ Last(now).resolved = Snapshot(s)
      /\ now = epochs \/ (now # epochs /\ now = Append(epochs, epoch))
  BY <1>1, AppendedDoes
<1>4. epoch.id = id /\ epoch \in Epochs
  BY <1>1 DEF Epochs, Snapshots
<1> HIDE DEF now, epoch
<1>5. CASE now = epochs
  <2>1. config' = epochs /\ bornIn' = bornIn
    BY <1>2, <1>5
  <2>2. \A i \in DOMAIN config' :
           config'[i].id \in DOMAIN bornIn' /\ bornIn'[config'[i].id] = session
    BY <2>1 DEF Homed
  <2>3. QED
    BY <1>2, <1>3, <1>5, <2>1, <2>2 DEF Keeps, Posts
<1>6. CASE now # epochs /\ now = Append(epochs, epoch)
  <2>1. bornIn' = Append(bornIn, session) /\ config' = Append(epochs, epoch)
    BY <1>2, <1>6
  <2>2. /\ bornIn' \in Seq(Sessions) /\ Len(bornIn') = id /\ bornIn'[id] = session
        /\ \A e \in DOMAIN bornIn : e \in DOMAIN bornIn' /\ bornIn'[e] = bornIn[e]
    BY <1>1, <2>1
  <2>3. id \in DOMAIN bornIn'
    BY <1>1, <2>2
  <2>4. ASSUME NEW i \in DOMAIN config'
        PROVE  config'[i].id \in DOMAIN bornIn' /\ bornIn'[config'[i].id] = session
    <3>1. CASE i \in DOMAIN epochs
      <4>1. config'[i] = epochs[i]
        BY <1>4, <2>1, <3>1 DEF Lists
      <4>2. QED
        BY <2>2, <3>1, <4>1 DEF Homed
    <3>2. CASE i \notin DOMAIN epochs
      <4>1. config'[i] = epoch
        BY <1>4, <2>1, <2>4, <3>2 DEF Lists
      <4>2. QED
        BY <1>4, <2>2, <2>3, <4>1
    <3>3. QED
      BY <3>1, <3>2
  <2>5. QED
    BY <1>2, <1>3, <2>2, <2>4 DEF Keeps, Posts
<1>7. QED
  BY <1>3, <1>5, <1>6

\* The epoch a client is at is one of its list.
LEMMA CurrentIsListed ==
    ASSUME NEW epochs \in Lists, epochs # <<>>
    PROVE  /\ Len(epochs) \in DOMAIN epochs /\ Last(epochs) = epochs[Len(epochs)]
           /\ CurrentEpoch(epochs) = Last(epochs).id /\ CurrentEpoch(epochs) \in Nat
           /\ Last(epochs) \in Range(epochs)
<1>1. Len(epochs) \in DOMAIN epochs /\ epochs[Len(epochs)] \in Epochs
  BY DEF Lists
<1>2. Last(epochs) = epochs[Len(epochs)] /\ CurrentEpoch(epochs) = Last(epochs).id
  BY DEF CurrentEpoch, Last
<1>3. epochs[Len(epochs)] \in Range(epochs)
  BY <1>1 DEF Range
<1>4. QED
  BY <1>1, <1>2, <1>3 DEF Epochs
-----------------------------------------------------------------------------
(* The form of the state *)

LEMMA NobodyServed == NoTurn \in Turns /\ NoSide \in Sides
BY DEF NoTurn, Turns, TurnStages, NoSide, Sides, SideStages, Lists, Replies

\* Where a list changes it becomes what a session holds, or what was synced.
LEMMA Syncs ==
    ASSUME FormInv, HomeInv, TurnInv,
           \/ TurnSynced
           \/ SessionApplied /\ Synced("side", side.session, side.payload, settings)
           \/ \E patch \in Patches : Synced("side", active, config, Merged(settings, patch))
                                     /\ active # None
    PROVE  \E by \in {"turn", "side"}, session \in Sessions, s \in AnySettings :
              /\ config' \in Lists /\ config' # <<>> /\ Last(config').resolved = Snapshot(s)
              /\ bornIn' \in Seq(Sessions) /\ Keeps
              /\ \A i \in DOMAIN config' :
                    config'[i].id \in DOMAIN bornIn' /\ bornIn'[config'[i].id] = session
              /\ [by |-> by, session |-> session, epochs |-> config'] \in Posts
              /\ posts' = posts \cup {[by |-> by, session |-> session, epochs |-> config']}
              /\ \/ TurnSynced /\ by = "turn" /\ session = active /\ s = TurnSettings
                 \/ SessionApplied /\ by = "side" /\ session = side.session /\ s = settings
                 \/ /\ by = "side" /\ session = active
                    /\ \E patch \in Patches : s = Merged(settings, patch)
<1>1. /\ settings \in AnySettings /\ config \in Lists /\ bornIn \in Seq(Sessions)
      /\ active \in Sessions \cup {None} /\ side.payload \in Lists
      /\ turn.input \in Overrides \cup {<<>>}
  BY DEF FormInv, Sides, Turns
<1>2. CASE TurnSynced
  <2>1. active \in Sessions /\ Homed(config, active) /\ TurnSettings \in AnySettings
    BY <1>1, <1>2, MergedIsSettings DEF TurnSynced, TurnInv, HomeInv, TurnSettings
  <2>2. Synced("turn", active, config, TurnSettings)
    BY <1>2 DEF TurnSynced
  <2> HIDE DEF TurnSettings
  <2>3. QED
    BY <1>1, <1>2, <2>1, <2>2, SyncedDoes
<1>3. CASE SessionApplied /\ Synced("side", side.session, side.payload, settings)
  <2>1. side.session \in Sessions /\ Homed(side.payload, side.session)
    BY <1>3 DEF SessionApplied, HomeInv
  <2>2. QED
    BY <1>1, <1>3, <2>1, SyncedDoes
<1>4. CASE \E patch \in Patches : Synced("side", active, config, Merged(settings, patch))
                                  /\ active # None
  <2>1. PICK patch \in Patches : Synced("side", active, config, Merged(settings, patch))
                                 /\ active # None
    BY <1>4
  <2>2. active \in Sessions /\ Homed(config, active) /\ Merged(settings, patch) \in AnySettings
    BY <1>1, <2>1, MergedIsSettings DEF HomeInv
  <2> DEFINE s == Merged(settings, patch)
  <2>3. s \in AnySettings /\ Synced("side", active, config, s) /\ s = Merged(settings, patch)
    BY <2>1, <2>2
  <2> HIDE DEF s
  <2>4. QED
    BY <1>1, <2>2, <2>3, SyncedDoes
<1>5. QED
  BY <1>2, <1>3, <1>4

\* A post that is served or refused leaves the lists typed.
LEMMA AnswerTypes ==
    ASSUME FormInv, NEW by, NEW reply \in Replies, Answer(by, reply)
    PROVE  turn' \in Turns /\ side' \in Sides
<1>1. turn \in Turns /\ side \in Sides
  BY DEF FormInv
<1>2. [turn EXCEPT !.reply = reply] \in Turns /\ [side EXCEPT !.reply = reply] \in Sides
  BY <1>1 DEF Turns, Sides
<1>3. QED
  BY <1>1, <1>2 DEF Answer

LEMMA FormOfTurns ==
    ASSUME FormInv, HomeInv, TurnInv, TurnSteps
    PROVE  FormInv'
<1> USE DEF FormInv, client, host
<1>1. turn \in Turns /\ NoTurn \in Turns
  BY NobodyServed
<1>2. CASE TurnAccepted
  <2>1. PICK input \in Overrides :
             \/ turn' = [NoTurn EXCEPT !.stage = "reading", !.input = input]
             \/ turn' = [NoTurn EXCEPT !.stage = "recording", !.input = input]
    BY <1>2 DEF TurnAccepted
  <2>2. turn' \in Turns
    BY <1>1, <2>1 DEF Turns, TurnStages
  <2>3. QED
    BY <1>2, <2>2 DEF TurnAccepted
<1>3. CASE TurnTriaged
  BY <1>1, <1>3 DEF TurnTriaged, Turns, TurnStages
<1>4. CASE TurnPosted
  BY <1>1, <1>4 DEF TurnPosted, Turns, TurnStages
<1>5. CASE TurnSynced
  <2> DEFINE calm == side.stage # "syncing" /\ posts = {}
  <2>1. turn' = [turn EXCEPT !.stage = "syncing", !.reply = "none", !.clean = calm]
    BY <1>5 DEF TurnSynced
  <2>2. calm \in BOOLEAN
    OBVIOUS
  <2> HIDE DEF calm
  <2>3. turn' \in Turns
    BY <1>1, <2>1, <2>2 DEF Turns, TurnStages, Replies
  <2>4. config' \in Lists /\ bornIn' \in Seq(Sessions) /\ posts' \in SUBSET Posts
    BY <1>5, Syncs
  <2>5. QED
    BY <1>5, <2>3, <2>4 DEF TurnSynced
<1>6. CASE RoundStarted
  <2> DEFINE run == Snapshot(RoundSettings)
  <2>1. turn' = [turn EXCEPT !.stage = "running", !.ranIn = active, !.used = run]
    BY <1>6 DEF RoundStarted
  <2>2. run \in Snapshots
    <3>1. turn.input \in Overrides \cup {<<>>}
      BY <1>1 DEF Turns
    <3>2. QED
      BY <3>1, MergedIsSettings DEF Snapshots, RoundSettings, TurnSettings
  <2> HIDE DEF run
  <2>3. turn' \in Turns
    BY <1>1, <2>1, <2>2 DEF Turns, TurnStages
  <2>4. QED
    BY <1>6, <2>3 DEF RoundStarted
<1>7. CASE TurnPresented
  BY <1>1, <1>7 DEF TurnPresented, Turns, TurnStages
<1>8. CASE TurnSucceeded \/ TurnFailed \/ TurnBroken
  BY <1>1, <1>8 DEF TurnSucceeded, TurnFailed, TurnBroken
<1>9. QED
  BY <1>2, <1>3, <1>4, <1>5, <1>6, <1>7, <1>8 DEF TurnSteps

LEMMA Disturbed ==
    ASSUME FormInv, Disturb
    PROVE  /\ turn' \in Turns /\ turn'.stage = turn.stage /\ turn'.input = turn.input
           /\ turn'.stage = "syncing" => ~turn'.clean
<1>1. turn \in Turns
  BY DEF FormInv
<1>2. [turn EXCEPT !.clean = FALSE] \in Turns
  BY <1>1 DEF Turns
<1>3. QED
  BY <1>1, <1>2 DEF Disturb, Turns

LEMMA FormOfSides ==
    ASSUME FormInv, HomeInv, TurnInv, SideSteps
    PROVE  FormInv'
<1> USE DEF FormInv, client, host
<1>1. side \in Sides /\ NoSide \in Sides
  BY NobodyServed
<1>2. ASSUME NEW op \in {"create", "open", "settings"}, NEW stage \in SideStages,
             NEW session \in Sessions \cup {None}, SideBegins(op, stage, session)
      PROVE  side' \in Sides
  BY <1>1, <1>2 DEF SideBegins, Sides
<1>3. CASE CreateRequested
  <2>1. PICK s \in Sessions \ created : SideBegins("create", "creating", s)
    BY <1>3 DEF CreateRequested
  <2>2. side' \in Sides
    BY <1>2, <2>1 DEF SideStages
  <2>3. QED
    BY <1>3, <2>2 DEF CreateRequested
<1>4. CASE OpenRequested
  <2>1. PICK s \in created : SideBegins("open", "opening", s)
    BY <1>4 DEF OpenRequested
  <2>2. side' \in Sides
    BY <1>2, <2>1 DEF SideStages
  <2>3. QED
    BY <1>4, <2>2 DEF OpenRequested
<1>5. CASE SessionServed
  <2>1. side.session \in Sessions
    BY <1>5 DEF SessionServed, HomeInv
  <2>2. stored[side.session] \in Lists
    BY <2>1
  <2>3. side' \in Sides
    BY <1>1, <1>5, <2>2 DEF SessionServed, Sides, SideStages
  <2>4. QED
    BY <1>5, <2>1, <2>3 DEF SessionServed
<1>6. CASE SessionApplied
  <2>1. side.session \in Sessions /\ side.payload \in Lists
    BY <1>1, <1>6 DEF SessionApplied, HomeInv, Sides
  <2>2. turn' \in Turns
    BY <1>6, Disturbed DEF SessionApplied
  <2>3. CASE /\ config' = side.payload /\ side' = NoSide
             /\ UNCHANGED <<posts, bornIn>>
    BY <1>1, <1>6, <2>1, <2>2, <2>3 DEF SessionApplied
  <2>4. CASE /\ Synced("side", side.session, side.payload, settings)
             /\ side' = [side EXCEPT !.stage = "syncing", !.reply = "none"]
    <3>1. side' \in Sides
      BY <1>1, <2>4 DEF Sides, SideStages, Replies
    <3>2. config' \in Lists /\ bornIn' \in Seq(Sessions) /\ posts' \in SUBSET Posts
      BY <1>6, <2>4, Syncs
    <3>3. QED
      BY <1>6, <2>1, <2>2, <3>1, <3>2 DEF SessionApplied
  <2>5. QED
    BY <1>6, <2>3, <2>4 DEF SessionApplied
<1>7. CASE SettingsUpdated
  <2>1. PICK patch \in Patches :
             /\ settings' = Merged(settings, patch) /\ Disturb
             /\ \/ /\ active # None /\ SideBegins("settings", "syncing", active)
                   /\ Synced("side", active, config, Merged(settings, patch))
                \/ UNCHANGED <<side, config, posts, bornIn>>
             /\ UNCHANGED <<active, roundEpoch, host, attempt>>
    BY <1>7 DEF SettingsUpdated
  <2>2. settings' \in AnySettings /\ turn' \in Turns
    BY <2>1, MergedIsSettings, Disturbed
  <2>3. CASE UNCHANGED <<side, config, posts, bornIn>>
    BY <2>1, <2>2, <2>3
  <2>4. CASE /\ active # None /\ SideBegins("settings", "syncing", active)
             /\ Synced("side", active, config, Merged(settings, patch))
    <3>1. side' \in Sides
      BY <1>2, <2>4 DEF SideStages
    <3>2. config' \in Lists /\ bornIn' \in Seq(Sessions) /\ posts' \in SUBSET Posts
      BY <2>4, Syncs
    <3>3. QED
      BY <2>1, <2>2, <3>1, <3>2
  <2>5. QED
    BY <2>1, <2>3, <2>4
<1>8. CASE SideSynced
  BY <1>1, <1>8 DEF SideSynced, Sides, SideStages
<1>9. CASE OpeningWritten \/ OpeningImpossible
  BY <1>1, <1>9 DEF OpeningWritten, OpeningImpossible
<1>10. QED
  BY <1>3, <1>4, <1>5, <1>6, <1>7, <1>8, <1>9 DEF SideSteps

LEMMA FormOfHost ==
    ASSUME FormInv, HostSteps \/ ClientRestarts
    PROVE  FormInv'
<1> USE DEF FormInv, client, host
<1>1. CASE HostServes \/ HostCannotSave
  <2>1. PICK p \in posts, reply \in {"ok", "error"} :
             /\ stored' = [stored EXCEPT ![p.session] = p.epochs]
             /\ saved' = [saved EXCEPT ![p.session] = p.epochs] \/ saved' = saved
             /\ posts' = posts \ {p} /\ Answer(p.by, reply)
    BY <1>1 DEF HostServes, HostCannotSave, ProvenanceStored
  <2>2. turn' \in Turns /\ side' \in Sides
    BY <2>1, AnswerTypes DEF Replies
  <2>3. p.session \in Sessions /\ p.epochs \in Lists
    BY DEF Posts
  <2>4. stored' \in [Sessions -> Lists] /\ saved' \in [Sessions -> Lists]
    BY <2>1, <2>3
  <2>5. QED
    BY <1>1, <2>1, <2>2, <2>4 DEF HostServes, HostCannotSave
<1>2. CASE HostRestarts
  <2>1. [turn EXCEPT !.reply = "error"] \in Turns /\ [side EXCEPT !.reply = "error"] \in Sides
    BY DEF Turns, Sides, Replies
  <2>2. turn' \in Turns /\ side' \in Sides
    BY <1>2, <2>1 DEF HostRestarts
  <2>3. QED
    BY <1>2, <2>2 DEF HostRestarts
<1>3. CASE ClientRestarts
  <2>1. posts' \in SUBSET Posts
    BY <1>3 DEF ClientRestarts, Posts
  <2>2. <<>> \in Lists
    BY DEF Lists
  <2>3. QED
    BY <1>3, <2>1, <2>2, NobodyServed, DefaultsAreSettings DEF ClientRestarts
<1>4. QED
  BY <1>1, <1>2, <1>3 DEF HostSteps
-----------------------------------------------------------------------------
(* One step of the turn, of the sidebar, of the Domain Host *)

\* A history that did not change is kept.
LEMMA KeptUnchanged == ASSUME bornIn' = bornIn PROVE Keeps
BY DEF Keeps

\* An attempt that was recorded before, or is of another kind, names what it named.
LEMMA NamedKept ==
    ASSUME NamedInv, Keeps, attempt' = attempt \/ attempt'.kind # "round"
    PROVE  NamedInv'
BY DEF NamedInv, Keeps

\* _runActiveRound's synchronization: the list and the post of the active session.
LEMMA TurnSyncs ==
    ASSUME FormInv, HomeInv, TurnInv, TurnSynced
    PROVE  /\ config' # <<>> /\ Last(config').resolved = Snapshot(TurnSettings) /\ Keeps
           /\ \A i \in DOMAIN config' :
                 config'[i].id \in DOMAIN bornIn' /\ bornIn'[config'[i].id] = active
           /\ posts' = posts \cup {[by |-> "turn", session |-> active, epochs |-> config']}
<1>1. turn.input \in Overrides \cup {<<>>}
  BY DEF FormInv, Turns
<1>2. TurnSettings \in AnySettings /\ active \in Sessions /\ Homed(config, active)
  BY <1>1, MergedIsSettings DEF TurnSynced, TurnInv, HomeInv, FormInv, TurnSettings
<1>3. Synced("turn", active, config, TurnSettings)
  BY DEF TurnSynced
<1> HIDE DEF TurnSettings
<1>4. QED
  BY <1>2, <1>3, SyncedDoes DEF FormInv

LEMMA HomeOfTurns ==
    ASSUME FormInv, HomeInv, TurnInv, TurnSteps
    PROVE  HomeInv'
<1>1. CASE TurnSynced
  <2>1. /\ UNCHANGED <<active, side, stored, saved>> /\ Keeps
        /\ \A i \in DOMAIN config' :
              config'[i].id \in DOMAIN bornIn' /\ bornIn'[config'[i].id] = active
        /\ posts' = posts \cup {[by |-> "turn", session |-> active, epochs |-> config']}
    BY <1>1, TurnSyncs DEF TurnSynced, host
  <2>2. ASSUME NEW p \in posts' PROVE Homed(p.epochs, p.session)'
    <3>1. CASE p \in posts
      BY <2>1, <3>1, HomesKept DEF HomeInv
    <3>2. CASE p \notin posts
      BY <2>1, <2>2, <3>2 DEF Homed
    <3>3. QED
      BY <3>1, <3>2
  <2>3. Homed(config, active)'
    BY <2>1 DEF Homed
  <2>4. \A s \in Sessions : Homed(stored[s], s)' /\ Homed(saved[s], s)'
    BY <2>1, HomesKept DEF HomeInv, Homed, Keeps
  <2>5. side.stage \in {"creating", "opening", "applying"} => Homed(side.payload, side.session)'
    BY <2>1, HomesKept DEF HomeInv, Homed, Keeps
  <2>6. QED
    BY <2>1, <2>2, <2>3, <2>4, <2>5 DEF HomeInv
<1>2. CASE ~TurnSynced
  <2>1. UNCHANGED <<active, config, side, posts, stored, saved, bornIn>>
    BY <1>2 DEF TurnSteps, TurnAccepted, TurnTriaged, TurnPosted, RoundStarted, TurnPresented,
      TurnSucceeded, TurnFailed, TurnBroken, client, host
  <2>2. QED
    BY <2>1 DEF HomeInv, Homed
<1>3. QED
  BY <1>1, <1>2

LEMMA TurnOfTurns ==
    ASSUME FormInv, HomeInv, TurnInv, TurnSteps
    PROVE  TurnInv'
<1> USE DEF client
<1>1. turn \in Turns
  BY DEF FormInv
<1>2. CASE TurnAccepted
  <2>1. PICK input \in Overrides :
             \/ turn' = [NoTurn EXCEPT !.stage = "reading", !.input = input]
             \/ turn' = [NoTurn EXCEPT !.stage = "recording", !.input = input]
    BY <1>2 DEF TurnAccepted
  <2>2. turn'.stage # "syncing"
    BY <2>1 DEF NoTurn
  <2>3. QED
    BY <1>2, <2>2 DEF TurnAccepted, TurnInv
<1>3. CASE TurnTriaged \/ TurnPosted \/ RoundStarted \/ TurnPresented
  <2>1. turn.stage # "idle" /\ turn'.stage # "syncing" /\ UNCHANGED active
    BY <1>1, <1>3 DEF TurnTriaged, TurnPosted, RoundStarted, TurnPresented, Turns
  <2>2. QED
    BY <2>1 DEF TurnInv
<1>4. CASE TurnSynced
  <2>1. config' # <<>> /\ UNCHANGED active /\ turn.stage # "idle"
    BY <1>4, TurnSyncs DEF TurnSynced
  <2>2. QED
    BY <2>1 DEF TurnInv
<1>5. CASE TurnSucceeded \/ TurnFailed \/ TurnBroken
  <2>1. turn'.stage = "idle"
    BY <1>5 DEF TurnSucceeded, TurnFailed, TurnBroken, NoTurn
  <2>2. QED
    BY <2>1 DEF TurnInv
<1>6. QED
  BY <1>2, <1>3, <1>4, <1>5 DEF TurnSteps

LEMMA GovernOfTurns ==
    ASSUME FormInv, HomeInv, TurnInv, TurnSteps
    PROVE  GovernInv'
<1>1. turn \in Turns
  BY DEF FormInv
<1>2. CASE TurnSynced
  <2> DEFINE calm == side.stage # "syncing" /\ posts = {}
  <2>1. turn' = [turn EXCEPT !.stage = "syncing", !.reply = "none", !.clean = calm]
    BY <1>2 DEF TurnSynced
  <2> HIDE DEF calm
  <2>2. turn'.reply = "none" /\ turn'.input = turn.input /\ (turn'.clean <=> calm)
    BY <1>1, <2>1 DEF Turns
  <2>3. UNCHANGED <<active, settings>>
    BY <1>2 DEF TurnSynced
  <2>4. TurnSettings' = TurnSettings
    BY <2>2, <2>3 DEF TurnSettings
  <2>5. /\ config' # <<>> /\ Last(config').resolved = Snapshot(TurnSettings)
        /\ posts' = posts \cup {[by |-> "turn", session |-> active, epochs |-> config']}
    BY <1>2, TurnSyncs
  <2> HIDE DEF TurnSettings
  <2>6. calm => \A p \in posts' : p.session = active /\ p.epochs = config'
    BY <2>5 DEF calm
  <2>7. QED
    BY <2>2, <2>3, <2>4, <2>5, <2>6 DEF GovernInv
<1>3. CASE ~TurnSynced
  <2>1. turn'.stage # "syncing"
    <3>1. CASE TurnAccepted
      BY <3>1 DEF TurnAccepted, NoTurn
    <3>2. CASE TurnTriaged \/ TurnPosted \/ RoundStarted \/ TurnPresented
      BY <1>1, <3>2 DEF TurnTriaged, TurnPosted, RoundStarted, TurnPresented, Turns
    <3>3. CASE TurnSucceeded \/ TurnFailed \/ TurnBroken
      BY <3>3 DEF TurnSucceeded, TurnFailed, TurnBroken, NoTurn
    <3>4. QED
      BY <1>3, <3>1, <3>2, <3>3 DEF TurnSteps
  <2>2. QED
    BY <2>1 DEF GovernInv
<1>4. QED
  BY <1>2, <1>3

LEMMA NamedOfTurns ==
    ASSUME FormInv, HomeInv, TurnInv, NamedInv, TurnSteps
    PROVE  NamedInv'
<1>1. CASE RoundStarted
  <2>1. /\ attempt'.kind = "round" /\ attempt'.session = active /\ bornIn' = bornIn
        /\ attempt'.epoch = CurrentEpoch(config)
    BY <1>1 DEF RoundStarted, Ran
  <2>2. active # None /\ config \in Lists
    BY <1>1 DEF RoundStarted, TurnInv, FormInv
  <2>3. CASE config = <<>>
    BY <2>1, <2>3 DEF CurrentEpoch, NamedInv
  <2>4. CASE config # <<>>
    <3>1. Len(config) \in DOMAIN config /\ CurrentEpoch(config) = config[Len(config)].id
      BY <2>2, <2>4, CurrentIsListed
    <3>2. Homed(config, active)
      BY <2>2 DEF HomeInv
    <3>3. QED
      BY <2>1, <3>1, <3>2 DEF NamedInv, Homed
  <2>5. QED
    BY <2>3, <2>4
<1>2. CASE TurnSynced
  BY <1>2, TurnSyncs, NamedKept DEF TurnSynced
<1>3. CASE ~RoundStarted /\ ~TurnSynced
  <2>1. bornIn' = bornIn
    BY <1>3 DEF TurnSteps, TurnAccepted, TurnTriaged, TurnPosted, TurnPresented, TurnSucceeded,
      TurnFailed, TurnBroken
  <2>2. attempt' = attempt \/ attempt'.kind # "round"
    <3>1. CASE TurnTriaged
      BY <3>1 DEF TurnTriaged, Ran
    <3>2. CASE ~TurnTriaged
      BY <1>3, <3>2 DEF TurnSteps, TurnAccepted, TurnPosted, TurnPresented, TurnSucceeded,
        TurnFailed, TurnBroken
    <3>3. QED
      BY <3>1, <3>2
  <2>3. QED
    BY <2>1, <2>2, KeptUnchanged, NamedKept
<1>4. QED
  BY <1>1, <1>2, <1>3
\* What the sidebar's requests do to the lists: a session is asked for, or answered
\* with what it holds; it becomes the active one; its list is synced; or nothing.
LEMMA SidesDo ==
    ASSUME FormInv, HomeInv, TurnInv, SideSteps
    PROVE  /\ UNCHANGED <<stored, saved>> /\ Keeps
           /\ turn'.stage = turn.stage /\ turn'.reply = turn.reply /\ turn'.input = turn.input
           /\ side'.stage \in {"creating", "opening", "applying"} =>
                 /\ side'.session \in Sessions
                 /\ \/ side'.payload = <<>>
                    \/ side'.payload = stored[side'.session]
                    \/ side' = side
           /\ \/ UNCHANGED <<active, settings, config, posts, turn>>
              \/ /\ turn'.stage = "syncing" => ~turn'.clean
                 /\ \/ /\ UNCHANGED <<posts, settings>> /\ config' = side.payload
                       /\ active' = side.session /\ side.session \in Sessions
                       /\ Homed(side.payload, side.session)
                       /\ config' # <<>> \/ Unresolvable(settings)
                    \/ /\ UNCHANGED <<posts, active, config>>
                       /\ active # None => Unresolvable(settings')
                    \/ \E by \in {"turn", "side"} :
                          /\ active' \in Sessions /\ config' # <<>>
                          /\ \A i \in DOMAIN config' :
                                config'[i].id \in DOMAIN bornIn' /\ bornIn'[config'[i].id] = active'
                          /\ posts' = posts \cup {[by |-> by, session |-> active', epochs |-> config']}
<1> DEFINE Asks == {"creating", "opening", "applying"}
<1>1. side \in Sides /\ turn \in Turns /\ created \subseteq Sessions /\ None \notin Sessions
      /\ active \in Sessions \cup {None}
  BY NoneIsNoSession DEF FormInv
<1>2. NoSide.stage = "idle" /\ NoSide.payload = <<>>
  BY DEF NoSide
<1>3. UNCHANGED <<stored, saved>>
  BY DEF SideSteps, CreateRequested, OpenRequested, SessionServed, SessionApplied, SettingsUpdated,
    SideSynced, OpeningWritten, OpeningImpossible, host
<1>4. CASE CreateRequested \/ OpenRequested
  <2>1. PICK op \in {"create", "open"}, stage \in {"creating", "opening"}, s \in Sessions :
             side' = [NoSide EXCEPT !.op = op, !.stage = stage, !.session = s]
    BY <1>1, <1>4 DEF CreateRequested, OpenRequested, SideBegins
  <2>2. side'.session \in Sessions /\ side'.payload = <<>>
    BY <2>1 DEF NoSide
  <2>3. UNCHANGED <<active, settings, config, posts, turn, bornIn>>
    BY <1>4 DEF CreateRequested, OpenRequested, client
  <2>4. QED
    BY <1>3, <2>2, <2>3, KeptUnchanged
<1>5. CASE SessionServed
  <2>1. side.session \in Sessions
    BY <1>5 DEF SessionServed, HomeInv
  <2>2. side'.session = side.session /\ side'.payload = stored[side'.session]
    BY <1>1, <1>5 DEF SessionServed, Sides
  <2>3. UNCHANGED <<active, settings, config, posts, turn, bornIn>>
    BY <1>5 DEF SessionServed, client
  <2>4. QED
    BY <1>3, <2>1, <2>2, <2>3, KeptUnchanged
<1>6. CASE SessionApplied
  <2>1. /\ side.session \in Sessions /\ Homed(side.payload, side.session) /\ side.payload \in Lists
        /\ active' = side.session /\ settings' = settings
    BY <1>1, <1>6 DEF SessionApplied, HomeInv, Sides
  <2>2. turn'.stage = turn.stage /\ turn'.reply = turn.reply /\ turn'.input = turn.input
        /\ (turn'.stage = "syncing" => ~turn'.clean)
    BY <1>1, <1>6, Disturbed DEF SessionApplied, Disturb, FormInv, Turns
  <2>3. CASE /\ config' = side.payload /\ side' = NoSide /\ UNCHANGED <<posts, bornIn>>
             /\ config' # <<>> \/ Unresolvable(settings)
    BY <1>1, <1>2, <1>3, <2>1, <2>2, <2>3, KeptUnchanged
  <2>4. CASE /\ Synced("side", side.session, side.payload, settings)
             /\ side' = [side EXCEPT !.stage = "syncing", !.reply = "none"]
    <3>1. side'.stage = "syncing"
      BY <1>1, <2>4 DEF Sides
    <3>2. /\ config' # <<>> /\ Keeps
          /\ \A i \in DOMAIN config' :
                config'[i].id \in DOMAIN bornIn' /\ bornIn'[config'[i].id] = active'
          /\ posts' = posts \cup {[by |-> "side", session |-> active', epochs |-> config']}
      BY <2>1, <2>4, SyncedDoes DEF FormInv
    <3>3. QED
      BY <1>1, <1>3, <2>1, <2>2, <3>1, <3>2
  <2>5. QED
    BY <1>6, <2>3, <2>4 DEF SessionApplied
<1>7. CASE SettingsUpdated
  <2>1. PICK patch \in Patches :
             /\ settings' = Merged(settings, patch) /\ Disturb
             /\ \/ /\ active # None /\ SideBegins("settings", "syncing", active)
                   /\ Synced("side", active, config, Merged(settings, patch))
                \/ /\ UNCHANGED <<side, config, posts, bornIn>>
                   /\ active = None \/ Unresolvable(Merged(settings, patch))
             /\ active' = active
    BY <1>7 DEF SettingsUpdated
  <2>2. turn'.stage = turn.stage /\ turn'.reply = turn.reply /\ turn'.input = turn.input
        /\ (turn'.stage = "syncing" => ~turn'.clean)
    BY <1>1, <2>1, Disturbed DEF Disturb, FormInv, Turns
  <2> DEFINE s == Merged(settings, patch)
  <2>3. CASE UNCHANGED <<side, config, posts, bornIn>> /\ (active = None \/ Unresolvable(s))
    <3>1. side.stage \in Asks => side.session \in Sessions
      BY DEF HomeInv
    <3>2. QED
      BY <1>3, <2>1, <2>2, <2>3, <3>1, KeptUnchanged
  <2>4. CASE active # None /\ SideBegins("settings", "syncing", active) /\ Synced("side", active, config, s)
    <3>1. side'.stage = "syncing"
      BY <2>4 DEF SideBegins, NoSide
    <3>2. s \in AnySettings /\ active \in Sessions /\ Homed(config, active)
      BY <1>1, <2>4, MergedIsSettings DEF FormInv, HomeInv
    <3> HIDE DEF s
    <3>3. /\ config' # <<>> /\ Keeps
          /\ \A i \in DOMAIN config' :
                config'[i].id \in DOMAIN bornIn' /\ bornIn'[config'[i].id] = active
          /\ posts' = posts \cup {[by |-> "side", session |-> active, epochs |-> config']}
      BY <2>4, <3>2, SyncedDoes DEF FormInv
    <3>4. QED
      BY <1>1, <1>3, <2>1, <2>2, <3>1, <3>2, <3>3
  <2>5. QED
    BY <2>1, <2>3, <2>4
<1>8. CASE SideSynced \/ OpeningWritten \/ OpeningImpossible
  <2>1. side'.stage \notin Asks
    BY <1>1, <1>2, <1>8 DEF SideSynced, OpeningWritten, OpeningImpossible, Sides
  <2>2. UNCHANGED <<active, settings, config, posts, turn, bornIn>>
    BY <1>8 DEF SideSynced, OpeningWritten, OpeningImpossible, client
  <2>3. QED
    BY <1>3, <2>1, <2>2, KeptUnchanged
<1>9. QED
  BY <1>4, <1>5, <1>6, <1>7, <1>8 DEF SideSteps

LEMMA HomeOfSides ==
    ASSUME FormInv, HomeInv, TurnInv, SideSteps
    PROVE  HomeInv'
<1>1. Keeps /\ UNCHANGED <<stored, saved>>
  BY SidesDo
<1>2. \A s \in Sessions : Homed(stored[s], s)' /\ Homed(saved[s], s)'
  BY <1>1 DEF HomeInv, Homed, Keeps
<1>3. side'.stage \in {"creating", "opening", "applying"} =>
          side'.session \in Sessions /\ Homed(side.payload, side.session)'
  <2>1. SUFFICES ASSUME side'.stage \in {"creating", "opening", "applying"}
                 PROVE  side'.session \in Sessions /\ Homed(side.payload, side.session)'
    OBVIOUS
  <2>2. /\ side'.session \in Sessions
        /\ side'.payload = <<>> \/ side'.payload = stored[side'.session] \/ side' = side
    BY <2>1, SidesDo
  <2>3. CASE side'.payload = <<>>
    BY <2>2, <2>3 DEF Homed
  <2>4. CASE side'.payload = stored[side'.session]
    BY <1>1, <1>2, <2>2, <2>4 DEF Homed
  <2>5. CASE side' = side
    BY <1>1, <2>1, <2>2, <2>5 DEF HomeInv, Homed, Keeps
  <2>6. QED
    BY <2>2, <2>3, <2>4, <2>5
<1>4. (active' # None => Homed(config, active)') /\ \A p \in posts' : Homed(p.epochs, p.session)'
  <2>1. \A p \in posts : Homed(p.epochs, p.session)'
    BY <1>1, HomesKept DEF HomeInv
  <2>2. CASE UNCHANGED <<active, config, posts>>
    BY <1>1, <2>1, <2>2 DEF HomeInv, Homed, Keeps
  <2>3. CASE UNCHANGED posts /\ config' = side.payload /\ active' = side.session
             /\ Homed(side.payload, side.session)
    BY <1>1, <2>1, <2>3 DEF Homed, Keeps
  <2>4. CASE \E by \in {"turn", "side"} :
               /\ \A i \in DOMAIN config' :
                     config'[i].id \in DOMAIN bornIn' /\ bornIn'[config'[i].id] = active'
               /\ posts' = posts \cup {[by |-> by, session |-> active', epochs |-> config']}
    <3>1. Homed(config, active)'
      BY <2>4 DEF Homed
    <3>2. ASSUME NEW p \in posts' PROVE Homed(p.epochs, p.session)'
      <4>1. CASE p \in posts
        BY <2>1, <4>1
      <4>2. CASE p \notin posts
        BY <2>4, <3>2, <4>2 DEF Homed
      <4>3. QED
        BY <4>1, <4>2
    <3>3. QED
      BY <3>1, <3>2
  <2>5. QED
    BY <2>2, <2>3, <2>4, SidesDo
<1>5. QED
  BY <1>2, <1>3, <1>4 DEF HomeInv

LEMMA TurnsOfSides ==
    ASSUME FormInv, HomeInv, TurnInv, GovernInv, NamedInv, SideSteps
    PROVE  TurnInv' /\ GovernInv' /\ NamedInv'
<1>1. /\ turn'.stage = turn.stage /\ turn'.reply = turn.reply /\ turn'.input = turn.input
      /\ UNCHANGED <<stored, saved>> /\ Keeps
  BY SidesDo
<1>2. None \notin Sessions
  BY NoneIsNoSession
<1>3. NamedInv'
  <2>1. attempt' = attempt \/ attempt'.kind # "round"
    <3>1. CASE OpeningWritten
      BY <3>1 DEF OpeningWritten, Ran
    <3>2. CASE ~OpeningWritten
      BY <3>2 DEF SideSteps, CreateRequested, OpenRequested, SessionServed, SessionApplied,
        SettingsUpdated, SideSynced, OpeningImpossible
    <3>3. QED
      BY <3>1, <3>2
  <2>2. QED
    BY <1>1, <2>1, NamedKept
<1>4. CASE UNCHANGED <<active, settings, config, posts, turn>>
  BY <1>1, <1>3, <1>4 DEF TurnInv, GovernInv, TurnSettings
<1>5. CASE /\ turn'.stage = "syncing" => ~turn'.clean
           /\ \/ /\ UNCHANGED settings /\ active' = side.session /\ side.session \in Sessions
                 /\ config' # <<>> \/ Unresolvable(settings)
              \/ UNCHANGED <<active, config>> /\ (active # None => Unresolvable(settings'))
              \/ active' \in Sessions /\ config' # <<>>
  BY <1>1, <1>2, <1>3, <1>5 DEF TurnInv, GovernInv
<1>6. QED
  BY <1>4, <1>5, SidesDo

LEMMA ServedDoes ==
    ASSUME FormInv, HostServes \/ HostCannotSave
    PROVE  \E p \in posts :
             /\ p.session \in Sessions
             /\ stored' = [stored EXCEPT ![p.session] = p.epochs]
             /\ posts' = posts \ {p}
             /\ UNCHANGED <<active, settings, config, attempt, bornIn>>
             /\ turn'.stage = turn.stage /\ turn'.input = turn.input /\ turn'.clean = turn.clean
             /\ side'.stage = side.stage /\ side'.session = side.session
             /\ side'.payload = side.payload
             /\ \/ saved' = [saved EXCEPT ![p.session] = p.epochs]
                \/ saved' = saved /\ (turn'.reply = "error" \/ turn'.reply = turn.reply)
<1>1. turn \in Turns /\ side \in Sides /\ posts \subseteq Posts
  BY DEF FormInv
<1>2. PICK p \in posts, reply \in {"ok", "error"} :
           /\ stored' = [stored EXCEPT ![p.session] = p.epochs]
           /\ \/ saved' = [saved EXCEPT ![p.session] = p.epochs]
              \/ saved' = saved /\ reply = "error"
           /\ posts' = posts \ {p} /\ Answer(p.by, reply)
           /\ UNCHANGED <<active, settings, config, attempt, bornIn>>
  BY DEF HostServes, HostCannotSave, ProvenanceStored, client
<1>3. /\ turn'.stage = turn.stage /\ turn'.input = turn.input /\ turn'.clean = turn.clean
      /\ turn'.reply = reply \/ turn'.reply = turn.reply
  BY <1>1, <1>2 DEF Answer, Turns
<1>4. side'.stage = side.stage /\ side'.session = side.session /\ side'.payload = side.payload
  BY <1>1, <1>2 DEF Answer, Sides
<1>5. p.session \in Sessions
  BY <1>1 DEF Posts
<1>6. QED
  BY <1>2, <1>3, <1>4, <1>5

LEMMA HostSteps_Keep ==
    ASSUME EpochInv, HostSteps \/ ClientRestarts
    PROVE  HomeInv' /\ TurnInv' /\ GovernInv' /\ NamedInv'
<1> USE DEF EpochInv
<1>1. turn \in Turns /\ side \in Sides /\ posts \subseteq Posts
  BY DEF FormInv
<1>2. CASE HostServes \/ HostCannotSave
  <2>1. PICK p \in posts :
             /\ p.session \in Sessions
             /\ stored' = [stored EXCEPT ![p.session] = p.epochs]
             /\ posts' = posts \ {p}
             /\ UNCHANGED <<active, settings, config, attempt, bornIn>>
             /\ turn'.stage = turn.stage /\ turn'.input = turn.input /\ turn'.clean = turn.clean
             /\ side'.stage = side.stage /\ side'.session = side.session
             /\ side'.payload = side.payload
             /\ \/ saved' = [saved EXCEPT ![p.session] = p.epochs]
                \/ saved' = saved /\ (turn'.reply = "error" \/ turn'.reply = turn.reply)
    BY <1>2, ServedDoes
  <2>2. Homed(p.epochs, p.session) /\ stored \in [Sessions -> Lists] /\ saved \in [Sessions -> Lists]
    BY DEF HomeInv, FormInv
  <2>3. ASSUME NEW s \in Sessions PROVE Homed(stored[s], s)' /\ Homed(saved[s], s)'
    <3>1. stored'[s] = stored[s] \/ (s = p.session /\ stored'[s] = p.epochs)
      BY <2>1, <2>2
    <3>2. saved'[s] = saved[s] \/ (s = p.session /\ saved'[s] = p.epochs)
      BY <2>1, <2>2
    <3>3. Homed(stored[s], s) /\ Homed(saved[s], s)
      BY DEF HomeInv
    <3>4. QED
      BY <2>1, <2>2, <3>1, <3>2, <3>3 DEF Homed
  <2>4. HomeInv'
    BY <2>1, <2>3 DEF HomeInv, Homed
  <2>5. TurnInv' /\ NamedInv'
    BY <2>1 DEF TurnInv, NamedInv
  <2>6. GovernInv'
    <3>1. SUFFICES ASSUME turn'.stage = "syncing", turn'.clean
                   PROVE  /\ config' # <<>> /\ Last(config').resolved = Snapshot(TurnSettings')
                          /\ \A q \in posts' : q.session = active' /\ q.epochs = config'
                          /\ turn'.reply = "ok" => saved'[active'] = config'
      BY DEF GovernInv
    <3>2. /\ config # <<>> /\ Last(config).resolved = Snapshot(TurnSettings)
          /\ \A q \in posts : q.session = active /\ q.epochs = config
          /\ turn.reply = "ok" => saved[active] = config
      BY <2>1, <3>1 DEF GovernInv
    <3>3. TurnSettings' = TurnSettings
      BY <2>1 DEF TurnSettings
    <3>4. p.session = active /\ p.epochs = config
      BY <3>2
    <3>5. turn'.reply = "ok" => saved'[active] = config
      <4>1. CASE saved' = [saved EXCEPT ![p.session] = p.epochs]
        BY <2>1, <2>2, <3>4, <4>1
      <4>2. CASE saved' = saved /\ (turn'.reply = "error" \/ turn'.reply = turn.reply)
        BY <3>2, <4>2
      <4>3. QED
        BY <2>1, <4>1, <4>2
    <3>6. QED
      BY <2>1, <3>2, <3>3, <3>5
  <2>7. QED
    BY <2>4, <2>5, <2>6
<1>3. CASE HostRestarts
  <2>1. /\ stored' = saved /\ posts' = {}
        /\ UNCHANGED <<active, settings, config, saved, attempt, bornIn>>
    BY <1>3 DEF HostRestarts, client
  <2>2. /\ turn'.stage = turn.stage /\ turn'.input = turn.input /\ turn'.clean = turn.clean
        /\ turn'.reply = "error" \/ turn'.reply = turn.reply
    BY <1>1, <1>3 DEF HostRestarts, Turns
  <2>3. side'.stage = side.stage /\ side'.session = side.session /\ side'.payload = side.payload
    BY <1>1, <1>3 DEF HostRestarts, Sides
  <2>4. HomeInv'
    BY <2>1, <2>3 DEF HomeInv, Homed
  <2>5. TurnInv' /\ NamedInv'
    BY <2>1, <2>2 DEF TurnInv, NamedInv
  <2>6. TurnSettings' = TurnSettings
    BY <2>1, <2>2 DEF TurnSettings
  <2>7. GovernInv'
    BY <2>1, <2>2, <2>6 DEF GovernInv
  <2>8. QED
    BY <2>4, <2>5, <2>7
<1>4. CASE ClientRestarts
  <2>1. /\ active' = None /\ turn' = NoTurn /\ side' = NoSide
        /\ UNCHANGED <<stored, saved, attempt, bornIn>>
        /\ posts' = {[p EXCEPT !.by = "nobody"] : p \in posts}
    BY <1>4 DEF ClientRestarts, host
  <2>2. turn'.stage = "idle" /\ side'.stage = "idle"
    BY <2>1 DEF NoTurn, NoSide
  <2>3. ASSUME NEW q \in posts' PROVE Homed(q.epochs, q.session)'
    <3>1. PICK p \in posts : q = [p EXCEPT !.by = "nobody"]
      BY <2>1
    <3>2. q.epochs = p.epochs /\ q.session = p.session
      BY <1>1, <3>1 DEF Posts
    <3>3. QED
      BY <2>1, <3>2 DEF HomeInv, Homed
  <2>4. HomeInv'
    BY <2>1, <2>2, <2>3 DEF HomeInv, Homed
  <2>5. QED
    BY <2>1, <2>2, <2>4 DEF TurnInv, GovernInv, NamedInv
<1>5. QED
  BY <1>2, <1>3, <1>4 DEF HostSteps

-----------------------------------------------------------------------------
(* The theorems *)

LEMMA EpochStarts == ASSUME Init PROVE EpochInv
<1> USE DEF Init
<1>1. turn.stage = "idle" /\ side.stage = "idle" /\ attempt.kind = "none"
  BY DEF NoTurn, NoSide, NoAttempt
<1>2. <<>> \in Lists /\ <<>> \in Seq(Sessions)
  BY DEF Lists
<1>3. FormInv
  BY <1>2, NobodyServed, DefaultsAreSettings DEF FormInv
<1>4. HomeInv
  BY <1>1 DEF HomeInv, Homed
<1>5. QED
  BY <1>1, <1>3, <1>4 DEF EpochInv, TurnInv, GovernInv, NamedInv

LEMMA EpochStep == ASSUME EpochInv, Next PROVE EpochInv'
<1> USE DEF EpochInv
<1>1. CASE TurnSteps
  BY <1>1, FormOfTurns, HomeOfTurns, TurnOfTurns, GovernOfTurns, NamedOfTurns
<1>2. CASE SideSteps
  BY <1>2, FormOfSides, HomeOfSides, TurnsOfSides
<1>3. CASE HostSteps \/ ClientRestarts
  BY <1>3, FormOfHost, HostSteps_Keep
<1>4. QED
  BY <1>1, <1>2, <1>3 DEF Next

\* The inductive invariant of the client's configuration and the host's copies of it.
THEOREM EpochsInvariant == Spec => []EpochInv
<1>1. ASSUME EpochInv, [Next]_vars PROVE EpochInv'
  <2>1. CASE UNCHANGED vars
    BY <1>1, <2>1 DEF vars, client, host, EpochInv, FormInv, HomeInv, Homed, TurnInv, GovernInv,
      TurnSettings, NamedInv
  <2>2. QED
    BY <1>1, <2>1, EpochStep
<1>2. QED
  BY <1>1, EpochStarts, PTL DEF Spec

\* An inference of a round never names an epoch that was made for another session,
\* whatever session the sidebar opens while the turn is prepared (_runActiveRound,
\* _applySessionPayload): for any settings, requests and faults.
THEOREM NamedEpochsAreOwn == Spec => []NamedInv
BY EpochsInvariant, PTL DEF EpochInv

\* What an epoch list of a session holds, in memory and on disk, was made for it
\* (update_runtime_provenance replaces a session's list with what was posted).
THEOREM ListsStayHome ==
    Spec => [](\A s \in Sessions : Homed(stored[s], s) /\ Homed(saved[s], s))
<1>1. EpochInv => \A s \in Sessions : Homed(stored[s], s) /\ Homed(saved[s], s)
  BY DEF EpochInv, HomeInv
<1>2. QED
  BY <1>1, EpochsInvariant, PTL

LEMMA ModesKept ==
    ASSUME BodiesKeepModes, NEW s \in AnySettings, NEW o \in Overrides \cup {<<>>}
    PROVE  Unresolvable(Merged(s, o)) <=> Unresolvable(s)
<1>1. {"inferenceMode", "calibration", "characterization"} \subseteq DOMAIN s
  BY SettingsAreRecords DEF AnySettings, Settings
<1>2. DOMAIN o \cap {"inferenceMode", "calibration", "characterization"} = {}
  BY DEF BodiesKeepModes
<1>3. \A f \in {"inferenceMode", "calibration", "characterization"} : Merged(s, o)[f] = s[f]
  BY <1>1, <1>2 DEF Merged
<1>4. QED
  BY <1>3 DEF Unresolvable

LEMMA RoundsNameStep ==
    ASSUME BodiesKeepModes, EpochInv, RoundsNameTheirSession, [Next]_vars
    PROVE  RoundsNameTheirSession'
<1>1. CASE RoundStarted
  <2>1. /\ attempt'.kind = "round" /\ attempt'.session = active /\ bornIn' = bornIn
        /\ attempt'.epoch = CurrentEpoch(config)
        /\ turn.stage = "syncing" /\ ~Unresolvable(TurnSettings)
    BY <1>1 DEF RoundStarted, Ran
  <2>2. active # None /\ config \in Lists /\ settings \in AnySettings
        /\ turn.input \in Overrides \cup {<<>>}
    BY <2>1 DEF EpochInv, TurnInv, FormInv, Turns
  <2>3. ~Unresolvable(settings)
    BY <2>1, <2>2, ModesKept DEF TurnSettings
  <2>4. config # <<>>
    BY <2>1, <2>3 DEF EpochInv, TurnInv
  <2>5. /\ Len(config) \in DOMAIN config /\ CurrentEpoch(config) = config[Len(config)].id
        /\ CurrentEpoch(config) \in Nat
    BY <2>2, <2>4, CurrentIsListed
  <2>6. Homed(config, active)
    BY <2>2 DEF EpochInv, HomeInv
  <2>7. QED
    BY <2>1, <2>5, <2>6, NoneIsNoSession DEF RoundsNameTheirSession, Homed
<1>2. CASE ~RoundStarted
  <2>1. attempt' = attempt \/ attempt'.kind # "round"
    <3>1. CASE TurnTriaged \/ OpeningWritten
      BY <3>1 DEF TurnTriaged, OpeningWritten, Ran
    <3>2. CASE ~TurnTriaged /\ ~OpeningWritten
      BY <1>2, <3>2 DEF Next, vars, TurnSteps, TurnAccepted, TurnPosted, TurnSynced, TurnPresented,
        TurnSucceeded, TurnFailed, TurnBroken, SideSteps, CreateRequested, OpenRequested, SessionServed,
        SessionApplied, SettingsUpdated, SideSynced, OpeningImpossible, HostSteps, HostServes,
        HostCannotSave, HostRestarts, ClientRestarts
    <3>3. QED
      BY <3>1, <3>2
  <2>2. NamedInv'
    <3>1. CASE Next
      BY <3>1, EpochStep DEF EpochInv
    <3>2. CASE UNCHANGED vars
      BY <3>2 DEF vars, EpochInv, NamedInv
    <3>3. QED
      BY <3>1, <3>2
  <2>3. QED
    BY <2>1, <2>2 DEF RoundsNameTheirSession, NamedInv
<1>3. QED
  BY <1>1, <1>2

\* Every inference of a round names an epoch, and one of its own session, provided
\* that no turn's body changes the modes: RoundsNameTheirSession. Where a body may,
\* a session opened meanwhile under settings that resolve to nothing leaves none.
THEOREM RoundsNameOwn == ASSUME BodiesKeepModes PROVE Spec => []RoundsNameTheirSession
<1>1. Init => RoundsNameTheirSession
  BY DEF Init, NoAttempt, RoundsNameTheirSession
<1>2. EpochInv /\ RoundsNameTheirSession /\ [Next]_vars => RoundsNameTheirSession'
  BY RoundsNameStep
<1>3. QED
  BY <1>1, <1>2, EpochsInvariant, PTL DEF Spec

\* A round whose synchronization was not disturbed runs under the configuration of
\* its epoch, which is on disk by then: RoundsAreGoverned, of every step.
THEOREM RoundsGoverned == Spec => RoundsAreGoverned
<1> DEFINE Act == RoundBegins /\ turn.clean =>
                    LET epoch == Last(config) IN
                    /\ epoch.id = roundEpoch' /\ epoch.resolved = turn'.used
                    /\ epoch \in Range(saved[turn'.ranIn])
<1>1. ASSUME EpochInv, Next PROVE Act
  <2>1. SUFFICES ASSUME turn.stage = "syncing", turn'.stage = "running", turn.clean
                 PROVE  /\ Last(config).id = roundEpoch' /\ Last(config).resolved = turn'.used
                        /\ Last(config) \in Range(saved[turn'.ranIn])
    BY DEF RoundBegins
  <2>2. turn \in Turns /\ config \in Lists
    BY <1>1 DEF EpochInv, FormInv
  <2>3. RoundStarted
    <3>1. ~SideSteps
      <4>1. SideSteps => turn'.stage = turn.stage
        BY <1>1, SidesDo DEF EpochInv
      <4>2. QED
        BY <2>1, <4>1
    <3>2. ~HostServes /\ ~HostCannotSave
      BY <1>1, <2>1, ServedDoes DEF EpochInv
    <3>3. ~HostRestarts
      BY <2>1, <2>2 DEF HostRestarts, Turns
    <3>4. ~ClientRestarts
      BY <2>1 DEF ClientRestarts, NoTurn
    <3>5. ~TurnAccepted /\ ~TurnTriaged /\ ~TurnPosted /\ ~TurnSynced /\ ~TurnPresented
      BY <2>1 DEF TurnAccepted, TurnTriaged, TurnPosted, TurnSynced, TurnPresented
    <3>6. ~TurnSucceeded /\ ~TurnFailed /\ ~TurnBroken
      BY <2>1 DEF TurnSucceeded, TurnFailed, TurnBroken, NoTurn
    <3>7. QED
      BY <1>1, <3>1, <3>2, <3>3, <3>4, <3>5, <3>6 DEF Next, HostSteps, TurnSteps
  <2>4. /\ config # <<>> /\ Last(config).resolved = Snapshot(TurnSettings)
        /\ saved[active] = config
    BY <1>1, <2>1, <2>3 DEF EpochInv, GovernInv, RoundStarted, PostAccepted
  <2> DEFINE run == Snapshot(RoundSettings)
  <2>5. /\ roundEpoch' = CurrentEpoch(config) /\ run = Snapshot(TurnSettings)
        /\ turn' = [turn EXCEPT !.stage = "running", !.ranIn = active, !.used = run]
    BY <2>3 DEF RoundStarted, RoundSettings
  <2> HIDE DEF run
  <2>6. turn'.ranIn = active /\ turn'.used = run
    BY <2>2, <2>5 DEF Turns
  <2>7. QED
    BY <2>2, <2>4, <2>5, <2>6, CurrentIsListed
<1>2. ASSUME EpochInv, [Next]_vars PROVE [Act]_vars
  BY <1>1, <1>2
<1>3. Spec => [][Act]_vars
  <2> HIDE DEF Act
  <2>1. QED
    BY <1>2, EpochsInvariant, PTL DEF Spec
<1>4. QED
  BY <1>3 DEF RoundsAreGoverned

=============================================================================

---------------------------- MODULE SessionHost ----------------------------
(***************************************************************************)
(* One session of the Python Domain Host (v2/domain_api): the session held *)
(* in memory, its file, the rounds open on it, and the handlers that       *)
(* change them.  The Node application sends one mutating call at a time    *)
(* and waits for the answer, so one handler is in flight; each handler is  *)
(* cut where a crash of the host or an I/O error can fall between two of   *)
(* its effects.  Every handler starts with repository.require, which loads *)
(* the session if the process does not hold it: that load is Open.         *)
(***************************************************************************)
EXTENDS Integers, Sequences, FiniteSets, SequencesExt

CONSTANTS
    Requests,       \* commit requests (one per dedup key; a retry is the same request)
    Expected,       \* request -> the expected_turn_index it carries
    Rounds,         \* the rounds a client may start
    Calls,          \* the handlers the client uses (a subset of Handlers)
    Faults,         \* what may go wrong (a subset of AllFaults)
    MaxIds,         \* bound: commit ids drawn
    MaxHistory,     \* bound: entries of the session history
    NoSession, NoRequest, NoRound

Handlers == {"create", "commit", "user", "skip", "presentation", "opening",
             "finalize", "provenance"}

\* refuse: the file cannot be opened, nothing is truncated.  tear: the write
\* stops after open(..., "w") truncated the file.  index: the session index
\* cannot be written.  promote: a knowledge store cannot be written, or read.
\* plot: recording plot-cognition work raises.  crash: the process dies.
AllFaults == {"refuse", "tear", "index", "promote", "plot", "crash"}

ASSUME ExpectedAssumption == Expected \in [Requests -> Nat]
ASSUME BoundsAssumption == MaxIds \in Nat /\ MaxHistory \in Nat
ASSUME ChoiceAssumption == Calls \subseteq Handlers /\ Faults \subseteq AllFaults
ASSUME NullAssumption == NoRequest \notin Requests /\ NoRound \notin Rounds

VARIABLES
    live,           \* the cached LiveSession, or NoSession
    rounds,         \* RoundFixture of each round; rounds live in memory only
    dedup,          \* SessionRepository._commit_dedup
    disk,           \* the session file
    call,           \* the handler in flight
    undo,           \* what the handler found when it started
    acked,          \* commit answers the client has received
    finalized,      \* commits the client was told are finalized
    promoted,       \* commits projected to the knowledge stores
    minted          \* commit ids drawn so far

hostVars == <<live, rounds, dedup>>
clientVars == <<acked, finalized>>
vars == <<live, rounds, dedup, disk, call, undo, acked, finalized, promoted, minted>>

-----------------------------------------------------------------------------
(* Sessions, rounds and handlers in flight *)

Ids == 1..MaxIds
Kinds == {"opening", "user", "player_skip", "committed_turn", "presentation"}
Entries == [kind : Kinds, ref : 0..MaxIds]
Answers == [id : 0..MaxIds, turn : Nat]
NoAnswer == [id |-> 0, turn |-> 0]
NoOverlay == [from |-> 0, at |-> -1]

Sessions ==
    [turns : Seq(Requests),             \* process_turn applied, in order
     ids : Seq(Ids),                    \* commit_ids
     count : Nat,                       \* committed_move_count
     index : [Requests -> Answers],     \* commit_dedup_index
     history : Seq(Entries),            \* rp_history; sequence_index = position - 1
     memory : Seq(Entries),             \* what the character states were told
     audit : Seq(0..MaxIds),            \* librarian_proposal_audit_log
     latest : Int,                      \* latest_player_authority_sequence_index
     overlay : [from : 0..MaxIds, at : Int]]  \* the issue pressure overlay

ASSUME SessionAssumption == NoSession \notin Sessions

Fresh ==
    [turns |-> <<>>, ids |-> <<>>, count |-> 0,
     index |-> [r \in Requests |-> NoAnswer],
     history |-> <<>>, memory |-> <<>>, audit |-> <<>>,
     latest |-> -1, overlay |-> NoOverlay]

RoundStates ==
    [state : {"unused", "open", "gone"},
     turns : Seq(Ids),                  \* character_turns
     epoch : Nat,                       \* eligibility_epoch
     package : Nat \cup {-1}]           \* moves seen by the valid advisory package, or none

UnusedRound == [state |-> "unused", turns |-> <<>>, epoch |-> 0, package |-> -1]

Absent == [state |-> "absent", session |-> Fresh]

\* index .. failed are points inside repository.persist, saved .. answer follow it.
Steps == {"idle", "write", "index", "saved", "failed", "record", "answer"}
Outcomes == {"none", "ok", "committed", "rejected", "unknown_round", "already_terminal", "error"}

HandlerCalls ==
    [op : Handlers \cup {"none"}, step : Steps, outcome : Outcomes,
     req : Requests \cup {NoRequest}, round : Rounds \cup {NoRound},
     commit : 0..MaxIds, applied : BOOLEAN]

Idle == [op |-> "none", step |-> "idle", outcome |-> "none", req |-> NoRequest,
         round |-> NoRound, commit |-> 0, applied |-> FALSE]

NothingToUndo ==
    [live |-> NoSession, rounds |-> [k \in Rounds |-> UnusedRound],
     dedup |-> [r \in Requests |-> NoAnswer]]

Entry(kind, ref) == [kind |-> kind, ref |-> ref]

TurnCounter(s) == Len(s.turns)

-----------------------------------------------------------------------------
(* What the handlers do to the session in memory *)

\* A definition named X_Y is X as a plausible mistake would write it; no
\* specification uses it, and some property must fail if X is replaced by it.

\* Phases C and D of execute_commit_move, and the dedup record.
MoveApplied(s, r, id) ==
    [s EXCEPT !.turns = Append(@, r),
              !.memory = Append(@, Entry("committed_turn", id)),
              !.count = @ + 1,
              !.ids = Append(@, id),
              !.history = Append(@, Entry("committed_turn", id)),
              !.index = [@ EXCEPT ![r] = [id |-> id, turn |-> TurnCounter(s) + 1]]]

DedupForgotten_Kept(d, r) == d

DedupForgotten(d, r) == [d EXCEPT ![r] = NoAnswer]

RoundMoved(k, id) == [k EXCEPT !.turns = Append(@, id), !.epoch = @ + 1]

UserTurnApplied(s) ==
    [s EXCEPT !.history = Append(@, Entry("user", 0)),
              !.memory = Append(@, Entry("user", 0))]

EntryAppended(s, kind, ref) == [s EXCEPT !.history = Append(@, Entry(kind, ref))]

\* _build_overlay stamps the overlay with the latest player post the manager knows.
OverlayApplied(s, id) == [from |-> id, at |-> s.latest]

\* Every outcome of finalize_proposals leaves one audit entry; some apply the
\* issue-pressure overlay.
ProposalsFinalized(s, id, applied) ==
    [s EXCEPT !.audit = Append(@, id),
              !.overlay = IF applied THEN OverlayApplied(s, id) ELSE @]

\* note_authoritative_player_contribution
PlayerContributionNoted(s, seq) == [s EXCEPT !.latest = IF seq > @ THEN seq ELSE @]

Saved_WithoutIndex(s) ==
    [s EXCEPT !.latest = -1, !.index = [r \in Requests |-> NoAnswer]]

\* to_dict / from_dict of the continuity manager keep every field but one.
Saved(s) == [s EXCEPT !.latest = -1]

\* restore_manager(snapshot) inside session s, where u is the state snapshotted.
ManagerRestored(s, u) == [s EXCEPT !.turns = u.turns, !.overlay = u.overlay, !.latest = -1]

CommitRolledBack_KeepsHistory(s, u, r) ==
    [ManagerRestored(s, u) EXCEPT !.memory = u.memory, !.count = u.count, !.ids = u.ids,
                                  !.index = DedupForgotten(@, r)]

CommitRolledBack_KeepsIds(s, u, r) ==
    [ManagerRestored(s, u) EXCEPT !.memory = u.memory, !.history = u.history,
                                  !.index = DedupForgotten(@, r)]

CommitRolledBack(s, u, r) ==
    [ManagerRestored(s, u) EXCEPT
        !.memory = u.memory,
        !.count = u.count,
        !.ids = u.ids,
        !.history = u.history,
        !.index = DedupForgotten(@, r)]

RoundRestored_KeepsEpoch(k, u) == [k EXCEPT !.turns = u.turns]

\* _restore_round_snapshot; the advisory package is not part of the snapshot.
RoundRestored(k, u) == [k EXCEPT !.turns = u.turns, !.epoch = u.epoch]

UserTurnUndone(s, u) == [s EXCEPT !.memory = u.memory, !.history = Front(@)]

ProposalsUndone_KeepsAudit(s, u) == ManagerRestored(s, u)

ProposalsUndone(s, u) == [ManagerRestored(s, u) EXCEPT !.audit = Front(@)]

PackageInvalidated_Skipped(k) == k

PackageInvalidated(k) == [k EXCEPT !.package = -1]

\* find_terminal_audit_for_commit
Terminal(s, id) == id \in ToSet(s.audit)

\* is_initialization_eligible, as far as the session decides it (generated opening).
InitializationEligible(s) == \E i \in 1..Len(s.history) : s.history[i].kind = "opening"

-----------------------------------------------------------------------------
(* A handler starts, answers, or dies with the process *)

Begin(c, session) ==
    /\ call = Idle
    /\ call' = c
    /\ undo' = [live |-> live, rounds |-> rounds, dedup |-> dedup]
    /\ live' = session

Step(step) == call' = [call EXCEPT !.step = step]

Answer(outcome) == call' = [call EXCEPT !.step = "answer", !.outcome = outcome]

Ready(op) == op \in Calls /\ call = Idle /\ live # NoSession

RoomInHistory == Len(live.history) < MaxHistory

Writing(op) == [Idle EXCEPT !.op = op, !.step = "write"]

Answering(op, outcome) == [Idle EXCEPT !.op = op, !.step = "answer", !.outcome = outcome]

Anchored_Dropped(r) == TRUE

\* The anchor check of phase A.
Anchored(r) == TurnCounter(live) = Expected[r]

ToldIds == {a.id : a \in acked}

\* The answer reaches the client.
Reply ==
    /\ call.step = "answer"
    /\ acked' = IF call.outcome = "committed"
                THEN acked \cup {[req |-> call.req, id |-> dedup[call.req].id,
                                  turn |-> dedup[call.req].turn]}
                ELSE acked
    /\ finalized' = IF call.op = "finalize" /\ call.outcome # "error"
                    THEN finalized \cup {call.commit} ELSE finalized
    /\ call' = Idle
    /\ undo' = NothingToUndo
    /\ UNCHANGED <<hostVars, disk, promoted, minted>>

\* The process dies: the cache, the rounds and the global dedup map go with it.
Crash ==
    /\ "crash" \in Faults
    /\ live' = NoSession
    /\ rounds' = [k \in Rounds |-> IF rounds[k].state = "unused" THEN UnusedRound
                                   ELSE [UnusedRound EXCEPT !.state = "gone"]]
    /\ dedup' = [r \in Requests |-> NoAnswer]
    /\ call' = Idle
    /\ undo' = NothingToUndo
    /\ UNCHANGED <<disk, clientVars, promoted, minted>>

\* _restore_commit_dedup
DedupRestored(index) ==
    [r \in Requests |-> IF index[r] # NoAnswer THEN index[r] ELSE dedup[r]]

\* open_session: a torn file does not parse, so only a whole one is loaded.
Open ==
    /\ call = Idle /\ live = NoSession
    /\ disk.state = "whole"
    /\ live' = disk.session
    /\ dedup' = DedupRestored(disk.session.index)
    /\ UNCHANGED <<rounds, disk, call, undo, clientVars, promoted, minted>>

-----------------------------------------------------------------------------
(* The handlers up to repository.persist *)

\* create_session caches the session before it saves it.
Create ==
    /\ "create" \in Calls
    /\ live = NoSession /\ disk.state = "absent"
    /\ Begin(Writing("create"), Fresh)
    /\ UNCHANGED <<rounds, dedup, disk, clientVars, promoted, minted>>

StartRound(k) ==
    /\ Ready("commit")
    /\ rounds[k].state = "unused"
    /\ rounds' = [rounds EXCEPT ![k].state = "open"]
    /\ UNCHANGED <<live, dedup, disk, call, undo, clientVars, promoted, minted>>

\* bind_storyteller_advisory_package: a package made for this round, as it now is.
BindPackage(k) ==
    /\ Ready("commit")
    /\ rounds[k].state = "open"
    /\ rounds' = [rounds EXCEPT ![k].package = Len(rounds[k].turns)]
    /\ UNCHANGED <<live, dedup, disk, call, undo, clientVars, promoted, minted>>

\* commit_move: _require_round comes before the dedup lookup.
CommitUnknownRound(r, k) ==
    /\ Ready("commit")
    /\ rounds[k].state = "gone"
    /\ Begin([Answering("commit", "unknown_round") EXCEPT !.req = r, !.round = k], live)
    /\ UNCHANGED <<rounds, dedup, disk, clientVars, promoted, minted>>

\* Phase A finds the request answered: the recorded response, then the plot record.
CommitReplayed(r, k) ==
    /\ Ready("commit")
    /\ rounds[k].state = "open"
    /\ dedup[r] # NoAnswer
    /\ Begin([Writing("commit") EXCEPT !.step = "record", !.req = r, !.round = k,
                                       !.commit = dedup[r].id], live)
    /\ UNCHANGED <<rounds, dedup, disk, clientVars, promoted, minted>>

\* Phase A finds the anchor stale.
CommitMismatched(r, k) ==
    /\ Ready("commit")
    /\ rounds[k].state = "open"
    /\ dedup[r] = NoAnswer /\ ~Anchored(r)
    /\ Begin([Answering("commit", "rejected") EXCEPT !.req = r, !.round = k], live)
    /\ UNCHANGED <<rounds, dedup, disk, clientVars, promoted, minted>>

\* The perceptual derivation rejects the move (an answer), or process_turn finds
\* it illegal before it changes anything (an error).
CommitRefused(r, k) ==
    /\ Ready("commit")
    /\ rounds[k].state = "open"
    /\ dedup[r] = NoAnswer /\ Anchored(r)
    /\ \E outcome \in {"rejected", "error"} :
          Begin([Answering("commit", outcome) EXCEPT !.req = r, !.round = k], live)
    /\ UNCHANGED <<rounds, dedup, disk, clientVars, promoted, minted>>

CommitApplied(r, k) ==
    /\ Ready("commit") /\ RoomInHistory /\ minted < MaxIds
    /\ rounds[k].state = "open"
    /\ dedup[r] = NoAnswer /\ Anchored(r)
    /\ minted' = minted + 1
    /\ Begin([Writing("commit") EXCEPT !.req = r, !.round = k, !.commit = minted'],
             MoveApplied(live, r, minted'))
    /\ rounds' = [rounds EXCEPT ![k] = RoundMoved(@, minted')]
    /\ dedup' = [dedup EXCEPT ![r] = MoveApplied(live, r, minted').index[r]]
    /\ UNCHANGED <<disk, clientVars, promoted>>

UserTurn ==
    /\ Ready("user") /\ RoomInHistory
    /\ Begin(Writing("user"), UserTurnApplied(live))
    /\ UNCHANGED <<rounds, dedup, disk, clientVars, promoted, minted>>

PlayerSkip ==
    /\ Ready("skip") /\ RoomInHistory
    /\ Begin(Writing("skip"), EntryAppended(live, "player_skip", 0))
    /\ UNCHANGED <<rounds, dedup, disk, clientVars, promoted, minted>>

\* The narrator renders a move after its commit was answered.
RecordPresentation ==
    /\ Ready("presentation") /\ RoomInHistory
    /\ \E id \in ToldIds :
          Begin([Writing("presentation") EXCEPT !.commit = id],
                EntryAppended(live, "presentation", id))
    /\ UNCHANGED <<rounds, dedup, disk, clientVars, promoted, minted>>

\* persist_opening_presentation answers with the entry it finds, if it finds one.
OpeningKept ==
    /\ Ready("opening") /\ InitializationEligible(live)
    /\ Begin(Answering("opening", "ok"), live)
    /\ UNCHANGED <<rounds, dedup, disk, clientVars, promoted, minted>>

OpeningRecorded ==
    /\ Ready("opening") /\ RoomInHistory /\ ~InitializationEligible(live)
    /\ Begin(Writing("opening"), EntryAppended(live, "opening", 0))
    /\ UNCHANGED <<rounds, dedup, disk, clientVars, promoted, minted>>

\* attach_opening_perceptual_visibility: metadata of the entry changes, no more.
AttachOpeningVisibility ==
    /\ Ready("opening") /\ InitializationEligible(live)
    /\ Begin(Writing("opening"), live)
    /\ UNCHANGED <<rounds, dedup, disk, clientVars, promoted, minted>>

\* update_runtime_provenance: saves the session, changes nothing modelled here.
UpdateProvenance ==
    /\ Ready("provenance")
    /\ Begin(Writing("provenance"), live)
    /\ UNCHANGED <<rounds, dedup, disk, clientVars, promoted, minted>>

\* finalize_librarian_proposals for a commit the client was told of.
FinalizeAgain ==
    /\ Ready("finalize")
    /\ \E id \in ToldIds :
          /\ Terminal(live, id)
          /\ Begin([Answering("finalize", "already_terminal") EXCEPT !.commit = id], live)
    /\ UNCHANGED <<rounds, dedup, disk, clientVars, promoted, minted>>

FinalizeProposals ==
    /\ Ready("finalize")
    /\ \E id \in ToldIds, applied \in BOOLEAN :
          /\ ~Terminal(live, id)
          /\ Begin([Writing("finalize") EXCEPT !.commit = id, !.applied = applied],
                   ProposalsFinalized(live, id, applied))
    /\ UNCHANGED <<rounds, dedup, disk, clientVars, promoted, minted>>

-----------------------------------------------------------------------------
(* repository.persist: save_session writes the file in place, then the index *)

WriteSession ==
    /\ call.step = "write"
    /\ disk' = [state |-> "whole", session |-> Saved(live)]
    /\ Step("index")
    /\ UNCHANGED <<hostVars, undo, clientVars, promoted, minted>>

\* What a write that fails leaves in the file: what was there, or, once open has
\* truncated it and the new text did not follow, nothing that parses (a crash in
\* between is this step and then Crash).
Torn == [state |-> "torn", session |-> Fresh]
AfterFailedWrite == {d \in {disk, Torn} : IF d = Torn THEN "tear" \in Faults ELSE "refuse" \in Faults}

WriteFails ==
    /\ call.step = "write"
    /\ disk' \in AfterFailedWrite
    /\ Step("failed")
    /\ UNCHANGED <<hostVars, undo, clientVars, promoted, minted>>

IndexWritten ==
    /\ call.step = "index"
    /\ Step("saved")
    /\ UNCHANGED <<hostVars, disk, undo, clientVars, promoted, minted>>

IndexFails ==
    /\ call.step = "index" /\ "index" \in Faults
    /\ Step("failed")
    /\ UNCHANGED <<hostVars, disk, undo, clientVars, promoted, minted>>

Persist == WriteSession \/ WriteFails \/ IndexWritten \/ IndexFails

-----------------------------------------------------------------------------
(* The handlers after a failed persist *)

\* _rollback_transaction
CommitRollsBack ==
    /\ call.step = "failed" /\ call.op = "commit"
    /\ live' = CommitRolledBack(live, undo.live, call.req)
    /\ rounds' = [rounds EXCEPT ![call.round] = RoundRestored(@, undo.rounds[call.round])]
    /\ dedup' = DedupForgotten(dedup, call.req)
    /\ Answer("rejected")
    /\ UNCHANGED <<disk, undo, clientVars, promoted, minted>>

UserTurnFails ==
    /\ call.step = "failed" /\ call.op = "user"
    /\ live' = UserTurnUndone(live, undo.live)
    /\ Answer("error")
    /\ UNCHANGED <<rounds, dedup, disk, undo, clientVars, promoted, minted>>

FinalizeFails ==
    /\ call.step = "failed" /\ call.op = "finalize"
    /\ live' = ProposalsUndone(live, undo.live)
    /\ Answer("error")
    /\ UNCHANGED <<rounds, dedup, disk, undo, clientVars, promoted, minted>>

\* The other handlers let the exception through and undo nothing.
SaveFails ==
    /\ call.step = "failed" /\ call.op \notin {"commit", "user", "finalize"}
    /\ Answer("error")
    /\ UNCHANGED <<hostVars, disk, undo, clientVars, promoted, minted>>

(* ... and after a successful one *)

\* Phase F comes after the save.
PhaseF == call.step = "saved" /\ call.op = "commit"

\* Phase F: the package of the round is stale, and every public event of the
\* session is projected to the knowledge stores.  Their errors are only logged,
\* but for a vector file that cannot be parsed: that exception reaches the client
\* although the move is durable.
CommitSaved ==
    /\ PhaseF
    /\ rounds' = [rounds EXCEPT ![call.round] = PackageInvalidated(@)]
    /\ \/ promoted' = promoted \cup ToSet(live.ids) /\ Step("record")
       \/ "promote" \in Faults /\ UNCHANGED promoted /\ (Step("record") \/ Answer("error"))
    /\ UNCHANGED <<live, dedup, disk, undo, clientVars, minted>>

\* record_plot_cognition_post_commit, whose exception reaches the client although
\* the move is durable.
CommitRecorded ==
    /\ call.step = "record"
    /\ \/ Answer("committed")
       \/ "plot" \in Faults /\ Answer("error")
    /\ UNCHANGED <<hostVars, disk, undo, clientVars, promoted, minted>>

\* The manager learns of the player's post after the save, and only in memory.
UserTurnSaved ==
    /\ call.step = "saved" /\ call.op = "user"
    /\ live' = PlayerContributionNoted(live, Len(live.history) - 1)
    /\ Answer("ok")
    /\ UNCHANGED <<rounds, dedup, disk, undo, clientVars, promoted, minted>>

SaveSucceeds ==
    /\ call.step = "saved" /\ call.op \notin {"commit", "user"}
    /\ Answer("ok")
    /\ UNCHANGED <<hostVars, disk, undo, clientVars, promoted, minted>>

-----------------------------------------------------------------------------
Init ==
    /\ live = NoSession
    /\ rounds = [k \in Rounds |-> UnusedRound]
    /\ dedup = [r \in Requests |-> NoAnswer]
    /\ disk = Absent
    /\ call = Idle
    /\ undo = NothingToUndo
    /\ acked = {} /\ finalized = {} /\ promoted = {}
    /\ minted = 0

CommitArrives ==
    \E r \in Requests, k \in Rounds :
        \/ CommitUnknownRound(r, k)
        \/ CommitReplayed(r, k)
        \/ CommitMismatched(r, k)
        \/ CommitRefused(r, k)
        \/ CommitApplied(r, k)

OtherArrives ==
    \/ Create \/ UserTurn \/ PlayerSkip \/ RecordPresentation
    \/ OpeningKept \/ OpeningRecorded \/ AttachOpeningVisibility \/ UpdateProvenance
    \/ FinalizeAgain \/ FinalizeProposals
    \/ \E k \in Rounds : StartRound(k) \/ BindPackage(k)

HandlerEnds ==
    \/ CommitRollsBack \/ UserTurnFails \/ FinalizeFails \/ SaveFails
    \/ CommitSaved \/ CommitRecorded \/ UserTurnSaved \/ SaveSucceeds
    \/ Reply

Next == CommitArrives \/ OtherArrives \/ Persist \/ HandlerEnds \/ Open \/ Crash

Spec == Init /\ [][Next]_vars

-----------------------------------------------------------------------------
(* Properties *)

\* Every variable keeps the shape the code gives it.
TypeOK ==
    /\ live \in Sessions \cup {NoSession}
    /\ rounds \in [Rounds -> RoundStates]
    /\ dedup \in [Requests -> Answers]
    /\ disk \in [state : {"absent", "whole", "torn"}, session : Sessions]
    /\ call \in HandlerCalls
    /\ undo \in [live : Sessions \cup {NoSession}, rounds : [Rounds -> RoundStates],
                 dedup : [Requests -> Answers]]
    /\ acked \subseteq [req : Requests, id : 0..MaxIds, turn : Nat]
    /\ finalized \subseteq 0..MaxIds
    /\ promoted \subseteq Ids
    /\ minted \in 0..MaxIds

\* picked holds the entries at these positions of seq, in their order, and no others.
Picks(seq, positions, picked) ==
    /\ Len(picked) = Cardinality(positions)
    /\ \A i \in positions : picked[Cardinality(positions \cap 1..i)] = seq[i]

PositionsOf(s, kinds) == {i \in 1..Len(s.history) : s.history[i].kind \in kinds}

CoupledSession(s) ==
    /\ s.count = Len(s.ids) /\ s.count = TurnCounter(s)
    /\ Picks(s.history, PositionsOf(s, {"committed_turn"}),
             [i \in 1..s.count |-> Entry("committed_turn", s.ids[i])])
    /\ Picks(s.history, PositionsOf(s, {"user", "committed_turn"}), s.memory)
    /\ \A i \in 1..s.count : s.index[s.turns[i]] = [id |-> s.ids[i], turn |-> i]
    /\ \A r \in Requests : s.index[r] = NoAnswer \/ r \in ToSet(s.turns)
    /\ \A i \in 1..Len(s.history) : s.history[i].kind = "presentation" =>
          \E j \in 1..(i - 1) : s.history[j] = Entry("committed_turn", s.history[i].ref)
    /\ ToSet(s.audit) \cup {s.overlay.from} \subseteq ToSet(s.ids) \cup {0}

\* One commit writes the continuity turn, the commit ids and their count, the
\* dedup index, the history and the character memory (execute_commit_move,
\* phases C-D).  In the cache and in the file, at every instant, the six tell
\* the same story, and presentations, audits and the overlay only speak of
\* moves that story contains: a rollback or a restart that misses one of them
\* pulls them apart.
Coupled ==
    /\ live # NoSession => CoupledSession(live)
    /\ disk.state = "whole" => CoupledSession(disk.session)

AnchoredSession(s) ==
    /\ \A i \in 1..Len(s.turns) : Expected[s.turns[i]] = i - 1
    /\ \A i, j \in 1..Len(s.turns) : s.turns[i] = s.turns[j] => i = j

\* A move takes effect only at the continuity turn it was computed for, and a
\* request never takes effect twice, whatever retries, failures and restarts
\* come between (the anchor check and the dedup lookup of phase A).
AnchoredOnce ==
    /\ live # NoSession => AnchoredSession(live)
    /\ disk.state = "whole" => AnchoredSession(disk.session)

\* Two commit answers never claim the same continuity turn or the same request
\* with different commits: a client that retries after a lost answer, a rollback
\* or a restart gets the answer the others got.
AgreedAnswers ==
    \A a, b \in acked : a.turn = b.turn \/ a.req = b.req \/ a.id = b.id => a = b

Durable(a) ==
    /\ disk.state = "whole"
    /\ a.turn \in 1..Len(disk.session.turns)
    /\ disk.session.turns[a.turn] = a.req
    /\ disk.session.ids[a.turn] = a.id
    /\ disk.session.index[a.req] = [id |-> a.id, turn |-> a.turn]

\* What a client was told is committed is in the session file from then on,
\* with what a retry after a restart is answered from: a crash at any later
\* instant, or a failed save of any handler, cannot lose it.
CommitsAreDurable == \A a \in acked : Durable(a)

\* A commit the client was told is finalized (now, or by an earlier call) has its
\* terminal audit in the session file: a failed finalization leaves nothing in
\* memory that a retry would take for the decision.
DecisionsAreDurable ==
    finalized # {} => disk.state = "whole" /\ finalized \subseteq ToSet(disk.session.audit)

\* Knowledge promotion never runs ahead of the session file: a world fact in a
\* cross-session store comes from a move that a restart will still know.
PromotedIsDurable ==
    promoted # {} => disk.state = "whole" /\ promoted \subseteq ToSet(disk.session.ids)

\* The librarian decides at most once for a commit, in memory and in the file,
\* however often finalization is retried after errors and restarts.
AuditedOnce ==
    /\ live # NoSession => IsInjective(live.audit)
    /\ disk.state = "whole" => IsInjective(disk.session.audit)

\* Between calls, an advisory package the director would be shown was bound
\* after the last move of its round, and a round only holds moves the session
\* holds: failed commits leave neither a stale package nor a phantom turn.
RoundsFresh ==
    call = Idle => \A k \in Rounds : rounds[k].state = "open" =>
        /\ rounds[k].package \in {-1, Len(rounds[k].turns)}
        /\ rounds[k].epoch = Len(rounds[k].turns)
        /\ live # NoSession /\ ToSet(rounds[k].turns) \subseteq ToSet(live.ids)

FailureEnds == call.step = "failed" /\ call'.step = "answer"

\* A commit or a finalization whose save failed leaves the session, the rounds
\* (their advisory packages included) and the dedup map exactly as it found
\* them, but for the manager field from_dict does not restore; so does a player
\* turn, whose own undo code is separate.
FailureRestores ==
    [][FailureEnds /\ call.op \in {"commit", "finalize", "user"} =>
          /\ Saved(live') = Saved(undo.live)
          /\ rounds' = undo.rounds /\ dedup' = undo.dedup]_vars

-----------------------------------------------------------------------------
(* The host implements the commit ledger *)

Unsaved == call.op = "commit" /\ call.step \in {"write", "index", "failed"}

Authority ==
    IF live = NoSession THEN disk.session
    ELSE IF Unsaved THEN undo.live ELSE live

Ledger == INSTANCE CommitLedger WITH
    ledger <- [i \in 1..Len(Authority.turns) |->
                  [req |-> Authority.turns[i], id |-> Authority.ids[i]]]

\* Behind the rounds, caches, retries, failures and restarts there is one ledger
\* of moves that only grows, and answers only ever report it (CommitLedger).
ImplementsLedger == Ledger!LedgerSpec
============================================================================

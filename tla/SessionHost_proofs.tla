------------------------- MODULE SessionHost_proofs -------------------------
(***************************************************************************)
(* What the session host promises, proved for every set of requests,       *)
(* rounds, handlers and faults, and every bound: its types; moves that     *)
(* happen once where they were computed for, and stay; a handler whose     *)
(* save failed takes back what it did; answers, decisions and rounds never *)
(* claim more than the session holds; and the host implements the commit   *)
(* ledger.                                                                 *)
(***************************************************************************)
EXTENDS SessionHost, SequenceTheorems, FiniteSetTheorems, TLAPS

-----------------------------------------------------------------------------
(* What the operators on sessions and rounds return *)

\* An entry of a known kind for a known commit is an entry.
LEMMA EntryType ==
    ASSUME NEW kind \in Kinds, NEW ref \in 0..MaxIds
    PROVE  Entry(kind, ref) \in Entries
BY DEF Entry, Entries

\* What audit_log.pop() or rp_history.pop() leaves is a list of the same kind.
LEMMA FrontType ==
    ASSUME NEW S, NEW s \in Seq(S)
    PROVE  Front(s) \in Seq(S)
<1>1. CASE Len(s) = 0
  BY <1>1 DEF Front
<1>2. CASE Len(s) > 0
  BY <1>2, SubSeqProperties DEF Front
<1>3. QED
  BY <1>1, <1>2

\* A created session is a session.
LEMMA FreshType == Fresh \in Sessions
BY BoundsAssumption DEF Fresh, Sessions, NoAnswer, Answers, NoOverlay

\* Phases C and D of a commit keep the shape of the session.
LEMMA MoveAppliedType ==
    ASSUME NEW s \in Sessions, NEW r \in Requests, NEW id \in Ids
    PROVE  /\ MoveApplied(s, r, id) \in Sessions
           /\ MoveApplied(s, r, id).index \in [Requests -> Answers]
<1> DEFINE e == Entry("committed_turn", id)
           a == [id |-> id, turn |-> TurnCounter(s) + 1]
<1>1. id \in 0..MaxIds /\ e \in Entries
  BY EntryType, BoundsAssumption DEF Ids, Kinds
<1>2. a \in Answers
  BY <1>1 DEF TurnCounter, Answers, Sessions
<1>3. /\ Append(s.turns, r) \in Seq(Requests)
      /\ Append(s.ids, id) \in Seq(Ids)
      /\ Append(s.history, e) \in Seq(Entries)
      /\ Append(s.memory, e) \in Seq(Entries)
      /\ s.count + 1 \in Nat
  BY <1>1, AppendProperties DEF Sessions
<1>4. [s.index EXCEPT ![r] = a] \in [Requests -> Answers]
  BY <1>2 DEF Sessions
<1> HIDE DEF e, a
<1>5. [s EXCEPT !.turns = Append(@, r),
                !.memory = Append(@, e),
                !.count = @ + 1,
                !.ids = Append(@, id),
                !.history = Append(@, e),
                !.index = [@ EXCEPT ![r] = a]] \in Sessions
  BY <1>3, <1>4 DEF Sessions
<1>6. MoveApplied(s, r, id) \in Sessions
  BY <1>5 DEF MoveApplied, e, a
<1>7. QED
  BY <1>6 DEF Sessions

\* A player turn keeps the shape of the session.
LEMMA UserTurnAppliedType ==
    ASSUME NEW s \in Sessions
    PROVE  UserTurnApplied(s) \in Sessions
<1> DEFINE e == Entry("user", 0)
<1>1. e \in Entries
  BY EntryType, BoundsAssumption DEF Kinds
<1>2. Append(s.history, e) \in Seq(Entries) /\ Append(s.memory, e) \in Seq(Entries)
  BY <1>1, AppendProperties DEF Sessions
<1>3. QED
  BY <1>2 DEF UserTurnApplied, Sessions

\* append_history_entry keeps the shape of the session.
LEMMA EntryAppendedType ==
    ASSUME NEW s \in Sessions, NEW kind \in Kinds, NEW ref \in 0..MaxIds
    PROVE  EntryAppended(s, kind, ref) \in Sessions
<1>1. Append(s.history, Entry(kind, ref)) \in Seq(Entries)
  BY EntryType, AppendProperties DEF Sessions
<1>2. QED
  BY <1>1 DEF EntryAppended, Sessions

\* finalize_proposals keeps the shape of the session.
LEMMA ProposalsFinalizedType ==
    ASSUME NEW s \in Sessions, NEW id \in 0..MaxIds, NEW applied \in BOOLEAN
    PROVE  ProposalsFinalized(s, id, applied) \in Sessions
<1> DEFINE o == IF applied THEN OverlayApplied(s, id) ELSE s.overlay
<1>1. o \in [from : 0..MaxIds, at : Int]
  BY DEF OverlayApplied, Sessions
<1>2. Append(s.audit, id) \in Seq(0..MaxIds)
  BY AppendProperties DEF Sessions
<1> HIDE DEF o
<1>3. [s EXCEPT !.audit = Append(@, id), !.overlay = o] \in Sessions
  BY <1>1, <1>2 DEF Sessions
<1>4. QED
  BY <1>3 DEF ProposalsFinalized, o

\* The latest player post is an integer, whatever it is set to.
LEMMA LatestType ==
    ASSUME NEW s \in Sessions, NEW n \in Int
    PROVE  [s EXCEPT !.latest = n] \in Sessions
BY DEF Sessions

\* What is written to the file is a session.
LEMMA SavedType == ASSUME NEW s \in Sessions PROVE Saved(s) \in Sessions
<1>1. -1 \in Int
  OBVIOUS
<1>2. QED
  BY <1>1, LatestType DEF Saved

\* note_authoritative_player_contribution keeps the shape of the session.
LEMMA NotedType ==
    ASSUME NEW s \in Sessions, NEW seq \in Int
    PROVE  PlayerContributionNoted(s, seq) \in Sessions
<1>1. s.latest \in Int
  BY DEF Sessions
<1>2. (IF seq > s.latest THEN seq ELSE s.latest) \in Int
  BY <1>1
<1>3. QED
  BY <1>2, LatestType DEF PlayerContributionNoted

\* restore_manager keeps the shape of the session.
LEMMA ManagerRestoredType ==
    ASSUME NEW s \in Sessions, NEW u \in Sessions
    PROVE  ManagerRestored(s, u) \in Sessions
<1>1. -1 \in Int
  OBVIOUS
<1>2. u.turns \in Seq(Requests) /\ u.overlay \in [from : 0..MaxIds, at : Int]
  BY DEF Sessions
<1>3. \A n \in Int : [s EXCEPT !.turns = u.turns, !.overlay = u.overlay, !.latest = n] \in Sessions
  BY <1>2 DEF Sessions
<1>4. QED
  BY <1>1, <1>3 DEF ManagerRestored

\* Forgetting a dedup record keeps the shape of the map.
LEMMA DedupForgottenType ==
    ASSUME NEW d \in [Requests -> Answers], NEW r
    PROVE  DedupForgotten(d, r) \in [Requests -> Answers]
<1>1. NoAnswer \in Answers
  BY BoundsAssumption DEF NoAnswer, Answers
<1>2. QED
  BY <1>1 DEF DedupForgotten

\* _rollback_transaction keeps the shape of the session.
LEMMA CommitRolledBackType ==
    ASSUME NEW s \in Sessions, NEW u \in Sessions, NEW r
    PROVE  CommitRolledBack(s, u, r) \in Sessions
<1> DEFINE m == ManagerRestored(s, u)
<1>1. m \in Sessions
  BY ManagerRestoredType
<1>2. m.index \in [Requests -> Answers]
  BY <1>1 DEF Sessions
<1>3. DedupForgotten(m.index, r) \in [Requests -> Answers]
  BY <1>2, DedupForgottenType
<1>4. /\ u.memory \in Seq(Entries) /\ u.history \in Seq(Entries)
      /\ u.count \in Nat /\ u.ids \in Seq(Ids)
  BY DEF Sessions
<1> HIDE DEF m
<1>5. [m EXCEPT !.memory = u.memory, !.count = u.count, !.ids = u.ids,
                !.history = u.history, !.index = DedupForgotten(@, r)] \in Sessions
  BY <1>1, <1>3, <1>4 DEF Sessions
<1>6. QED
  BY <1>5 DEF CommitRolledBack, m

\* The undo of a player turn keeps the shape of the session.
LEMMA UserTurnUndoneType ==
    ASSUME NEW s \in Sessions, NEW u \in Sessions
    PROVE  UserTurnUndone(s, u) \in Sessions
<1>1. Front(s.history) \in Seq(Entries) /\ u.memory \in Seq(Entries)
  BY FrontType DEF Sessions
<1>2. QED
  BY <1>1 DEF UserTurnUndone, Sessions

\* The undo of a finalization keeps the shape of the session.
LEMMA ProposalsUndoneType ==
    ASSUME NEW s \in Sessions, NEW u \in Sessions
    PROVE  ProposalsUndone(s, u) \in Sessions
<1> DEFINE m == ManagerRestored(s, u)
<1>1. m \in Sessions
  BY ManagerRestoredType
<1>2. Front(m.audit) \in Seq(0..MaxIds)
  BY <1>1, FrontType DEF Sessions
<1> HIDE DEF m
<1>3. [m EXCEPT !.audit = Front(@)] \in Sessions
  BY <1>1, <1>2 DEF Sessions
<1>4. QED
  BY <1>3 DEF ProposalsUndone, m

-----------------------------------------------------------------------------
(* Type correctness *)

\* What a handler in flight may rely on: a commit names its request and round,
\* only a commit is recorded or answered "committed", and the session, and what
\* the handler found of it, are there.
CallOK ==
    /\ call.op = "commit" => call.req \in Requests /\ call.round \in Rounds
    /\ call.step = "record" \/ call.outcome = "committed" => call.op = "commit"
    /\ call.step # "idle" => live \in Sessions
    /\ call.step # "idle" /\ call.op # "create" => undo.live \in Sessions

TypeInv == TypeOK /\ CallOK

\* No handler in flight is a state of the handlers in flight.
LEMMA IdleType == Idle \in HandlerCalls /\ Idle.step = "idle" /\ Idle.op = "none" /\ Idle.outcome = "none"
BY BoundsAssumption DEF Idle, HandlerCalls, Handlers, Steps, Outcomes

\* An empty set of snapshots has the shape of one.
LEMMA NothingType ==
    /\ UnusedRound \in RoundStates
    /\ NoAnswer \in Answers
    /\ NothingToUndo \in [live : Sessions \cup {NoSession}, rounds : [Rounds -> RoundStates],
                          dedup : [Requests -> Answers]]
<1>1. -1 \in Nat \cup {-1}
  OBVIOUS
<1>2. UnusedRound \in RoundStates
  BY <1>1 DEF UnusedRound, RoundStates
<1>3. NoAnswer \in Answers
  BY BoundsAssumption DEF NoAnswer, Answers
<1>4. QED
  BY <1>2, <1>3 DEF NothingToUndo

\* The host starts in a well-formed state.
LEMMA InitType == Init => TypeInv
<1>1. SUFFICES ASSUME Init PROVE TypeInv
  OBVIOUS
<1>2. disk \in [state : {"absent", "whole", "torn"}, session : Sessions]
  BY <1>1, FreshType DEF Init, Absent
<1>3. minted \in 0..MaxIds
  BY <1>1, BoundsAssumption DEF Init
<1>4. TypeOK
  BY <1>1, <1>2, <1>3, IdleType, NothingType DEF Init, TypeOK
<1>5. CallOK
  BY <1>1, IdleType DEF Init, CallOK
<1>6. QED
  BY <1>4, <1>5 DEF TypeInv

\* A handler that starts well typed keeps the invariant of the variables it sets.
LEMMA BeginType ==
    ASSUME TypeInv, NEW c \in HandlerCalls, NEW s \in Sessions, Begin(c, s),
           c.op = "commit" => c.req \in Requests /\ c.round \in Rounds,
           c.step = "record" \/ c.outcome = "committed" => c.op = "commit",
           c.op = "create" \/ live # NoSession
    PROVE  /\ live' \in Sessions
           /\ call' \in HandlerCalls
           /\ undo' \in [live : Sessions \cup {NoSession}, rounds : [Rounds -> RoundStates],
                         dedup : [Requests -> Answers]]
           /\ CallOK'
BY DEF TypeInv, TypeOK, Begin, CallOK

\* The handlers that arrive at their save or at their answer are well-formed.
LEMMA CallTypes ==
    /\ \A op \in Handlers : /\ Writing(op) \in HandlerCalls
                            /\ Writing(op).op = op
                            /\ Writing(op).step = "write"
                            /\ Writing(op).outcome = "none"
    /\ \A op \in Handlers, outcome \in Outcomes :
          /\ Answering(op, outcome) \in HandlerCalls
          /\ Answering(op, outcome).op = op
          /\ Answering(op, outcome).step = "answer"
          /\ Answering(op, outcome).outcome = outcome
BY IdleType DEF Writing, Answering, HandlerCalls, Idle, Steps, Outcomes, Handlers

\* A call whose fields are filled in is a call, and the other fields stay.
LEMMA CallUpdates ==
    ASSUME NEW w \in HandlerCalls, NEW r \in Requests, NEW k \in Rounds,
           NEW n \in 0..MaxIds, NEW st \in Steps
    PROVE  /\ [w EXCEPT !.req = r, !.round = k] \in HandlerCalls
           /\ [w EXCEPT !.req = r, !.round = k, !.commit = n] \in HandlerCalls
           /\ [w EXCEPT !.step = st, !.req = r, !.round = k, !.commit = n] \in HandlerCalls
           /\ [w EXCEPT !.commit = n] \in HandlerCalls
           /\ \A b \in BOOLEAN : [w EXCEPT !.commit = n, !.applied = b] \in HandlerCalls
           /\ \A o \in Outcomes : [w EXCEPT !.step = st, !.outcome = o] \in HandlerCalls
           /\ [w EXCEPT !.step = st] \in HandlerCalls
BY DEF HandlerCalls

\* The arrival of a commit keeps the type invariant.
LEMMA CommitArrivesType ==
    ASSUME TypeInv, NEW r \in Requests, NEW k \in Rounds,
           \/ CommitUnknownRound(r, k) \/ CommitReplayed(r, k)
           \/ CommitMismatched(r, k) \/ CommitRefused(r, k) \/ CommitApplied(r, k)
    PROVE  TypeInv'
<1> USE DEF TypeInv
<1>1. "commit" \in Handlers
  BY DEF Handlers
<1>2. ASSUME NEW outcome \in {"unknown_round", "rejected", "error"}, live # NoSession,
             Begin([Answering("commit", outcome) EXCEPT !.req = r, !.round = k], live),
             UNCHANGED <<rounds, dedup, disk, clientVars, promoted, minted>>
      PROVE  TypeInv'
  <2> DEFINE c == [Answering("commit", outcome) EXCEPT !.req = r, !.round = k]
  <2>0. outcome \in Outcomes /\ Answering("commit", outcome) \in HandlerCalls
    BY <1>1, CallTypes DEF Outcomes
  <2>1. /\ c \in HandlerCalls /\ c.op = "commit" /\ c.req = r /\ c.round = k
        /\ c.step = "answer" /\ c.outcome = outcome
    <3>1. 0 \in 0..MaxIds /\ "idle" \in Steps
      BY BoundsAssumption DEF Steps
    <3>2. c \in HandlerCalls
      BY <2>0, <3>1, CallUpdates
    <3>3. QED
      BY <1>1, <2>0, <3>2, CallTypes DEF HandlerCalls
  <2>2. live \in Sessions
    BY <1>2 DEF TypeOK
  <2> HIDE DEF c
  <2>3. Begin(c, live)
    BY <1>2 DEF c
  <2>4. QED
    BY <1>2, <2>1, <2>2, <2>3, BeginType DEF TypeOK, clientVars
<1>3. CASE CommitUnknownRound(r, k)
  BY <1>2, <1>3 DEF CommitUnknownRound, Ready
<1>4. CASE CommitMismatched(r, k)
  BY <1>2, <1>4 DEF CommitMismatched, Ready
<1>5. CASE CommitRefused(r, k)
  <2>1. PICK outcome \in {"rejected", "error"} :
           Begin([Answering("commit", outcome) EXCEPT !.req = r, !.round = k], live)
    BY <1>5 DEF CommitRefused
  <2>2. QED
    BY <1>2, <1>5, <2>1 DEF CommitRefused, Ready
<1>6. CASE CommitReplayed(r, k)
  <2> DEFINE c == [Writing("commit") EXCEPT !.step = "record", !.req = r, !.round = k,
                                            !.commit = dedup[r].id]
  <2>1. dedup[r].id \in 0..MaxIds
    BY DEF TypeOK, Answers
  <2>2. c \in HandlerCalls /\ c.op = "commit" /\ c.req = r /\ c.round = k
    <3>1. Writing("commit") \in HandlerCalls /\ Writing("commit").op = "commit" /\ "record" \in Steps
      BY <1>1, CallTypes DEF Steps
    <3>2. c \in HandlerCalls
      BY <2>1, <3>1, CallUpdates
    <3>3. QED
      BY <3>1, <3>2 DEF HandlerCalls
  <2>3. live \in Sessions /\ live # NoSession
    BY <1>6 DEF CommitReplayed, Ready, TypeOK
  <2> HIDE DEF c
  <2>4. Begin(c, live)
    BY <1>6 DEF CommitReplayed, c
  <2>5. QED
    BY <1>6, <2>2, <2>3, <2>4, BeginType DEF TypeOK, clientVars, CommitReplayed
<1>7. CASE CommitApplied(r, k)
  <2> DEFINE c == [Writing("commit") EXCEPT !.req = r, !.round = k, !.commit = minted']
             s == MoveApplied(live, r, minted')
  <2>1. minted' \in Ids /\ minted' \in 0..MaxIds
    BY <1>7, BoundsAssumption DEF CommitApplied, TypeOK, Ids
  <2>2. c \in HandlerCalls /\ c.op = "commit" /\ c.req = r /\ c.round = k
        /\ c.step = "write" /\ c.outcome = "none"
    <3>1. /\ Writing("commit") \in HandlerCalls /\ Writing("commit").op = "commit"
          /\ Writing("commit").step = "write" /\ Writing("commit").outcome = "none"
      BY <1>1, CallTypes
    <3>2. c \in HandlerCalls
      BY <2>1, <3>1, CallUpdates DEF Steps
    <3>3. QED
      BY <3>1, <3>2 DEF HandlerCalls
  <2>3. live \in Sessions /\ live # NoSession
    BY <1>7 DEF CommitApplied, Ready, TypeOK
  <2>4. s \in Sessions /\ s.index \in [Requests -> Answers]
    BY <2>1, <2>3, MoveAppliedType
  <2>5. RoundMoved(rounds[k], minted') \in RoundStates
    <3>1. rounds[k] \in RoundStates
      BY DEF TypeOK
    <3>2. Append(rounds[k].turns, minted') \in Seq(Ids) /\ rounds[k].epoch + 1 \in Nat
      BY <2>1, <3>1, AppendProperties DEF RoundStates
    <3>3. QED
      BY <3>1, <3>2 DEF RoundMoved, RoundStates
  <2> HIDE DEF c, s
  <2>6. Begin(c, s)
    BY <1>7 DEF CommitApplied, c, s
  <2>7. rounds' \in [Rounds -> RoundStates]
    BY <1>7, <2>5 DEF CommitApplied, TypeOK
  <2>8. dedup' \in [Requests -> Answers]
    BY <1>7, <2>4 DEF CommitApplied, TypeOK, s
  <2>9. QED
    BY <1>7, <2>1, <2>2, <2>3, <2>4, <2>6, <2>7, <2>8, BeginType
       DEF TypeOK, clientVars, CommitApplied
<1>8. QED
  BY <1>3, <1>4, <1>5, <1>6, <1>7

\* A handler that saves, with no argument but a commit id.
LEMMA WritingType ==
    ASSUME TypeInv, NEW op \in Handlers \ {"commit"}, NEW s \in Sessions,
           op = "create" \/ live # NoSession,
           NEW n \in 0..MaxIds, NEW b \in BOOLEAN,
           \/ Begin(Writing(op), s)
           \/ Begin([Writing(op) EXCEPT !.commit = n], s)
           \/ Begin([Writing(op) EXCEPT !.commit = n, !.applied = b], s),
           UNCHANGED <<rounds, dedup, disk, clientVars, promoted, minted>>
    PROVE  TypeInv'
<1>1. PICK c : /\ c \in {Writing(op), [Writing(op) EXCEPT !.commit = n],
                         [Writing(op) EXCEPT !.commit = n, !.applied = b]}
               /\ Begin(c, s)
  OBVIOUS
<1>2. /\ Writing(op) \in HandlerCalls /\ Writing(op).op = op
      /\ Writing(op).step = "write" /\ Writing(op).outcome = "none"
  BY CallTypes
<1>3. c \in HandlerCalls /\ c.op = op /\ c.step = "write" /\ c.outcome = "none"
  <2>1. /\ [Writing(op) EXCEPT !.commit = n] \in HandlerCalls
        /\ [Writing(op) EXCEPT !.commit = n, !.applied = b] \in HandlerCalls
    BY <1>2 DEF HandlerCalls
  <2>2. QED
    BY <1>1, <1>2, <2>1 DEF HandlerCalls
<1>4. QED
  BY <1>1, <1>3, BeginType DEF TypeInv, TypeOK, clientVars

\* A handler that answers at once.
LEMMA AnsweringType ==
    ASSUME TypeInv, NEW op \in Handlers \ {"commit"}, NEW outcome \in Outcomes \ {"committed"},
           live # NoSession, NEW n \in 0..MaxIds,
           \/ Begin(Answering(op, outcome), live)
           \/ Begin([Answering(op, outcome) EXCEPT !.commit = n], live),
           UNCHANGED <<rounds, dedup, disk, clientVars, promoted, minted>>
    PROVE  TypeInv'
<1>1. PICK c : /\ c \in {Answering(op, outcome), [Answering(op, outcome) EXCEPT !.commit = n]}
               /\ Begin(c, live)
  OBVIOUS
<1>2. /\ Answering(op, outcome) \in HandlerCalls /\ Answering(op, outcome).op = op
      /\ Answering(op, outcome).step = "answer" /\ Answering(op, outcome).outcome = outcome
  BY CallTypes
<1>3. c \in HandlerCalls /\ c.op = op /\ c.step = "answer" /\ c.outcome = outcome
  BY <1>1, <1>2 DEF HandlerCalls
<1>4. live \in Sessions
  BY DEF TypeInv, TypeOK
<1>5. QED
  BY <1>1, <1>3, <1>4, BeginType DEF TypeInv, TypeOK, clientVars

\* The arrival of any other handler keeps the type invariant.
LEMMA OtherArrivesType == ASSUME TypeInv, OtherArrives PROVE TypeInv'
<1>1. /\ Handlers \ {"commit"} = {"create", "user", "skip", "presentation", "opening",
                                  "finalize", "provenance"}
      /\ {"ok", "already_terminal"} \subseteq Outcomes \ {"committed"}
      /\ 0 \in 0..MaxIds /\ TRUE \in BOOLEAN
  BY BoundsAssumption DEF Handlers, Outcomes
<1>2. live # NoSession => live \in Sessions
  BY DEF TypeInv, TypeOK
<1>3. ToldIds \subseteq 0..MaxIds
  BY DEF TypeInv, TypeOK, ToldIds
<1>4. CASE Create
  BY <1>1, <1>4, FreshType, WritingType DEF Create
<1>5. CASE UserTurn
  BY <1>1, <1>2, <1>5, UserTurnAppliedType, WritingType DEF UserTurn, Ready
<1>6. CASE PlayerSkip
  <2>1. live # NoSession /\ EntryAppended(live, "player_skip", 0) \in Sessions
    BY <1>1, <1>2, <1>6, EntryAppendedType DEF PlayerSkip, Ready, Kinds
  <2>2. QED
    BY <1>1, <1>6, <2>1, WritingType DEF PlayerSkip
<1>7. CASE RecordPresentation
  <2>1. PICK id \in ToldIds : Begin([Writing("presentation") EXCEPT !.commit = id],
                                    EntryAppended(live, "presentation", id))
    BY <1>7 DEF RecordPresentation
  <2>2. id \in 0..MaxIds
    BY <1>3, <2>1
  <2>3. live # NoSession /\ EntryAppended(live, "presentation", id) \in Sessions
    BY <1>2, <1>7, <2>2, EntryAppendedType DEF RecordPresentation, Ready, Kinds
  <2>4. QED
    BY <1>1, <1>7, <2>1, <2>2, <2>3, WritingType DEF RecordPresentation
<1>8. CASE OpeningKept
  BY <1>1, <1>8, AnsweringType DEF OpeningKept, Ready
<1>9. CASE OpeningRecorded
  <2>1. live # NoSession /\ EntryAppended(live, "opening", 0) \in Sessions
    BY <1>1, <1>2, <1>9, EntryAppendedType DEF OpeningRecorded, Ready, Kinds
  <2>2. QED
    BY <1>1, <1>9, <2>1, WritingType DEF OpeningRecorded
<1>10. CASE AttachOpeningVisibility
  BY <1>1, <1>2, <1>10, WritingType DEF AttachOpeningVisibility, Ready
<1>11. CASE UpdateProvenance
  BY <1>1, <1>2, <1>11, WritingType DEF UpdateProvenance, Ready
<1>12. CASE FinalizeAgain
  <2>1. PICK id \in ToldIds :
           Begin([Answering("finalize", "already_terminal") EXCEPT !.commit = id], live)
    BY <1>12 DEF FinalizeAgain
  <2>2. QED
    BY <1>1, <1>3, <1>12, <2>1, AnsweringType DEF FinalizeAgain, Ready
<1>13. CASE FinalizeProposals
  <2>1. PICK id \in ToldIds, applied \in BOOLEAN :
           Begin([Writing("finalize") EXCEPT !.commit = id, !.applied = applied],
                 ProposalsFinalized(live, id, applied))
    BY <1>13 DEF FinalizeProposals
  <2>2. id \in 0..MaxIds
    BY <1>3, <2>1
  <2>3. live # NoSession /\ ProposalsFinalized(live, id, applied) \in Sessions
    BY <1>2, <1>13, <2>2, ProposalsFinalizedType DEF FinalizeProposals, Ready
  <2>4. QED
    BY <1>1, <1>13, <2>1, <2>2, <2>3, WritingType DEF FinalizeProposals
<1>14. ASSUME NEW k \in Rounds, StartRound(k) \/ BindPackage(k)
       PROVE  TypeInv'
  <2>1. rounds[k] \in RoundStates
    BY DEF TypeInv, TypeOK
  <2>2. [rounds[k] EXCEPT !.state = "open"] \in RoundStates
    BY <2>1 DEF RoundStates
  <2>3. [rounds[k] EXCEPT !.package = Len(rounds[k].turns)] \in RoundStates
    BY <2>1 DEF RoundStates
  <2>4. rounds' \in [Rounds -> RoundStates]
    BY <1>14, <2>2, <2>3 DEF StartRound, BindPackage, TypeInv, TypeOK
  <2>5. QED
    BY <1>14, <2>4 DEF StartRound, BindPackage, TypeInv, TypeOK, CallOK, clientVars
<1>15. QED
  BY <1>4, <1>5, <1>6, <1>7, <1>8, <1>9, <1>10, <1>11, <1>12, <1>13, <1>14
     DEF OtherArrives

\* A step of a handler in flight: the call stays the call, at another point.
LEMMA StepType ==
    ASSUME TypeInv, call.step # "idle", NEW st \in Steps, NEW o \in Outcomes,
           \/ call' = [call EXCEPT !.step = st]
           \/ call' = [call EXCEPT !.step = st, !.outcome = o],
           st = "record" => call.op = "commit",
           o = "committed" => call.op = "commit",
           live' \in Sessions,
           UNCHANGED undo
    PROVE  /\ call' \in HandlerCalls
           /\ CallOK'
<1>1. call \in HandlerCalls
  BY DEF TypeInv, TypeOK
<1>2. call' \in HandlerCalls /\ call'.op = call.op /\ call'.req = call.req
      /\ call'.round = call.round /\ call'.step = st
      /\ call'.outcome \in {call.outcome, o}
  BY <1>1 DEF HandlerCalls
<1>3. QED
  BY <1>2 DEF TypeInv, CallOK

\* Every outcome of repository.persist keeps the type invariant.
LEMMA PersistType == ASSUME TypeInv, Persist PROVE TypeInv'
<1>1. {"index", "saved", "failed"} \subseteq Steps /\ "none" \in Outcomes
  BY DEF Steps, Outcomes
<1>2. call.step # "idle" /\ live \in Sessions
  BY DEF Persist, WriteSession, WriteFails, IndexWritten, IndexFails,
         TypeInv, CallOK
<1>3. UNCHANGED <<hostVars, undo, clientVars, promoted, minted>>
  BY DEF Persist, WriteSession, WriteFails, IndexWritten, IndexFails
<1>4. PICK st \in {"index", "saved", "failed"} : call' = [call EXCEPT !.step = st]
  BY DEF Persist, WriteSession, WriteFails, IndexWritten, IndexFails, Step
<1>5. call' \in HandlerCalls /\ CallOK'
  BY <1>1, <1>2, <1>3, <1>4, StepType DEF hostVars
<1>6. disk' \in [state : {"absent", "whole", "torn"}, session : Sessions]
  BY <1>2, SavedType, FreshType
     DEF Persist, WriteSession, WriteFails, AfterFailedWrite, Torn, IndexWritten, IndexFails,
         TypeInv, TypeOK
<1>7. QED
  BY <1>3, <1>5, <1>6 DEF TypeInv, TypeOK, hostVars, clientVars

\* What a handler does after its save, failed or not, keeps the type invariant.
LEMMA HandlerEndsType == ASSUME TypeInv, HandlerEnds PROVE TypeInv'
<1> USE DEF TypeInv
<1>1. {"answer", "record"} \subseteq Steps /\ {"rejected", "error", "ok", "committed"} \subseteq Outcomes
  BY DEF Steps, Outcomes
<1>2. CASE CommitRollsBack
  <2>1. live \in Sessions /\ undo.live \in Sessions /\ call.step # "idle" /\ call.round \in Rounds
    BY <1>2 DEF CommitRollsBack, CallOK
  <2>2. live' \in Sessions
    BY <1>2, <2>1, CommitRolledBackType DEF CommitRollsBack
  <2>3. rounds' \in [Rounds -> RoundStates]
    <3>1. rounds[call.round] \in RoundStates /\ undo.rounds[call.round] \in RoundStates
      BY <2>1 DEF TypeOK
    <3>2. RoundRestored(rounds[call.round], undo.rounds[call.round]) \in RoundStates
      BY <3>1 DEF RoundRestored, RoundStates
    <3>3. QED
      BY <1>2, <3>2 DEF CommitRollsBack, TypeOK
  <2>4. dedup' \in [Requests -> Answers]
    BY <1>2, DedupForgottenType DEF CommitRollsBack, TypeOK
  <2>5. call' \in HandlerCalls /\ CallOK'
    BY <1>1, <1>2, <2>1, <2>2, StepType DEF CommitRollsBack, Answer
  <2>6. QED
    BY <1>2, <2>2, <2>3, <2>4, <2>5 DEF CommitRollsBack, TypeOK, clientVars
<1>3. CASE UserTurnFails
  <2>1. live \in Sessions /\ undo.live \in Sessions /\ call.step # "idle"
    BY <1>3 DEF UserTurnFails, CallOK
  <2>2. live' \in Sessions
    BY <1>3, <2>1, UserTurnUndoneType DEF UserTurnFails
  <2>3. call' \in HandlerCalls /\ CallOK'
    BY <1>1, <1>3, <2>1, <2>2, StepType DEF UserTurnFails, Answer
  <2>4. QED
    BY <1>3, <2>2, <2>3 DEF UserTurnFails, TypeOK, clientVars
<1>4. CASE FinalizeFails
  <2>1. live \in Sessions /\ undo.live \in Sessions /\ call.step # "idle"
    BY <1>4 DEF FinalizeFails, CallOK
  <2>2. live' \in Sessions
    BY <1>4, <2>1, ProposalsUndoneType DEF FinalizeFails
  <2>3. call' \in HandlerCalls /\ CallOK'
    BY <1>1, <1>4, <2>1, <2>2, StepType DEF FinalizeFails, Answer
  <2>4. QED
    BY <1>4, <2>2, <2>3 DEF FinalizeFails, TypeOK, clientVars
<1>5. CASE SaveFails \/ SaveSucceeds
  <2>1. live \in Sessions /\ call.step # "idle" /\ UNCHANGED <<hostVars, disk, undo>>
    BY <1>5 DEF SaveFails, SaveSucceeds, CallOK
  <2>2. call' \in HandlerCalls /\ CallOK'
    BY <1>1, <1>5, <2>1, StepType DEF SaveFails, SaveSucceeds, Answer, hostVars
  <2>3. QED
    BY <1>5, <2>1, <2>2 DEF SaveFails, SaveSucceeds, TypeOK, hostVars, clientVars
<1>6. CASE CommitSaved
  <2>1. live \in Sessions /\ call.step # "idle" /\ call.op = "commit" /\ call.round \in Rounds
    BY <1>6 DEF CommitSaved, PhaseF, CallOK
  <2>2. rounds' \in [Rounds -> RoundStates]
    <3>1. -1 \in Nat \cup {-1}
      OBVIOUS
    <3>2. rounds[call.round] \in RoundStates
      BY <2>1 DEF TypeOK
    <3>3. PackageInvalidated(rounds[call.round]) \in RoundStates
      BY <3>1, <3>2 DEF PackageInvalidated, RoundStates
    <3>4. QED
      BY <1>6, <3>3 DEF CommitSaved, TypeOK
  <2>3. promoted' \subseteq Ids
    <3>1. ToSet(live.ids) \subseteq Ids
      BY <2>1 DEF ToSet, Sessions
    <3>2. QED
      BY <1>6, <3>1 DEF CommitSaved, TypeOK
  <2>4. call' \in HandlerCalls /\ CallOK'
    BY <1>1, <1>6, <2>1, StepType DEF CommitSaved, Step, Answer
  <2>5. QED
    BY <1>6, <2>2, <2>3, <2>4 DEF CommitSaved, TypeOK, clientVars
<1>7. CASE CommitRecorded
  <2>1. live \in Sessions /\ call.step # "idle" /\ call.op = "commit"
    BY <1>7 DEF CommitRecorded, CallOK
  <2>2. call' \in HandlerCalls /\ CallOK'
    BY <1>1, <1>7, <2>1, StepType DEF CommitRecorded, Answer, hostVars
  <2>3. QED
    BY <1>7, <2>2 DEF CommitRecorded, TypeOK, hostVars, clientVars
<1>8. CASE UserTurnSaved
  <2>1. live \in Sessions /\ call.step # "idle"
    BY <1>8 DEF UserTurnSaved, CallOK
  <2>2. live' \in Sessions
    <3>1. Len(live.history) - 1 \in Int
      BY <2>1 DEF Sessions
    <3>2. QED
      BY <1>8, <2>1, <3>1, NotedType DEF UserTurnSaved
  <2>3. call' \in HandlerCalls /\ CallOK'
    BY <1>1, <1>8, <2>1, <2>2, StepType DEF UserTurnSaved, Answer
  <2>4. QED
    BY <1>8, <2>2, <2>3 DEF UserTurnSaved, TypeOK, clientVars
<1>9. CASE Reply
  <2>1. acked' \subseteq [req : Requests, id : 0..MaxIds, turn : Nat]
    <3>1. CASE call.outcome = "committed"
      <4>1. call.req \in Requests /\ dedup[call.req] \in Answers
        BY <3>1 DEF CallOK, TypeOK
      <4>2. QED
        BY <1>9, <3>1, <4>1 DEF Reply, TypeOK, Answers
    <3>2. CASE call.outcome # "committed"
      BY <1>9, <3>2 DEF Reply, TypeOK
    <3>3. QED
      BY <3>1, <3>2
  <2>2. finalized' \subseteq 0..MaxIds
    BY <1>9 DEF Reply, TypeOK, HandlerCalls
  <2>3. CallOK'
    BY <1>9, IdleType DEF Reply, CallOK
  <2>4. QED
    BY <1>9, <2>1, <2>2, <2>3, IdleType, NothingType DEF Reply, TypeOK, hostVars
<1>10. QED
  BY <1>2, <1>3, <1>4, <1>5, <1>6, <1>7, <1>8, <1>9 DEF HandlerEnds

\* Loading the session file keeps the type invariant.
LEMMA OpenType == ASSUME TypeInv, Open PROVE TypeInv'
<1>1. disk.session \in Sessions
  BY DEF TypeInv, TypeOK
<1>2. dedup' \in [Requests -> Answers]
  BY <1>1 DEF Open, DedupRestored, TypeInv, TypeOK, Sessions
<1>3. QED
  BY <1>1, <1>2, IdleType DEF Open, TypeInv, TypeOK, CallOK, clientVars

\* A crash of the host keeps the type invariant.
LEMMA CrashType == ASSUME TypeInv, Crash PROVE TypeInv'
<1>1. [UnusedRound EXCEPT !.state = "gone"] \in RoundStates
  BY NothingType DEF RoundStates
<1>2. rounds' \in [Rounds -> RoundStates]
  BY <1>1, NothingType DEF Crash
<1>3. QED
  BY <1>2, IdleType, NothingType DEF Crash, TypeInv, TypeOK, CallOK, clientVars

\* The type invariant depends on the variables only.
LEMMA StutterType == ASSUME TypeInv, UNCHANGED vars PROVE TypeInv'
BY DEF TypeInv, TypeOK, CallOK, vars

\* Every variable keeps its shape, and the handler in flight always finds what its
\* next step needs: a session, an open round, an entry to pop.
THEOREM TypeInvariant == Spec => []TypeInv
<1>1. TypeInv /\ [Next]_vars => TypeInv'
  <2>1. SUFFICES ASSUME TypeInv, [Next]_vars PROVE TypeInv'
    OBVIOUS
  <2>2. CASE CommitArrives
    BY <2>1, <2>2, CommitArrivesType DEF CommitArrives
  <2>3. QED
    BY <2>1, <2>2, OtherArrivesType, PersistType, HandlerEndsType, OpenType, CrashType,
       StutterType DEF Next
<1>2. QED
  BY <1>1, InitType, PTL DEF Spec

\* Every variable keeps its shape, whatever fails, crashes and is retried.
THEOREM TypeCorrect == Spec => []TypeOK
<1>1. TypeInv => TypeOK
  BY DEF TypeInv
<1>2. QED
  BY <1>1, TypeInvariant, PTL

-----------------------------------------------------------------------------
(* Every move takes effect at the turn it was computed for.  The file and the *)
(* state a rollback returns to are sessions the host may be left with, so the *)
(* invariant speaks of them as of the cached session.                         *)

Anchors(s) == \A i \in 1..Len(s.turns) : Expected[s.turns[i]] = i - 1

AnchorInv ==
    /\ live # NoSession => Anchors(live)
    /\ Anchors(disk.session)
    /\ undo.live # NoSession => Anchors(undo.live)

\* In an anchored session no request occurs twice: its position is its anchor.
LEMMA AnchorsAlone ==
    ASSUME NEW s \in Sessions, Anchors(s)
    PROVE  AnchoredSession(s)
<1>1. \A i \in 1..Len(s.turns) : Expected[s.turns[i]] = i - 1
  BY DEF Anchors
<1>2. ASSUME NEW i \in 1..Len(s.turns), NEW j \in 1..Len(s.turns), s.turns[i] = s.turns[j]
      PROVE  i = j
  <2>1. i - 1 = j - 1
    BY <1>1, <1>2
  <2>2. QED
    BY <2>1 DEF Sessions
<1>3. QED
  BY <1>1, <1>2 DEF AnchoredSession

\* Anchoring depends on the turns only.
LEMMA SameTurns ==
    ASSUME NEW s, NEW t, Anchors(s), t.turns = s.turns
    PROVE  Anchors(t)
BY DEF Anchors

\* The one place where a session gains a turn is guarded by the anchor check.
LEMMA AppliedAnchors ==
    ASSUME TypeInv, AnchorInv, NEW r \in Requests, NEW k \in Rounds, CommitApplied(r, k)
    PROVE  Anchors(live')
<1>1. live \in Sessions /\ Anchors(live) /\ Expected[r] = Len(live.turns)
  BY DEF CommitApplied, Ready, Anchored, TurnCounter, TypeInv, TypeOK, AnchorInv
<1>2. live.turns \in Seq(Requests)
  BY <1>1 DEF Sessions
<1>3. live'.turns = Append(live.turns, r)
  BY <1>1 DEF CommitApplied, Begin, MoveApplied, Sessions
<1>4. /\ Len(live'.turns) = Len(live.turns) + 1
      /\ \A i \in 1..Len(live.turns) : live'.turns[i] = live.turns[i]
      /\ live'.turns[Len(live.turns) + 1] = r
  BY <1>2, <1>3, AppendProperties
<1>5. SUFFICES ASSUME NEW i \in 1..Len(live'.turns) PROVE Expected[live'.turns[i]] = i - 1
  BY DEF Anchors
<1>6. CASE i = Len(live.turns) + 1
  BY <1>1, <1>4, <1>6, <1>2
<1>7. CASE i # Len(live.turns) + 1
  <2>1. i \in 1..Len(live.turns)
    BY <1>2, <1>4, <1>7
  <2>2. QED
    BY <1>1, <1>4, <2>1 DEF Anchors
<1>8. QED
  BY <1>6, <1>7

\* No other step gives the cached session turns that were nowhere before.
LEMMA OldTurns ==
    ASSUME TypeInv, Next, live' # NoSession,
           \A r \in Requests, k \in Rounds : ~CommitApplied(r, k)
    PROVE  \/ live # NoSession /\ live'.turns = live.turns
           \/ undo.live # NoSession /\ live'.turns = undo.live.turns
           \/ live'.turns = disk.session.turns
           \/ live'.turns = <<>>
<1>1. live \in Sessions \cup {NoSession} /\ undo.live \in Sessions \cup {NoSession}
  BY DEF TypeInv, TypeOK
<1>2. CASE UNCHANGED live
  BY <1>2
<1>3. CASE CommitArrives
  BY <1>3 DEF CommitArrives, CommitUnknownRound, CommitReplayed, CommitMismatched,
              CommitRefused, Begin, Ready
<1>4. CASE OtherArrives
  <2>1. CASE Create
    BY <2>1 DEF Create, Begin, Fresh
  <2>2. CASE UserTurn
    BY <1>1, <2>2 DEF UserTurn, Ready, Begin, UserTurnApplied, Sessions
  <2>3. CASE PlayerSkip \/ RecordPresentation \/ OpeningRecorded
    BY <1>1, <2>3 DEF PlayerSkip, RecordPresentation, OpeningRecorded, Ready, Begin,
                      EntryAppended, Sessions
  <2>4. CASE FinalizeProposals
    BY <1>1, <2>4 DEF FinalizeProposals, Ready, Begin, ProposalsFinalized, Sessions
  <2>5. CASE \/ OpeningKept \/ AttachOpeningVisibility \/ UpdateProvenance \/ FinalizeAgain
             \/ \E k \in Rounds : StartRound(k) \/ BindPackage(k)
    BY <2>5, <1>2 DEF OpeningKept, AttachOpeningVisibility, UpdateProvenance, FinalizeAgain,
                StartRound, BindPackage, Begin, Ready
  <2>6. QED
    BY <1>4, <2>1, <2>2, <2>3, <2>4, <2>5 DEF OtherArrives
<1>5. CASE Persist
  BY <1>2, <1>5 DEF Persist, WriteSession, WriteFails, IndexWritten, IndexFails,
                    hostVars
<1>6. CASE HandlerEnds
  <2>1. CASE CommitRollsBack
    <3>1. live \in Sessions /\ undo.live \in Sessions
      BY <2>1 DEF CommitRollsBack, TypeInv, CallOK
    <3>2. live'.turns = undo.live.turns
      BY <2>1, <3>1 DEF CommitRollsBack, CommitRolledBack, ManagerRestored, Sessions
    <3>3. QED
      BY <3>1, <3>2, SessionAssumption
  <2>2. CASE FinalizeFails
    <3>1. live \in Sessions /\ undo.live \in Sessions
      BY <2>2 DEF FinalizeFails, TypeInv, CallOK
    <3>2. live'.turns = undo.live.turns
      BY <2>2, <3>1 DEF FinalizeFails, ProposalsUndone, ManagerRestored, Sessions
    <3>3. QED
      BY <3>1, <3>2, SessionAssumption
  <2>3. CASE UserTurnFails
    <3>1. live \in Sessions
      BY <2>3 DEF UserTurnFails, TypeInv, CallOK
    <3>2. live'.turns = live.turns
      BY <2>3, <3>1 DEF UserTurnFails, UserTurnUndone, Sessions
    <3>3. QED
      BY <3>1, <3>2, SessionAssumption
  <2>4. CASE UserTurnSaved
    <3>1. live \in Sessions
      BY <2>4 DEF UserTurnSaved, TypeInv, CallOK
    <3>2. live'.turns = live.turns
      BY <2>4, <3>1 DEF UserTurnSaved, PlayerContributionNoted, Sessions
    <3>3. QED
      BY <3>1, <3>2, SessionAssumption
  <2>5. QED
    BY <1>2, <1>6, <2>1, <2>2, <2>3, <2>4
       DEF HandlerEnds, SaveFails, SaveSucceeds, CommitSaved, CommitRecorded, Reply, hostVars
<1>7. CASE Open \/ Crash
  BY <1>7 DEF Open, Crash
<1>8. QED
  BY <1>3, <1>4, <1>5, <1>6, <1>7 DEF Next

\* Every step keeps the cache, the file and the undo snapshot anchored.
LEMMA AnchorStep == ASSUME TypeInv, AnchorInv, Next PROVE AnchorInv'
<1>1. live' # NoSession => Anchors(live')
  <2>1. CASE \E r \in Requests, k \in Rounds : CommitApplied(r, k)
    BY <2>1, AppliedAnchors
  <2>2. CASE \A r \in Requests, k \in Rounds : ~CommitApplied(r, k)
    <3>1. SUFFICES ASSUME live' # NoSession PROVE Anchors(live')
      OBVIOUS
    <3>2. CASE live'.turns = <<>>
      BY <3>2 DEF Anchors
    <3>3. CASE live'.turns # <<>>
      BY <2>2, <3>1, <3>3, OldTurns, SameTurns DEF AnchorInv
    <3>4. QED
      BY <3>2, <3>3
  <2>3. QED
    BY <2>1, <2>2
<1>2. Anchors(disk'.session)
  <2>1. CASE WriteSession
    <3>1. live \in Sessions
      BY <2>1 DEF WriteSession, TypeInv, CallOK
    <3>2. disk'.session.turns = live.turns
      BY <2>1, <3>1 DEF WriteSession, Saved, Sessions
    <3>3. Anchors(live)
      BY <3>1, SessionAssumption DEF AnchorInv
    <3>4. QED
      BY <3>2, <3>3, SameTurns
  <2>2. CASE disk' = Torn
    BY <2>2 DEF Torn, Anchors, Fresh
  <2>3. CASE UNCHANGED disk
    BY <2>3 DEF AnchorInv
  <2>4. QED
    BY <2>1, <2>2, <2>3
       DEF Next, CommitArrives, CommitUnknownRound, CommitReplayed, CommitMismatched,
           CommitRefused, CommitApplied, OtherArrives, Create, UserTurn, PlayerSkip,
           RecordPresentation, OpeningKept, OpeningRecorded, AttachOpeningVisibility,
           UpdateProvenance, FinalizeAgain, FinalizeProposals, StartRound, BindPackage,
           Persist, WriteFails, AfterFailedWrite, IndexWritten, IndexFails, HandlerEnds, CommitRollsBack,
           UserTurnFails, FinalizeFails, SaveFails, CommitSaved, CommitRecorded,
           UserTurnSaved, SaveSucceeds, Reply, Open, Crash
<1>3. undo'.live # NoSession => Anchors(undo'.live)
  <2>1. undo' \in {undo, NothingToUndo, [live |-> live, rounds |-> rounds, dedup |-> dedup]}
    BY DEF Next, CommitArrives, CommitUnknownRound, CommitReplayed, CommitMismatched,
           CommitRefused, CommitApplied, OtherArrives, Create, UserTurn, PlayerSkip,
           RecordPresentation, OpeningKept, OpeningRecorded, AttachOpeningVisibility,
           UpdateProvenance, FinalizeAgain, FinalizeProposals, StartRound, BindPackage,
           Persist, WriteSession, WriteFails, IndexWritten, IndexFails,
           HandlerEnds, CommitRollsBack, UserTurnFails, FinalizeFails, SaveFails,
           CommitSaved, CommitRecorded, UserTurnSaved, SaveSucceeds, Reply, Open, Crash,
           Begin
  <2>2. QED
    BY <2>1 DEF AnchorInv, NothingToUndo
<1>4. QED
  BY <1>1, <1>2, <1>3 DEF AnchorInv

\* The cache, the file and the undo snapshot are anchored in every reachable state.
THEOREM AnchorInvariant == Spec => []AnchorInv
<1>1. Init => AnchorInv
  BY DEF Init, AnchorInv, Absent, Fresh, Anchors, NothingToUndo
<1>2. TypeInv /\ AnchorInv /\ [Next]_vars => AnchorInv'
  <2>1. CASE UNCHANGED vars
    BY <2>1 DEF vars, AnchorInv
  <2>2. QED
    BY <2>1, AnchorStep
<1>3. QED
  BY <1>1, <1>2, TypeInvariant, PTL DEF Spec

\* A move takes effect only at the continuity turn it was computed for, and so at
\* most once, in the cache and in the file, under every fault the model has.
THEOREM MovesAreAnchored == Spec => []AnchoredOnce
<1>1. TypeInv /\ AnchorInv => AnchoredOnce
  BY AnchorsAlone DEF TypeInv, TypeOK, AnchorInv, AnchoredOnce
<1>2. QED
  BY <1>1, AnchorInvariant, TypeInvariant, PTL

-----------------------------------------------------------------------------
(* Acknowledged commits stay in the file, when no save tears it.  The dedup   *)
(* index carries the argument: it is sound for the session it belongs to, and *)
(* what it says, but for the commit being saved, is what the file's one says. *)

AnswerOf(a) == [id |-> a.id, turn |-> a.turn]

Holds(s, r, a) ==
    /\ a.turn \in 1..Len(s.turns)
    /\ s.turns[a.turn] = r
    /\ s.ids[a.turn] = a.id
    /\ s.index[r] = a

Sound(s) ==
    /\ Len(s.ids) = Len(s.turns)
    /\ \A r \in Requests : s.index[r] # NoAnswer => Holds(s, r, s.index[r])

SoundSessions ==
    /\ live # NoSession => Sound(live)
    /\ Sound(disk.session)
    /\ undo.live # NoSession => Sound(undo.live)

\* What the caches say is what the file says, but for the commit being saved.
IndexesAgree ==
    /\ live = NoSession => dedup = [r \in Requests |-> NoAnswer]
    /\ live # NoSession =>
          /\ dedup = live.index
          /\ \A r \in Requests :
                live.index[r] # NoAnswer /\ ~(Unsaved /\ r = call.req) =>
                    disk.state = "whole" /\ disk.session.index[r] = live.index[r]
    /\ \A a \in acked :
          /\ disk.state = "whole" /\ disk.session.index[a.req] = AnswerOf(a)
          /\ live # NoSession => live.index[a.req] = AnswerOf(a)
          /\ AnswerOf(a) # NoAnswer

\* What the undo code of the handler in flight will find.
UndoReady ==
    /\ Unsaved => /\ undo.live.index = DedupForgotten(live.index, call.req)
                  /\ \A a \in acked : a.req # call.req
    /\ call.op = "finalize" => undo.live.turns = live.turns
    /\ call.step = "index" => disk = [state |-> "whole", session |-> Saved(live)]
    /\ Unsaved \/ (call.op = "commit" /\ call.step = "saved") \/ call.step = "record"
           \/ call.outcome = "committed" => live.index[call.req] # NoAnswer

DurabilityInv == SoundSessions /\ IndexesAgree /\ UndoReady

SameLedger(s, t) == t.turns = s.turns /\ t.ids = s.ids /\ t.index = s.index

\* Soundness depends on the turns, the ids and the dedup index only.
LEMMA SoundSame ==
    ASSUME NEW s, NEW t, Sound(s), SameLedger(s, t)
    PROVE  Sound(t)
BY DEF Sound, Holds, SameLedger

\* A created session is sound.
LEMMA SoundFresh == Sound(Fresh)
BY DEF Sound, Fresh

\* A move applied for an unanswered request keeps the session sound.
LEMMA SoundApplied ==
    ASSUME NEW s \in Sessions, NEW r \in Requests, NEW id \in Ids, Sound(s)
    PROVE  /\ Sound(MoveApplied(s, r, id))
           /\ MoveApplied(s, r, id).index[r] # NoAnswer
           /\ \A q \in Requests \ {r} : MoveApplied(s, r, id).index[q] = s.index[q]
<1> DEFINE t == MoveApplied(s, r, id)
           a == [id |-> id, turn |-> Len(s.turns) + 1]
<1>1. /\ s.turns \in Seq(Requests) /\ s.ids \in Seq(Ids)
      /\ s.index \in [Requests -> Answers] /\ Len(s.ids) = Len(s.turns)
  BY DEF Sessions, Sound
<1>2. /\ t.turns = Append(s.turns, r) /\ t.ids = Append(s.ids, id)
      /\ t.index = [s.index EXCEPT ![r] = a]
  BY DEF MoveApplied, TurnCounter, Sessions
<1> HIDE DEF t
<1>3. /\ Len(t.turns) = Len(s.turns) + 1 /\ Len(t.ids) = Len(s.ids) + 1
      /\ \A i \in 1..Len(s.turns) : t.turns[i] = s.turns[i]
      /\ \A i \in 1..Len(s.ids) : t.ids[i] = s.ids[i]
      /\ t.turns[Len(s.turns) + 1] = r /\ t.ids[Len(s.ids) + 1] = id
  BY <1>1, <1>2, AppendProperties
<1>4. t.index[r] = a /\ a # NoAnswer
  BY <1>1, <1>2 DEF NoAnswer
<1>5. \A q \in Requests \ {r} : t.index[q] = s.index[q]
  BY <1>1, <1>2
<1>6. Holds(t, r, a)
  BY <1>1, <1>3, <1>4 DEF Holds
<1>7. ASSUME NEW q \in Requests \ {r}, t.index[q] # NoAnswer
      PROVE  Holds(t, q, t.index[q])
  <2>1. Holds(s, q, s.index[q])
    BY <1>5, <1>7 DEF Sound
  <2>2. s.index[q].turn \in 1..Len(s.turns) /\ s.index[q].turn \in 1..Len(t.turns)
    BY <1>1, <1>3, <2>1 DEF Holds, Answers
  <2>3. QED
    BY <1>1, <1>3, <1>5, <2>1, <2>2 DEF Holds
<1>8. QED
  BY <1>1, <1>3, <1>4, <1>5, <1>6, <1>7 DEF Sound, t

\* The steps that touch neither the ledger of the session, nor the dedup map,
\* the file or the answers, with no commit waiting for its save.
LEMMA QuietStep ==
    ASSUME TypeInv, DurabilityInv,
           live \in Sessions, live' \in Sessions, SameLedger(live, live'),
           UNCHANGED <<dedup, disk, acked>>,
           undo'.live \in {undo.live, live, NoSession},
           ~Unsaved, ~Unsaved', call'.step # "index",
           call'.op = "finalize" => undo'.live.turns = live'.turns,
           (call'.op = "commit" /\ call'.step = "saved") \/ call'.step = "record"
               \/ call'.outcome = "committed" => live'.index[call'.req] # NoAnswer
    PROVE  DurabilityInv'
<1>1. live # NoSession /\ live' # NoSession
  BY SessionAssumption
<1>2. SoundSessions'
  BY <1>1, SoundSame DEF DurabilityInv, SoundSessions
<1>3. IndexesAgree'
  BY <1>1 DEF DurabilityInv, IndexesAgree, SameLedger
<1>4. UndoReady'
  BY DEF UndoReady
<1>5. QED
  BY <1>2, <1>3, <1>4 DEF DurabilityInv

\* A handler that starts, with nothing of the ledger changed.
LEMMA QuietBegin ==
    ASSUME TypeInv, DurabilityInv, live # NoSession,
           NEW c \in HandlerCalls, NEW s \in Sessions, Begin(c, s), SameLedger(live, s),
           UNCHANGED <<dedup, disk, acked>>,
           c.step \in {"write", "record", "answer"}, c.op = "commit" => c.step # "write",
           c.outcome # "committed",
           c.step = "record" => live.index[c.req] # NoAnswer
    PROVE  DurabilityInv'
<1>1. live \in Sessions /\ live' = s /\ call' = c /\ call = Idle
  BY DEF Begin, TypeInv, TypeOK
<1>2. undo'.live = live
  BY DEF Begin
<1>3. ~Unsaved /\ ~Unsaved'
  BY <1>1, IdleType DEF Unsaved
<1>4. QED
  BY <1>1, <1>2, <1>3, QuietStep DEF SameLedger

\* The operations other than a commit leave the ledger of the session alone.
LEMMA LedgerKept ==
    ASSUME NEW s \in Sessions
    PROVE  /\ SameLedger(s, s)
           /\ SameLedger(s, UserTurnApplied(s))
           /\ \A kind, ref : SameLedger(s, EntryAppended(s, kind, ref))
           /\ \A id, b : SameLedger(s, ProposalsFinalized(s, id, b))
           /\ \A u : SameLedger(s, UserTurnUndone(s, u))
           /\ \A n : SameLedger(s, PlayerContributionNoted(s, n))
           /\ SameLedger(s, Saved(s))
<1>1. SameLedger(s, s)
  BY DEF SameLedger
<1>2. SameLedger(s, UserTurnApplied(s))
  BY DEF SameLedger, UserTurnApplied, Sessions
<1>3. \A kind, ref : SameLedger(s, EntryAppended(s, kind, ref))
  BY DEF SameLedger, EntryAppended, Sessions
<1>4. \A id, b : SameLedger(s, ProposalsFinalized(s, id, b))
  BY DEF SameLedger, ProposalsFinalized, Sessions
<1>5. \A u : SameLedger(s, UserTurnUndone(s, u))
  BY DEF SameLedger, UserTurnUndone, Sessions
<1>6. \A n : SameLedger(s, PlayerContributionNoted(s, n))
  BY DEF SameLedger, PlayerContributionNoted, Sessions
<1>7. SameLedger(s, Saved(s))
  BY DEF SameLedger, Saved, Sessions
<1>8. QED
  BY <1>1, <1>2, <1>3, <1>4, <1>5, <1>6, <1>7

\* The arrival of a handler other than a commit keeps the durability invariant.
LEMMA OtherArrivesDurable ==
    ASSUME TypeInv, DurabilityInv, OtherArrives
    PROVE  DurabilityInv'
<1> DEFINE Quiet(c, s) ==
              /\ live # NoSession /\ c \in HandlerCalls /\ s \in Sessions
              /\ Begin(c, s) /\ SameLedger(live, s)
              /\ c.op # "commit" /\ c.step \in {"write", "answer"} /\ c.outcome # "committed"
<1>1. ASSUME NEW c, NEW s, Quiet(c, s), UNCHANGED <<dedup, disk, acked>>
      PROVE  DurabilityInv'
  BY <1>1, QuietBegin
<1>2. /\ {"create", "user", "skip", "presentation", "opening", "finalize",
          "provenance"} \subseteq Handlers
      /\ {"ok", "already_terminal"} \subseteq Outcomes
      /\ 0 \in 0..MaxIds
  BY BoundsAssumption DEF Handlers, Outcomes
<1>3. live # NoSession => live \in Sessions
  BY DEF TypeInv, TypeOK
<1>4. ToldIds \subseteq 0..MaxIds
  BY DEF TypeInv, TypeOK, ToldIds
<1>5. \A op \in {"user", "skip", "opening", "provenance"} :
         /\ Writing(op) \in HandlerCalls /\ Writing(op).op # "commit"
         /\ Writing(op).step \in {"write", "answer"} /\ Writing(op).outcome # "committed"
  BY <1>2, CallTypes
<1>6. CASE Create
  <2>1. /\ live = NoSession /\ live' = Fresh /\ call' = Writing("create")
        /\ disk.state = "absent" /\ undo'.live = NoSession
        /\ UNCHANGED <<dedup, disk, acked>>
    BY <1>6 DEF Create, Begin, clientVars
  <2>2. Writing("create").op = "create" /\ Writing("create").step = "write"
        /\ Writing("create").outcome = "none"
    BY <1>2, CallTypes
  <2>3. acked = {}
    BY <2>1 DEF DurabilityInv, IndexesAgree
  <2>4. SoundSessions'
    BY <2>1, SoundFresh DEF DurabilityInv, SoundSessions
  <2>5. IndexesAgree'
    BY <2>1, <2>3, FreshType, SessionAssumption DEF DurabilityInv, IndexesAgree, Fresh
  <2>6. UndoReady'
    BY <2>1, <2>2 DEF UndoReady, Unsaved
  <2>7. QED
    BY <2>4, <2>5, <2>6 DEF DurabilityInv
<1>7. CASE UserTurn
  <2>1. Quiet(Writing("user"), UserTurnApplied(live))
    BY <1>3, <1>5, <1>7, UserTurnAppliedType, LedgerKept DEF UserTurn, Ready
  <2>2. QED
    BY <1>1, <1>7, <2>1 DEF UserTurn, clientVars
<1>8. CASE PlayerSkip
  <2>1. Quiet(Writing("skip"), EntryAppended(live, "player_skip", 0))
    BY <1>2, <1>3, <1>5, <1>8, EntryAppendedType, LedgerKept DEF PlayerSkip, Ready, Kinds
  <2>2. QED
    BY <1>1, <1>8, <2>1 DEF PlayerSkip, clientVars
<1>9. CASE OpeningRecorded
  <2>1. Quiet(Writing("opening"), EntryAppended(live, "opening", 0))
    BY <1>2, <1>3, <1>5, <1>9, EntryAppendedType, LedgerKept
       DEF OpeningRecorded, Ready, Kinds
  <2>2. QED
    BY <1>1, <1>9, <2>1 DEF OpeningRecorded, clientVars
<1>10. CASE AttachOpeningVisibility
  <2>1. Quiet(Writing("opening"), live)
    BY <1>3, <1>5, <1>10, LedgerKept DEF AttachOpeningVisibility, Ready
  <2>2. QED
    BY <1>1, <1>10, <2>1 DEF AttachOpeningVisibility, clientVars
<1>11. CASE UpdateProvenance
  <2>1. Quiet(Writing("provenance"), live)
    BY <1>3, <1>5, <1>11, LedgerKept DEF UpdateProvenance, Ready
  <2>2. QED
    BY <1>1, <1>11, <2>1 DEF UpdateProvenance, clientVars
<1>12. CASE RecordPresentation
  <2>1. PICK id \in ToldIds : Begin([Writing("presentation") EXCEPT !.commit = id],
                                    EntryAppended(live, "presentation", id))
    BY <1>12 DEF RecordPresentation
  <2> DEFINE c == [Writing("presentation") EXCEPT !.commit = id]
  <2>2. /\ c \in HandlerCalls /\ c.op = "presentation"
        /\ c.step = "write" /\ c.outcome = "none"
    BY <1>2, <1>4, <2>1, CallTypes DEF HandlerCalls
  <2> HIDE DEF c
  <2>3. Quiet(c, EntryAppended(live, "presentation", id))
    BY <1>3, <1>4, <1>12, <2>1, <2>2, EntryAppendedType, LedgerKept
       DEF RecordPresentation, Ready, Kinds, c
  <2>4. QED
    BY <1>1, <1>12, <2>3 DEF RecordPresentation, clientVars
<1>13. CASE OpeningKept
  <2>1. Quiet(Answering("opening", "ok"), live)
    BY <1>2, <1>3, <1>13, CallTypes, LedgerKept DEF OpeningKept, Ready
  <2>2. QED
    BY <1>1, <1>13, <2>1 DEF OpeningKept, clientVars
<1>14. CASE FinalizeAgain
  <2>1. PICK id \in ToldIds :
           Begin([Answering("finalize", "already_terminal") EXCEPT !.commit = id], live)
    BY <1>14 DEF FinalizeAgain
  <2> DEFINE c == [Answering("finalize", "already_terminal") EXCEPT !.commit = id]
  <2>2. /\ c \in HandlerCalls /\ c.op = "finalize"
        /\ c.step = "answer" /\ c.outcome = "already_terminal"
    BY <1>2, <1>4, <2>1, CallTypes DEF HandlerCalls
  <2> HIDE DEF c
  <2>3. Quiet(c, live)
    BY <1>3, <1>14, <2>1, <2>2, LedgerKept DEF FinalizeAgain, Ready, c
  <2>4. QED
    BY <1>1, <1>14, <2>3 DEF FinalizeAgain, clientVars
<1>15. CASE FinalizeProposals
  <2>1. PICK id \in ToldIds, applied \in BOOLEAN :
           Begin([Writing("finalize") EXCEPT !.commit = id, !.applied = applied],
                 ProposalsFinalized(live, id, applied))
    BY <1>15 DEF FinalizeProposals
  <2> DEFINE c == [Writing("finalize") EXCEPT !.commit = id, !.applied = applied]
  <2>2. /\ c \in HandlerCalls /\ c.op = "finalize"
        /\ c.step = "write" /\ c.outcome = "none"
    <3>1. /\ Writing("finalize") \in HandlerCalls /\ Writing("finalize").op = "finalize"
          /\ Writing("finalize").step = "write" /\ Writing("finalize").outcome = "none"
      BY <1>2, CallTypes
    <3>2. QED
      BY <1>4, <2>1, <3>1 DEF HandlerCalls
  <2> HIDE DEF c
  <2>3. Quiet(c, ProposalsFinalized(live, id, applied))
    BY <1>3, <1>4, <1>15, <2>1, <2>2, ProposalsFinalizedType, LedgerKept
       DEF FinalizeProposals, Ready, c
  <2>4. QED
    BY <1>1, <1>15, <2>3 DEF FinalizeProposals, clientVars
<1>16. ASSUME NEW k \in Rounds, StartRound(k) \/ BindPackage(k)
       PROVE  DurabilityInv'
  BY <1>16 DEF StartRound, BindPackage, DurabilityInv, SoundSessions, IndexesAgree,
               UndoReady, Unsaved, clientVars
<1>17. QED
  BY <1>6, <1>7, <1>8, <1>9, <1>10, <1>11, <1>12, <1>13, <1>14, <1>15, <1>16
     DEF OtherArrives

\* The arrival of a commit keeps it: what is new is unsaved.
LEMMA CommitArrivesDurable ==
    ASSUME TypeInv, DurabilityInv, NEW r \in Requests, NEW k \in Rounds,
           \/ CommitUnknownRound(r, k) \/ CommitReplayed(r, k)
           \/ CommitMismatched(r, k) \/ CommitRefused(r, k) \/ CommitApplied(r, k)
    PROVE  DurabilityInv'
<1>1. "commit" \in Handlers /\ {"unknown_round", "rejected", "error"} \subseteq Outcomes
      /\ {"record", "idle"} \subseteq Steps
      /\ 0 \in 0..MaxIds
  BY BoundsAssumption DEF Handlers, Outcomes, Steps
<1>2. live \in Sessions /\ live # NoSession /\ SameLedger(live, live)
  BY LedgerKept DEF CommitUnknownRound, CommitReplayed, CommitMismatched, CommitRefused,
     CommitApplied, Ready, TypeInv, TypeOK
<1>3. ASSUME NEW outcome \in {"unknown_round", "rejected", "error"},
             Begin([Answering("commit", outcome) EXCEPT !.req = r, !.round = k], live),
             UNCHANGED <<dedup, disk, acked>>
      PROVE  DurabilityInv'
  <2> DEFINE c == [Answering("commit", outcome) EXCEPT !.req = r, !.round = k]
  <2>1. /\ Answering("commit", outcome) \in HandlerCalls
        /\ Answering("commit", outcome).step = "answer"
        /\ Answering("commit", outcome).outcome = outcome
    BY <1>1, CallTypes
  <2>2. c \in HandlerCalls
    BY <1>1, <2>1, CallUpdates
  <2>3. c.step = "answer" /\ c.outcome # "committed"
    BY <2>1 DEF HandlerCalls
  <2> HIDE DEF c
  <2>4. Begin(c, live)
    BY <1>3 DEF c
  <2>5. QED
    BY <1>2, <1>3, <2>2, <2>3, <2>4, QuietBegin
<1>4. CASE CommitUnknownRound(r, k)
  BY <1>3, <1>4 DEF CommitUnknownRound, clientVars
<1>5. CASE CommitMismatched(r, k)
  BY <1>3, <1>5 DEF CommitMismatched, clientVars
<1>6. CASE CommitRefused(r, k)
  <2>1. PICK outcome \in {"rejected", "error"} :
           Begin([Answering("commit", outcome) EXCEPT !.req = r, !.round = k], live)
    BY <1>6 DEF CommitRefused
  <2>2. QED
    BY <1>3, <1>6, <2>1 DEF CommitRefused, clientVars
<1>7. CASE CommitReplayed(r, k)
  <2> DEFINE c == [Writing("commit") EXCEPT !.step = "record", !.req = r, !.round = k,
                                            !.commit = dedup[r].id]
  <2>1. dedup[r].id \in 0..MaxIds
    BY DEF TypeInv, TypeOK, Answers
  <2>2. Writing("commit") \in HandlerCalls /\ Writing("commit").outcome = "none"
    BY <1>1, CallTypes
  <2>3. c \in HandlerCalls
    BY <1>1, <2>1, <2>2, CallUpdates
  <2>4. c.step = "record" /\ c.req = r /\ c.outcome = "none"
    BY <2>2 DEF HandlerCalls
  <2> HIDE DEF c
  <2>5. Begin(c, live) /\ UNCHANGED <<dedup, disk, acked>>
    BY <1>7 DEF CommitReplayed, c, clientVars
  <2>6. live.index[r] # NoAnswer
    BY <1>2, <1>7 DEF CommitReplayed, DurabilityInv, IndexesAgree
  <2>7. QED
    BY <1>2, <2>3, <2>4, <2>5, <2>6, QuietBegin
<1>8. CASE CommitApplied(r, k)
  <2> DEFINE c == [Writing("commit") EXCEPT !.req = r, !.round = k, !.commit = minted']
             s == MoveApplied(live, r, minted')
  <2>1. minted' \in Ids /\ minted' \in 0..MaxIds
    BY <1>8, BoundsAssumption DEF CommitApplied, TypeInv, TypeOK, Ids
  <2>2. c.op = "commit" /\ c.req = r /\ c.step = "write" /\ c.outcome = "none"
    BY <1>1, CallTypes DEF HandlerCalls
  <2>3. /\ s \in Sessions /\ Sound(s) /\ s.index[r] # NoAnswer
        /\ \A q \in Requests \ {r} : s.index[q] = live.index[q]
    BY <1>2, <2>1, MoveAppliedType, SoundApplied DEF DurabilityInv, SoundSessions
  <2>4. /\ live' = s /\ call' = c /\ undo'.live = live /\ call = Idle
        /\ dedup' = [dedup EXCEPT ![r] = s.index[r]]
        /\ UNCHANGED <<disk, acked>> /\ dedup[r] = NoAnswer
    BY <1>8 DEF CommitApplied, Begin, clientVars
  <2> HIDE DEF c, s
  <2>5. Unsaved' /\ ~Unsaved /\ live' # NoSession
    BY <2>2, <2>3, <2>4, IdleType, SessionAssumption DEF Unsaved
  <2>6. /\ dedup = live.index /\ live.index \in [Requests -> Answers]
        /\ s.index \in [Requests -> Answers] /\ dedup' = s.index
    <3>1. /\ dedup = live.index /\ live.index \in [Requests -> Answers]
          /\ s.index \in [Requests -> Answers]
      BY <1>2, <2>3 DEF DurabilityInv, IndexesAgree, Sessions
    <3>2. QED
      BY <2>3, <2>4, <3>1
  <2>7. SoundSessions'
    BY <1>2, <2>3, <2>4 DEF DurabilityInv, SoundSessions
  <2>8. \A a \in acked : a.req \in Requests /\ a.req # r
    BY <1>2, <2>4, <2>6 DEF DurabilityInv, IndexesAgree, TypeInv, TypeOK
  <2>9. IndexesAgree'
    BY <1>2, <2>2, <2>3, <2>4, <2>5, <2>6, <2>8 DEF DurabilityInv, IndexesAgree, AnswerOf
  <2>10. UndoReady'
    <3>1. live.index = DedupForgotten(s.index, r)
      BY <2>3, <2>4, <2>6 DEF DedupForgotten
    <3>2. QED
      BY <2>2, <2>3, <2>4, <2>8, <3>1 DEF UndoReady
  <2>11. QED
    BY <2>7, <2>9, <2>10 DEF DurabilityInv
<1>9. QED
  BY <1>4, <1>5, <1>6, <1>7, <1>8

\* A save that is not torn keeps it: the file then says what the cache says.
LEMMA PersistDurable ==
    ASSUME TypeInv, DurabilityInv, Persist, "tear" \notin Faults
    PROVE  DurabilityInv'
<1>1. live \in Sessions /\ live # NoSession /\ call.step # "idle"
      /\ call \in HandlerCalls
  BY SessionAssumption DEF Persist, WriteSession, WriteFails, IndexWritten,
     IndexFails, TypeInv, TypeOK, CallOK
<1>2. UNCHANGED <<live, dedup, undo, acked>>
  BY DEF Persist, WriteSession, WriteFails, IndexWritten, IndexFails,
         hostVars, clientVars
<1>3. CASE WriteSession
  <2>1. /\ call'.step = "index" /\ call'.op = call.op /\ call'.req = call.req
        /\ call'.outcome = call.outcome /\ call.step = "write"
        /\ disk' = [state |-> "whole", session |-> Saved(live)]
    BY <1>1, <1>3 DEF WriteSession, Step, HandlerCalls
  <2>2. Unsaved' <=> Unsaved
    BY <2>1 DEF Unsaved
  <2>3. Sound(Saved(live)) /\ Saved(live).index = live.index
    BY <1>1, LedgerKept, SoundSame DEF DurabilityInv, SoundSessions, SameLedger
  <2>4. SoundSessions'
    BY <1>2, <2>1, <2>3 DEF DurabilityInv, SoundSessions
  <2>5. IndexesAgree'
    BY <1>1, <1>2, <2>1, <2>3 DEF DurabilityInv, IndexesAgree
  <2>6. UndoReady'
    BY <1>2, <2>1, <2>2 DEF DurabilityInv, UndoReady
  <2>7. QED
    BY <2>4, <2>5, <2>6 DEF DurabilityInv
<1>4. CASE WriteFails \/ IndexFails
  <2>1. /\ call'.step = "failed" /\ call'.op = call.op /\ call'.req = call.req
        /\ call'.outcome = call.outcome /\ call.step \in {"write", "index"}
        /\ UNCHANGED disk
    BY <1>1, <1>4 DEF WriteFails, AfterFailedWrite, IndexFails, Step, HandlerCalls
  <2>2. Unsaved' <=> Unsaved
    BY <2>1 DEF Unsaved
  <2>3. SoundSessions' /\ IndexesAgree'
    BY <1>2, <2>1, <2>2 DEF DurabilityInv, SoundSessions, IndexesAgree
  <2>4. UndoReady'
    BY <1>2, <2>1, <2>2 DEF DurabilityInv, UndoReady
  <2>5. QED
    BY <2>3, <2>4 DEF DurabilityInv
<1>5. CASE IndexWritten
  <2>1. /\ call'.step = "saved" /\ call'.op = call.op /\ call'.req = call.req
        /\ call'.outcome = call.outcome /\ call.step = "index"
        /\ UNCHANGED disk
    BY <1>1, <1>5 DEF IndexWritten, Step, HandlerCalls
  <2>2. ~Unsaved' /\ (call.op = "commit" => Unsaved)
    BY <2>1 DEF Unsaved
  <2>3. disk.state = "whole" /\ disk.session = Saved(live) /\ Saved(live).index = live.index
    BY <1>1, <2>1, LedgerKept DEF DurabilityInv, UndoReady, SameLedger
  <2>4. SoundSessions'
    BY <1>2, <2>1 DEF DurabilityInv, SoundSessions
  <2>5. IndexesAgree'
    BY <1>1, <1>2, <2>1, <2>2, <2>3 DEF DurabilityInv, IndexesAgree
  <2>6. UndoReady'
    BY <1>2, <2>1, <2>2 DEF DurabilityInv, UndoReady
  <2>7. QED
    BY <2>4, <2>5, <2>6 DEF DurabilityInv
<1>6. QED
  BY <1>3, <1>4, <1>5 DEF Persist

\* The end of a handler keeps it: a rollback takes back the unsaved commit only.
LEMMA HandlerEndsDurable ==
    ASSUME TypeInv, DurabilityInv, HandlerEnds
    PROVE  DurabilityInv'
<1>1. call \in HandlerCalls
  BY DEF TypeInv, TypeOK
<1>2. CASE UserTurnFails \/ UserTurnSaved \/ SaveFails \/ SaveSucceeds
  <2>1. live \in Sessions /\ call.op # "commit"
    BY <1>2 DEF UserTurnFails, UserTurnSaved, SaveFails, SaveSucceeds, TypeInv, CallOK
  <2>2. live' \in Sessions /\ SameLedger(live, live')
    <3>1. Len(live.history) - 1 \in Int
      BY <2>1 DEF Sessions
    <3>2. UserTurnFails => undo.live \in Sessions
      BY DEF UserTurnFails, TypeInv, CallOK
    <3>3. QED
      BY <1>2, <2>1, <3>1, <3>2, LedgerKept, UserTurnUndoneType, NotedType
         DEF UserTurnFails, UserTurnSaved, SaveFails, SaveSucceeds, hostVars
  <2>3. UNCHANGED <<dedup, disk, undo, acked>>
    BY <1>2 DEF UserTurnFails, UserTurnSaved, SaveFails, SaveSucceeds, hostVars, clientVars
  <2>4. /\ call'.step = "answer" /\ call'.op = call.op /\ call'.req = call.req
        /\ call'.outcome \in {"error", "ok"}
    BY <1>1, <1>2 DEF UserTurnFails, UserTurnSaved, SaveFails, SaveSucceeds, Answer,
                      HandlerCalls
  <2>5. ~Unsaved /\ ~Unsaved'
    BY <2>1, <2>4 DEF Unsaved
  <2>6. call.op = "finalize" => undo.live.turns = live'.turns
    BY <2>2 DEF DurabilityInv, UndoReady, SameLedger
  <2>7. QED
    BY <2>1, <2>2, <2>3, <2>4, <2>5, <2>6, QuietStep
<1>3. CASE FinalizeFails
  <2>1. live \in Sessions /\ undo.live \in Sessions /\ call.op = "finalize"
    BY <1>3 DEF FinalizeFails, TypeInv, CallOK
  <2>2. live' = ProposalsUndone(live, undo.live) /\ live' \in Sessions
    BY <1>3, <2>1, ProposalsUndoneType DEF FinalizeFails
  <2>3. undo.live.turns = live.turns
    BY <2>1 DEF DurabilityInv, UndoReady
  <2>4. SameLedger(live, live')
    BY <2>1, <2>2, <2>3 DEF SameLedger, ProposalsUndone, ManagerRestored, Sessions
  <2>5. /\ call'.step = "answer" /\ call'.op = call.op /\ call'.outcome = "error"
        /\ UNCHANGED <<dedup, disk, undo, acked>>
    BY <1>1, <1>3 DEF FinalizeFails, Answer, HandlerCalls, clientVars
  <2>6. ~Unsaved /\ ~Unsaved'
    BY <2>1, <2>5 DEF Unsaved
  <2>7. undo.live.turns = live'.turns
    BY <2>3, <2>4 DEF SameLedger
  <2>8. QED
    BY <2>1, <2>2, <2>4, <2>5, <2>6, <2>7, QuietStep
<1>4. CASE CommitSaved \/ CommitRecorded
  <2>1. live \in Sessions /\ call.op = "commit" /\ live' = live
    BY <1>4 DEF CommitSaved, PhaseF, CommitRecorded, TypeInv, CallOK, hostVars
  <2>2. /\ UNCHANGED <<dedup, disk, undo, acked>>
        /\ call.step \in {"saved", "record"} /\ call'.step \in {"record", "answer"}
        /\ call'.op = call.op /\ call'.req = call.req
    BY <1>1, <1>4 DEF CommitSaved, PhaseF, CommitRecorded, Step, Answer, HandlerCalls,
                      hostVars, clientVars
  <2>3. live.index[call.req] # NoAnswer
    BY <2>1, <2>2 DEF DurabilityInv, UndoReady
  <2>4. ~Unsaved /\ ~Unsaved'
    BY <2>2 DEF Unsaved
  <2>5. QED
    BY <2>1, <2>2, <2>3, <2>4, LedgerKept, QuietStep
<1>5. CASE CommitRollsBack
  <2>1. live \in Sessions /\ undo.live \in Sessions /\ call.step = "failed"
        /\ call.op = "commit" /\ call.req \in Requests
    BY <1>5 DEF CommitRollsBack, TypeInv, CallOK
  <2>2. Unsaved
    BY <2>1 DEF Unsaved
  <2>3. undo.live.index = DedupForgotten(live.index, call.req)
        /\ \A a \in acked : a.req # call.req
    BY <2>2 DEF DurabilityInv, UndoReady
  <2>4. SameLedger(undo.live, live')
    <3>1. live' = CommitRolledBack(live, undo.live, call.req)
      BY <1>5 DEF CommitRollsBack
    <3>2. QED
      BY <2>1, <2>3, <3>1 DEF SameLedger, CommitRolledBack, ManagerRestored, Sessions
  <2>5. live' \in Sessions /\ live # NoSession /\ live' # NoSession
    BY <1>5, <2>1, CommitRolledBackType, SessionAssumption DEF CommitRollsBack
  <2>6. /\ dedup' = DedupForgotten(dedup, call.req) /\ UNCHANGED <<disk, undo, acked>>
        /\ call'.step = "answer" /\ call'.op = "commit" /\ call'.outcome = "rejected"
    BY <1>1, <1>5 DEF CommitRollsBack, Answer, HandlerCalls, clientVars
  <2>7. ~Unsaved'
    BY <2>6 DEF Unsaved
  <2>8. SoundSessions'
    <3>1. Sound(undo.live)
      BY <2>1, SessionAssumption DEF DurabilityInv, SoundSessions
    <3>2. Sound(live')
      BY <2>4, <3>1, SoundSame
    <3>3. QED
      BY <2>6, <3>2 DEF DurabilityInv, SoundSessions
  <2>9. /\ live'.index = DedupForgotten(live.index, call.req)
        /\ live'.index[call.req] = NoAnswer
        /\ \A q \in Requests \ {call.req} : live'.index[q] = live.index[q]
    <3>1. live.index \in [Requests -> Answers]
      BY <2>1 DEF Sessions
    <3>2. QED
      BY <2>1, <2>3, <2>4, <3>1 DEF SameLedger, DedupForgotten
  <2>10. \A a \in acked : a.req \in Requests \ {call.req}
    BY <2>3 DEF TypeInv, TypeOK
  <2>11. IndexesAgree'
    BY <2>5, <2>6, <2>7, <2>9, <2>10 DEF DurabilityInv, IndexesAgree, AnswerOf
  <2>12. UndoReady'
    BY <2>6, <2>7 DEF UndoReady
  <2>13. QED
    BY <2>8, <2>11, <2>12 DEF DurabilityInv
<1>6. CASE Reply
  <2>1. /\ call.step = "answer" /\ call' = Idle /\ undo'.live = NoSession
        /\ UNCHANGED <<live, dedup, disk>>
    BY <1>6 DEF Reply, NothingToUndo, hostVars
  <2>2. live # NoSession /\ ~Unsaved /\ ~Unsaved'
    BY <2>1, IdleType, SessionAssumption DEF Unsaved, TypeInv, CallOK
  <2>3. SoundSessions'
    BY <2>1 DEF DurabilityInv, SoundSessions
  <2>4. ASSUME NEW a \in acked'
        PROVE  /\ disk.state = "whole" /\ disk.session.index[a.req] = AnswerOf(a)
               /\ live.index[a.req] = AnswerOf(a) /\ AnswerOf(a) # NoAnswer
    <3>1. CASE a \in acked
      BY <2>2, <3>1 DEF DurabilityInv, IndexesAgree
    <3>2. CASE a \notin acked
      <4>1. /\ call.outcome = "committed" /\ a.req = call.req
            /\ a.id = dedup[call.req].id /\ a.turn = dedup[call.req].turn
        BY <1>6, <3>2 DEF Reply
      <4>2. call.req \in Requests /\ dedup[call.req] \in Answers
        BY <4>1 DEF TypeInv, TypeOK, CallOK
      <4>3. AnswerOf(a) = dedup[call.req]
        BY <4>1, <4>2 DEF AnswerOf, Answers
      <4>4. dedup = live.index /\ live.index[call.req] # NoAnswer
        BY <2>2, <4>1 DEF DurabilityInv, IndexesAgree, UndoReady
      <4>5. QED
        BY <2>2, <4>1, <4>2, <4>3, <4>4 DEF DurabilityInv, IndexesAgree
    <3>3. QED
      BY <3>1, <3>2
  <2>5. IndexesAgree'
    BY <2>1, <2>2, <2>4 DEF DurabilityInv, IndexesAgree
  <2>6. UndoReady'
    BY <2>1, <2>2, IdleType DEF UndoReady
  <2>7. QED
    BY <2>3, <2>5, <2>6 DEF DurabilityInv
<1>7. QED
  BY <1>2, <1>3, <1>4, <1>5, <1>6 DEF HandlerEnds

\* Loading the file keeps it: the dedup map is restored from the session's index.
LEMMA OpenDurable == ASSUME TypeInv, DurabilityInv, Open PROVE DurabilityInv'
<1>1. /\ live = NoSession /\ live' = disk.session /\ disk.state = "whole" /\ call = Idle
      /\ UNCHANGED <<disk, call, undo, acked>> /\ dedup' = DedupRestored(disk.session.index)
  BY DEF Open, clientVars
<1>2. disk.session \in Sessions /\ disk.session # NoSession
  BY SessionAssumption DEF TypeInv, TypeOK
<1>3. dedup' = disk.session.index
  <2>1. disk.session.index \in [Requests -> Answers] /\ dedup = [r \in Requests |-> NoAnswer]
    BY <1>1, <1>2 DEF DurabilityInv, IndexesAgree, Sessions
  <2>2. QED
    BY <1>1, <2>1 DEF DedupRestored
<1>4. ~Unsaved'
  BY <1>1, IdleType DEF Unsaved
<1>5. SoundSessions'
  BY <1>1 DEF DurabilityInv, SoundSessions
<1>6. IndexesAgree'
  BY <1>1, <1>2, <1>3, <1>4 DEF DurabilityInv, IndexesAgree
<1>7. UndoReady'
  BY <1>1, <1>4, IdleType DEF UndoReady
<1>8. QED
  BY <1>5, <1>6, <1>7 DEF DurabilityInv

\* A crash keeps it: nothing acknowledged lived in memory only.
LEMMA CrashDurable == ASSUME TypeInv, DurabilityInv, Crash PROVE DurabilityInv'
<1>1. /\ live' = NoSession /\ call' = Idle /\ undo'.live = NoSession
      /\ dedup' = [r \in Requests |-> NoAnswer] /\ UNCHANGED <<disk, acked>>
  BY DEF Crash, NothingToUndo, clientVars
<1>2. SoundSessions' /\ IndexesAgree'
  BY <1>1 DEF DurabilityInv, SoundSessions, IndexesAgree
<1>3. UndoReady'
  BY <1>1, IdleType DEF UndoReady, Unsaved
<1>4. QED
  BY <1>2, <1>3 DEF DurabilityInv

\* What the caches, the file and the answers say of commits agrees in every
\* reachable state, unless a save can tear the file.
THEOREM LedgerIsDurable ==
    ASSUME "tear" \notin Faults
    PROVE  Spec => []DurabilityInv
<1>1. Init => DurabilityInv
  <2>1. SUFFICES ASSUME Init PROVE DurabilityInv
    OBVIOUS
  <2>2. SoundSessions
    BY <2>1, SoundFresh DEF Init, SoundSessions, Absent, NothingToUndo
  <2>3. IndexesAgree
    BY <2>1 DEF Init, IndexesAgree
  <2>4. UndoReady
    BY <2>1, IdleType DEF Init, UndoReady, Unsaved
  <2>5. QED
    BY <2>2, <2>3, <2>4 DEF DurabilityInv
<1>2. TypeInv /\ DurabilityInv /\ [Next]_vars => DurabilityInv'
  <2>1. SUFFICES ASSUME TypeInv, DurabilityInv, [Next]_vars PROVE DurabilityInv'
    OBVIOUS
  <2>2. CASE UNCHANGED vars
    BY <2>1, <2>2 DEF vars, DurabilityInv, SoundSessions, IndexesAgree, UndoReady, Unsaved
  <2>3. CASE CommitArrives
    BY <2>1, <2>3, CommitArrivesDurable DEF CommitArrives
  <2>4. QED
    BY <2>1, <2>2, <2>3, OtherArrivesDurable, PersistDurable, HandlerEndsDurable,
       OpenDurable, CrashDurable DEF Next
<1>3. QED
  BY <1>1, <1>2, TypeInvariant, PTL DEF Spec

\* What a client was told is committed is in the session file from then on, with
\* its turn, its id and its dedup record, unless a save can tear the file.
THEOREM CommitsStayDurable ==
    ASSUME "tear" \notin Faults
    PROVE  Spec => []CommitsAreDurable
<1>1. TypeInv /\ DurabilityInv => CommitsAreDurable
  <2>1. SUFFICES ASSUME TypeInv, DurabilityInv, NEW a \in acked PROVE Durable(a)
    BY DEF CommitsAreDurable
  <2>2. /\ disk.state = "whole" /\ disk.session.index[a.req] = AnswerOf(a)
        /\ AnswerOf(a) # NoAnswer /\ a.req \in Requests
    BY <2>1 DEF DurabilityInv, IndexesAgree, TypeInv, TypeOK
  <2>3. Holds(disk.session, a.req, AnswerOf(a))
    BY <2>1, <2>2 DEF DurabilityInv, SoundSessions, Sound
  <2>4. QED
    BY <2>2, <2>3 DEF Durable, Holds, AnswerOf
<1>2. QED
  BY <1>1, LedgerIsDurable, TypeInvariant, PTL

-----------------------------------------------------------------------------
(* Until its save succeeds or is undone, a handler that has undo code has     *)
(* done exactly one thing to what it found.                                   *)

Pending == call.step \in {"write", "index", "failed"}

InFlight ==
    Pending =>
        /\ call.op = "commit" =>
              /\ live = MoveApplied(undo.live, call.req, call.commit)
              /\ rounds = [undo.rounds EXCEPT ![call.round] = RoundMoved(@, call.commit)]
              /\ dedup = [undo.dedup EXCEPT ![call.req] = live.index[call.req]]
              /\ undo.dedup = undo.live.index /\ undo.dedup[call.req] = NoAnswer
              /\ Expected[call.req] = TurnCounter(undo.live)
              /\ call.commit \in Ids /\ rounds[call.round].state = "open"
        /\ call.op = "user" =>
              /\ live = UserTurnApplied(undo.live)
              /\ rounds = undo.rounds /\ dedup = undo.dedup
        /\ call.op = "finalize" =>
              /\ live = ProposalsFinalized(undo.live, call.commit, call.applied)
              /\ ~Terminal(undo.live, call.commit)
              /\ rounds = undo.rounds /\ dedup = undo.dedup

\* The dedup map and the dedup index of the cached session are the same map.
CachesAgree ==
    /\ live = NoSession => dedup = [r \in Requests |-> NoAnswer]
    /\ live # NoSession => dedup = live.index

HostInv == TypeInv /\ InFlight /\ CachesAgree

\* Every step keeps the type invariant.
LEMMA TypeStep == ASSUME TypeInv, Next PROVE TypeInv'
<1>1. CASE CommitArrives
  BY <1>1, CommitArrivesType DEF CommitArrives
<1>2. QED
  BY <1>1, OtherArrivesType, PersistType, HandlerEndsType, OpenType, CrashType DEF Next

\* A session is in the cache while a handler is in flight.
LEMMA CallHasSession ==
    ASSUME TypeInv, call.step # "idle"
    PROVE  live \in Sessions /\ live # NoSession
BY SessionAssumption DEF TypeInv, CallOK

\* The point a handler in flight moves to, and the call it stays.
LEMMA CallMoves ==
    ASSUME TypeInv
    PROVE  /\ \A st : [call EXCEPT !.step = st].step = st
           /\ \A st, o : [call EXCEPT !.step = st, !.outcome = o].step = st
           /\ \A st, o : [call EXCEPT !.step = st, !.outcome = o].outcome = o
           /\ \A st : /\ [call EXCEPT !.step = st].op = call.op
                      /\ [call EXCEPT !.step = st].req = call.req
                      /\ [call EXCEPT !.step = st].round = call.round
                      /\ [call EXCEPT !.step = st].commit = call.commit
                      /\ [call EXCEPT !.step = st].applied = call.applied
                      /\ [call EXCEPT !.step = st].outcome = call.outcome
           /\ \A st, o : /\ [call EXCEPT !.step = st, !.outcome = o].op = call.op
                         /\ [call EXCEPT !.step = st, !.outcome = o].req = call.req
                         /\ [call EXCEPT !.step = st, !.outcome = o].round = call.round
                         /\ [call EXCEPT !.step = st, !.outcome = o].commit = call.commit
BY DEF TypeInv, TypeOK, HandlerCalls

\* A step of repository.persist leaves the cache, the rounds and what the undo
\* code will use alone, and the call in the middle of its save or past it.
LEMMA PersistMoves ==
    ASSUME TypeInv, Persist
    PROVE  /\ Pending /\ call.step # "failed"
           /\ UNCHANGED <<live, rounds, dedup, undo, acked, finalized, promoted, minted>>
           /\ call'.op = call.op /\ call'.req = call.req /\ call'.round = call.round
           /\ call'.commit = call.commit /\ call'.applied = call.applied
           /\ call'.outcome = call.outcome
           /\ call'.step \in {"index", "failed", "saved"}
           /\ call'.step = "saved" => call.step = "index" /\ UNCHANGED disk
<1>1. PICK st \in {"index", "failed", "saved"} : call' = [call EXCEPT !.step = st]
  BY DEF Persist, WriteSession, WriteFails, IndexWritten, IndexFails, Step
<1>2. /\ call'.op = call.op /\ call'.req = call.req /\ call'.round = call.round
      /\ call'.commit = call.commit /\ call'.applied = call.applied
      /\ call'.outcome = call.outcome /\ call'.step = st
  BY <1>1, CallMoves
<1>3. call'.step = "saved" => call.step = "index" /\ UNCHANGED disk
  <2>1. CASE IndexWritten
    BY <2>1 DEF IndexWritten
  <2>2. CASE WriteSession
    BY <2>2, CallMoves DEF WriteSession, Step
  <2>3. CASE WriteFails \/ IndexFails
    BY <2>3, CallMoves DEF WriteFails, IndexFails, Step
  <2>4. QED
    BY <2>1, <2>2, <2>3 DEF Persist
<1>4. QED
  BY <1>2, <1>3
     DEF Persist, WriteSession, WriteFails, IndexWritten, IndexFails, hostVars, clientVars,
         Pending

\* What follows a save, or its undoing, is past the save.
LEMMA EndsMove ==
    ASSUME TypeInv, HandlerEnds
    PROVE  ~Pending'
<1>1. CASE Reply
  BY <1>1, IdleType DEF Reply, Pending
<1>2. CASE ~Reply
  <2>1. \E st \in {"answer", "record"} :
           \/ call' = [call EXCEPT !.step = st]
           \/ \E o : call' = [call EXCEPT !.step = st, !.outcome = o]
    BY <1>2 DEF HandlerEnds, CommitRollsBack, UserTurnFails, FinalizeFails, SaveFails,
                CommitSaved, CommitRecorded, UserTurnSaved, SaveSucceeds, Step, Answer
  <2>2. call'.step \in {"answer", "record"}
    BY <2>1, CallMoves
  <2>3. QED
    BY <2>2 DEF Pending
<1>3. QED
  BY <1>1, <1>2

\* The calls the handlers start with.
LEMMA CallsStarted ==
    /\ \A op \in Handlers :
          /\ Writing(op).op = op /\ Writing(op).step = "write"
          /\ Answering(op, "ok").step = "answer"
    /\ \A r, k, id :
          /\ [Writing("commit") EXCEPT !.req = r, !.round = k, !.commit = id].op = "commit"
          /\ [Writing("commit") EXCEPT !.req = r, !.round = k, !.commit = id].step = "write"
          /\ [Writing("commit") EXCEPT !.req = r, !.round = k, !.commit = id].req = r
          /\ [Writing("commit") EXCEPT !.req = r, !.round = k, !.commit = id].round = k
          /\ [Writing("commit") EXCEPT !.req = r, !.round = k, !.commit = id].commit = id
          /\ [Writing("commit") EXCEPT !.req = r, !.round = k, !.commit = id].outcome = "none"
          /\ [Writing("commit") EXCEPT !.step = "record", !.req = r, !.round = k,
                                       !.commit = id].step = "record"
          /\ [Writing("commit") EXCEPT !.step = "record", !.req = r, !.round = k,
                                       !.commit = id].op = "commit"
    /\ \A r, k, o :
          /\ [Answering("commit", o) EXCEPT !.req = r, !.round = k].step = "answer"
          /\ [Answering("commit", o) EXCEPT !.req = r, !.round = k].op = "commit"
          /\ [Answering("commit", o) EXCEPT !.req = r, !.round = k].outcome = o
    /\ \A id, b :
          /\ [Writing("finalize") EXCEPT !.commit = id, !.applied = b].op = "finalize"
          /\ [Writing("finalize") EXCEPT !.commit = id, !.applied = b].step = "write"
          /\ [Writing("finalize") EXCEPT !.commit = id, !.applied = b].commit = id
          /\ [Writing("finalize") EXCEPT !.commit = id, !.applied = b].applied = b
    /\ \A id :
          /\ [Writing("presentation") EXCEPT !.commit = id].op = "presentation"
          /\ [Writing("presentation") EXCEPT !.commit = id].step = "write"
          /\ [Answering("finalize", "already_terminal") EXCEPT !.commit = id].step = "answer"
          /\ [Answering("finalize", "already_terminal") EXCEPT !.commit = id].op = "finalize"
          /\ [Answering("finalize", "already_terminal") EXCEPT !.commit = id].commit = id
BY DEF Writing, Answering, Idle

\* What a handler does to its session is what its undo code takes back.
LEMMA InFlightStep == ASSUME HostInv, Next PROVE InFlight'
<1> USE DEF HostInv
<1>1. CASE \E r \in Requests, k \in Rounds : CommitApplied(r, k)
  <2>1. PICK r \in Requests, k \in Rounds : CommitApplied(r, k)
    BY <1>1
  <2>2. /\ live \in Sessions /\ live # NoSession /\ dedup[r] = NoAnswer /\ Anchored(r)
        /\ rounds[k].state = "open" /\ minted' \in Ids
    BY <2>1, BoundsAssumption DEF CommitApplied, Ready, TypeInv, TypeOK, Ids
  <2>3. /\ live' = MoveApplied(live, r, minted')
        /\ call'.op = "commit" /\ call'.req = r /\ call'.round = k /\ call'.commit = minted'
        /\ undo' = [live |-> live, rounds |-> rounds, dedup |-> dedup]
    BY <2>1, CallsStarted DEF CommitApplied, Begin
  <2>4. /\ rounds' = [rounds EXCEPT ![k] = RoundMoved(@, minted')]
        /\ dedup' = [dedup EXCEPT ![r] = live'.index[r]]
    BY <2>1, <2>3 DEF CommitApplied
  <2>5. dedup = live.index
    BY <2>2 DEF CachesAgree
  <2>6. rounds'[k].state = "open"
    BY <2>2, <2>4 DEF RoundMoved, TypeInv, TypeOK, RoundStates
  <2>7. QED
    BY <2>2, <2>3, <2>4, <2>5, <2>6 DEF InFlight, Anchored
<1>2. CASE UserTurn
  <2>1. call'.op = "user"
    BY <1>2, CallsStarted DEF UserTurn, Begin, Handlers
  <2>2. QED
    BY <1>2, <2>1 DEF UserTurn, Begin, InFlight
<1>3. CASE FinalizeProposals
  <2>1. PICK id \in ToldIds, b \in BOOLEAN :
           /\ ~Terminal(live, id)
           /\ Begin([Writing("finalize") EXCEPT !.commit = id, !.applied = b],
                    ProposalsFinalized(live, id, b))
    BY <1>3 DEF FinalizeProposals
  <2>2. call'.op = "finalize" /\ call'.commit = id /\ call'.applied = b
    BY <2>1, CallsStarted DEF Begin
  <2>3. QED
    BY <1>3, <2>1, <2>2 DEF FinalizeProposals, Begin, InFlight
<1>4. CASE \/ Create \/ PlayerSkip \/ RecordPresentation \/ OpeningKept \/ OpeningRecorded
           \/ AttachOpeningVisibility \/ UpdateProvenance \/ FinalizeAgain
  <2>1. ~Pending' \/ call'.op \in {"create", "skip", "presentation", "opening", "provenance"}
    <3>1. CASE Create \/ PlayerSkip \/ OpeningRecorded \/ AttachOpeningVisibility
               \/ UpdateProvenance
      BY <3>1, CallsStarted DEF Create, PlayerSkip, OpeningRecorded, AttachOpeningVisibility,
                                UpdateProvenance, Begin, Handlers
    <3>2. CASE OpeningKept
      BY <3>2, CallsStarted DEF OpeningKept, Begin, Pending, Handlers
    <3>3. CASE RecordPresentation
      BY <3>3, CallsStarted DEF RecordPresentation, Begin
    <3>4. CASE FinalizeAgain
      <4>1. call'.step = "answer"
        BY <3>4, CallsStarted DEF FinalizeAgain, Begin
      <4>2. QED
        BY <4>1 DEF Pending
    <3>5. QED
      BY <1>4, <3>1, <3>2, <3>3, <3>4
  <2>2. QED
    BY <2>1 DEF InFlight
<1>5. CASE \/ \E k \in Rounds : StartRound(k) \/ BindPackage(k)
           \/ Open \/ Crash
           \/ \E r \in Requests, k \in Rounds :
                 \/ CommitUnknownRound(r, k) \/ CommitReplayed(r, k)
                 \/ CommitMismatched(r, k) \/ CommitRefused(r, k)
  <2>1. ~Pending'
    <3>1. CASE \/ \E k \in Rounds : StartRound(k) \/ BindPackage(k)
               \/ Open \/ Crash
      BY <3>1, IdleType DEF StartRound, BindPackage, Ready, Open, Crash, Pending
    <3>2. CASE \E r \in Requests, k \in Rounds :
                  \/ CommitUnknownRound(r, k) \/ CommitReplayed(r, k)
                  \/ CommitMismatched(r, k) \/ CommitRefused(r, k)
      <4>1. call'.step \in {"answer", "record"}
        <5>1. PICK r \in Requests, k \in Rounds :
                 \/ CommitUnknownRound(r, k) \/ CommitReplayed(r, k)
                 \/ CommitMismatched(r, k) \/ CommitRefused(r, k)
          BY <3>2
        <5>2. CASE CommitReplayed(r, k)
          BY <5>2, CallsStarted DEF CommitReplayed, Begin
        <5>3. CASE CommitRefused(r, k)
          BY <5>3, CallsStarted DEF CommitRefused, Begin
        <5>4. CASE CommitUnknownRound(r, k)
          BY <5>4, CallsStarted DEF CommitUnknownRound, Begin
        <5>5. CASE CommitMismatched(r, k)
          BY <5>5, CallsStarted DEF CommitMismatched, Begin
        <5>6. QED
          BY <5>1, <5>2, <5>3, <5>4, <5>5
      <4>2. QED
        BY <4>1 DEF Pending
    <3>3. QED
      BY <1>5, <3>1, <3>2
  <2>2. QED
    BY <2>1 DEF InFlight
<1>6. CASE Persist
  BY <1>6, PersistMoves DEF InFlight
<1>7. CASE HandlerEnds
  BY <1>7, EndsMove DEF InFlight
<1>8. QED
  BY <1>1, <1>2, <1>3, <1>4, <1>5, <1>6, <1>7 DEF Next, CommitArrives, OtherArrives

\* The dedup map follows the dedup index of the session through every handler,
\* every undo and every restart.
LEMMA CachesStep == ASSUME HostInv, Next PROVE CachesAgree'
<1> USE DEF HostInv
<1>1. live \in Sessions \cup {NoSession} /\ dedup \in [Requests -> Answers]
  BY DEF TypeInv, TypeOK
<1>2. CASE UNCHANGED <<live, dedup>>
  BY <1>2 DEF CachesAgree
<1>3. CASE \E r \in Requests, k \in Rounds : CommitApplied(r, k)
  <2>1. PICK r \in Requests, k \in Rounds : CommitApplied(r, k)
    BY <1>3
  <2>2. live \in Sessions /\ live # NoSession /\ minted' \in Ids
    BY <2>1, BoundsAssumption DEF CommitApplied, Ready, TypeInv, TypeOK, Ids
  <2>3. /\ live' = MoveApplied(live, r, minted')
        /\ dedup' = [dedup EXCEPT ![r] = live'.index[r]]
    BY <2>1 DEF CommitApplied, Begin
  <2>4. live' \in Sessions /\ live' # NoSession
    BY <2>2, <2>3, MoveAppliedType, SessionAssumption
  <2>5. \E a : live'.index = [live.index EXCEPT ![r] = a]
    BY <2>2, <2>3 DEF MoveApplied, Sessions
  <2>6. dedup = live.index /\ live.index \in [Requests -> Answers]
    BY <2>2 DEF CachesAgree, Sessions
  <2>7. dedup' = live'.index
    BY <2>3, <2>5, <2>6
  <2>8. QED
    BY <2>4, <2>7 DEF CachesAgree
<1>4. CASE Create
  BY <1>4, FreshType, SessionAssumption DEF Create, Begin, CachesAgree, Fresh
<1>5. CASE \/ UserTurn \/ PlayerSkip \/ RecordPresentation \/ OpeningRecorded \/ FinalizeProposals
           \/ UserTurnFails \/ UserTurnSaved
  <2>1. live \in Sessions /\ live # NoSession /\ UNCHANGED dedup
    BY <1>5, CallHasSession
       DEF UserTurn, PlayerSkip, RecordPresentation, OpeningRecorded, FinalizeProposals,
           Ready, UserTurnFails, UserTurnSaved, TypeInv, TypeOK
  <2>2. SameLedger(live, live')
    <3>1. CASE UserTurn \/ UserTurnFails \/ UserTurnSaved
      BY <2>1, <3>1, LedgerKept DEF UserTurn, Begin, UserTurnFails, UserTurnSaved
    <3>2. CASE PlayerSkip \/ RecordPresentation \/ OpeningRecorded
      BY <2>1, <3>2, LedgerKept DEF PlayerSkip, RecordPresentation, OpeningRecorded, Begin
    <3>3. CASE FinalizeProposals
      BY <2>1, <3>3, LedgerKept DEF FinalizeProposals, Begin
    <3>4. QED
      BY <1>5, <3>1, <3>2, <3>3
  <2>3. live' \in Sessions
    <3>1. Len(live.history) - 1 \in Int /\ 0 \in 0..MaxIds /\ ToldIds \subseteq 0..MaxIds
      <4>1. Len(live.history) - 1 \in Int
        BY <2>1 DEF Sessions
      <4>2. 0 \in 0..MaxIds
        BY BoundsAssumption
      <4>3. ToldIds \subseteq 0..MaxIds
        BY DEF TypeInv, TypeOK, ToldIds
      <4>4. QED
        BY <4>1, <4>2, <4>3
    <3>2. UserTurnFails => undo.live \in Sessions
      BY DEF UserTurnFails, TypeInv, CallOK
    <3>3. QED
      BY <1>5, <2>1, <3>1, <3>2, UserTurnAppliedType, EntryAppendedType,
         ProposalsFinalizedType, UserTurnUndoneType, NotedType
         DEF UserTurn, PlayerSkip, RecordPresentation, OpeningRecorded, FinalizeProposals,
             Begin, UserTurnFails, UserTurnSaved, Kinds
  <2>4. QED
    BY <2>1, <2>2, <2>3, SessionAssumption DEF CachesAgree, SameLedger
<1>6. CASE FinalizeFails
  <2>1. live \in Sessions /\ live # NoSession /\ UNCHANGED dedup
    BY <1>6, CallHasSession DEF FinalizeFails
  <2>2. live'.index = live.index
    BY <1>6, <2>1 DEF FinalizeFails, ProposalsUndone, ManagerRestored, Sessions
  <2>3. live' \in Sessions
    BY <1>6, <2>1, ProposalsUndoneType DEF FinalizeFails, TypeInv, CallOK
  <2>4. QED
    BY <2>1, <2>2, <2>3, SessionAssumption DEF CachesAgree
<1>7. CASE CommitRollsBack
  <2>1. live \in Sessions /\ live # NoSession
    BY <1>7, CallHasSession DEF CommitRollsBack
  <2>2. live'.index = DedupForgotten(live.index, call.req)
    BY <1>7, <2>1 DEF CommitRollsBack, CommitRolledBack, ManagerRestored, Sessions
  <2>3. live' # NoSession
    BY <1>7, <2>1, CommitRolledBackType, SessionAssumption DEF CommitRollsBack, TypeInv, CallOK
  <2>4. QED
    BY <1>7, <2>1, <2>2, <2>3 DEF CachesAgree, CommitRollsBack
<1>8. CASE Open
  <2>1. disk.session \in Sessions /\ disk.session # NoSession
    BY SessionAssumption DEF TypeInv, TypeOK
  <2>2. dedup' = disk.session.index
    BY <1>8, <2>1 DEF Open, DedupRestored, CachesAgree, Sessions
  <2>3. QED
    BY <1>8, <2>1, <2>2 DEF Open, CachesAgree
<1>9. CASE Crash
  BY <1>9 DEF Crash, CachesAgree
<1>10. CASE \/ OpeningKept \/ AttachOpeningVisibility \/ UpdateProvenance \/ FinalizeAgain
            \/ \E k \in Rounds : StartRound(k) \/ BindPackage(k)
            \/ \E r \in Requests, k \in Rounds :
                  \/ CommitUnknownRound(r, k) \/ CommitReplayed(r, k)
                  \/ CommitMismatched(r, k) \/ CommitRefused(r, k)
            \/ Persist \/ SaveFails \/ CommitSaved \/ CommitRecorded \/ SaveSucceeds \/ Reply
  BY <1>2, <1>10, PersistMoves
     DEF OpeningKept, AttachOpeningVisibility, UpdateProvenance, FinalizeAgain, StartRound,
         BindPackage, CommitUnknownRound, CommitReplayed, CommitMismatched, CommitRefused,
         Begin, SaveFails, CommitSaved, CommitRecorded, SaveSucceeds, Reply, hostVars
<1>11. QED
  BY <1>3, <1>4, <1>5, <1>6, <1>7, <1>8, <1>9, <1>10
     DEF Next, CommitArrives, OtherArrives, HandlerEnds

\* In every reachable state a handler whose save is pending can be undone exactly.
THEOREM HandlersInFlight == Spec => []HostInv
<1>1. Init => InFlight /\ CachesAgree
  BY IdleType DEF Init, InFlight, Pending, CachesAgree
<1>2. HostInv /\ UNCHANGED vars => InFlight' /\ CachesAgree'
  BY DEF HostInv, vars, InFlight, Pending, CachesAgree
<1>3. TypeInv /\ (InFlight /\ CachesAgree) /\ [Next]_vars => (InFlight /\ CachesAgree)'
  BY <1>2, InFlightStep, CachesStep DEF HostInv
<1>4. QED
  BY <1>1, <1>3, TypeInvariant, PTL DEF Spec, HostInv

-----------------------------------------------------------------------------
(* Undoing *)

\* What pop() leaves after append() is the list as it was.
LEMMA FrontOfAppend ==
    ASSUME NEW S, NEW s \in Seq(S), NEW e \in S
    PROVE  Front(Append(s, e)) = s
<1> DEFINE t == Append(s, e)
<1>1. /\ t \in Seq(S) /\ Len(t) = Len(s) + 1 /\ Len(s) \in Nat
      /\ \A i \in 1..Len(s) : t[i] = s[i]
  BY AppendProperties
<1> HIDE DEF t
<1>2. /\ SubSeq(t, 1, Len(s)) \in Seq(S)
      /\ Len(SubSeq(t, 1, Len(s))) = Len(s)
      /\ \A i \in 1..Len(s) : SubSeq(t, 1, Len(s))[i] = t[i]
  <2>1. \A i \in 1..Len(s) : t[i] \in S
    BY <1>1
  <2>2. 1 \in Int /\ Len(s) \in Int
    BY <1>1
  <2>3. QED
    BY <1>1, <2>1, <2>2, SubSeqProperties
<1>3. SubSeq(t, 1, Len(s)) = s
  BY <1>1, <1>2, SeqEqual
<1>4. Front(t) = SubSeq(t, 1, Len(s))
  BY <1>1 DEF Front
<1>5. QED
  BY <1>3, <1>4 DEF t

\* The undo code of a commit whose save failed takes back all it did, the player's
\* latest post apart, which from_dict does not restore.
LEMMA CommitUndone ==
    ASSUME HostInv, CommitRollsBack
    PROVE  live' = Saved(undo.live) /\ rounds' = undo.rounds /\ dedup' = undo.dedup
<1> DEFINE u == undo.live
           r == call.req
<1>1. /\ u \in Sessions /\ live = MoveApplied(u, r, call.commit) /\ r \in Requests
      /\ call.round \in Rounds /\ undo.dedup = u.index /\ u.index[r] = NoAnswer
      /\ rounds = [undo.rounds EXCEPT ![call.round] = RoundMoved(@, call.commit)]
      /\ dedup = live.index
  BY SessionAssumption
     DEF HostInv, InFlight, Pending, CommitRollsBack, TypeInv, CallOK, CachesAgree
<1>2. /\ u.index \in [Requests -> Answers] /\ undo.rounds \in [Rounds -> RoundStates]
  BY <1>1 DEF Sessions, HostInv, TypeInv, TypeOK
<1>3. DedupForgotten(live.index, r) = u.index
  <2>1. \E a : live.index = [u.index EXCEPT ![r] = a]
    BY <1>1 DEF MoveApplied, Sessions
  <2>2. QED
    BY <1>1, <1>2, <2>1 DEF DedupForgotten
<1>4. live' = Saved(u)
  <2>1. live' = CommitRolledBack(live, u, r)
    BY DEF CommitRollsBack
  <2>2. live.audit = u.audit
    BY <1>1 DEF MoveApplied, Sessions
  <2>3. live \in Sessions
    BY CallHasSession DEF CommitRollsBack, HostInv
  <2>4. QED
    BY <1>1, <1>3, <2>1, <2>2, <2>3 DEF CommitRolledBack, ManagerRestored, Saved, Sessions
<1>5. rounds' = undo.rounds
  <2> DEFINE k == call.round
  <2>1. rounds' = [rounds EXCEPT ![k] = RoundRestored(rounds[k], undo.rounds[k])]
    BY DEF CommitRollsBack
  <2>2. undo.rounds[k] \in RoundStates /\ rounds[k] = RoundMoved(undo.rounds[k], call.commit)
    BY <1>1, <1>2
  <2>3. RoundRestored(rounds[k], undo.rounds[k]) = undo.rounds[k]
    BY <2>2 DEF RoundRestored, RoundMoved, RoundStates
  <2>4. QED
    BY <1>1, <1>2, <2>1, <2>3
<1>6. dedup' = undo.dedup
  BY <1>1, <1>3 DEF CommitRollsBack
<1>7. QED
  BY <1>4, <1>5, <1>6

\* So does the undo code of a finalization.
LEMMA FinalizeUndone ==
    ASSUME HostInv, FinalizeFails
    PROVE  live' = Saved(undo.live) /\ rounds' = undo.rounds /\ dedup' = undo.dedup
<1> DEFINE u == undo.live
<1>1. /\ u \in Sessions /\ live = ProposalsFinalized(u, call.commit, call.applied)
      /\ rounds = undo.rounds /\ dedup = undo.dedup /\ call.commit \in 0..MaxIds
      /\ call.applied \in BOOLEAN
  BY DEF HostInv, InFlight, Pending, FinalizeFails, TypeInv, TypeOK, CallOK, HandlerCalls
<1>2. live' = ProposalsUndone(live, u) /\ UNCHANGED <<rounds, dedup>>
  BY DEF FinalizeFails
<1>3. Front(live.audit) = u.audit
  <2>1. live.audit = Append(u.audit, call.commit) /\ u.audit \in Seq(0..MaxIds)
    BY <1>1 DEF ProposalsFinalized, Sessions
  <2>2. \A S : \A s \in Seq(S), e \in S : Front(Append(s, e)) = s
    BY FrontOfAppend
  <2>3. Front(Append(u.audit, call.commit)) = u.audit
    BY <1>1, <2>1, <2>2
  <2>4. QED
    BY <2>1, <2>3
<1>4. live \in Sessions /\ live.turns = u.turns /\ live.ids = u.ids /\ live.count = u.count
      /\ live.index = u.index /\ live.history = u.history /\ live.memory = u.memory
  BY <1>1, ProposalsFinalizedType DEF ProposalsFinalized, Sessions
<1>5. live' = Saved(u)
  BY <1>1, <1>2, <1>3, <1>4 DEF ProposalsUndone, ManagerRestored, Saved, Sessions
<1>6. QED
  BY <1>1, <1>2, <1>5

\* And that of a player turn, which leaves the manager alone.
LEMMA UserTurnTakenBack ==
    ASSUME HostInv, UserTurnFails
    PROVE  live' = undo.live /\ rounds' = undo.rounds /\ dedup' = undo.dedup
<1> DEFINE u == undo.live
           e == Entry("user", 0)
<1>1. u \in Sessions /\ live = UserTurnApplied(u) /\ rounds = undo.rounds /\ dedup = undo.dedup
  BY DEF HostInv, InFlight, Pending, UserTurnFails, TypeInv, CallOK
<1>2. live' = UserTurnUndone(live, u) /\ UNCHANGED <<rounds, dedup>>
  BY DEF UserTurnFails
<1>3. e \in Entries /\ u.history \in Seq(Entries)
  BY <1>1, EntryType, BoundsAssumption DEF Sessions, Kinds
<1>4. Front(Append(u.history, e)) = u.history
  BY <1>3, FrontOfAppend
<1> HIDE DEF e
<1>5. live = [u EXCEPT !.history = Append(@, e), !.memory = Append(@, e)]
  BY <1>1 DEF UserTurnApplied, e
<1>6. live' = u
  BY <1>1, <1>2, <1>4, <1>5 DEF UserTurnUndone, Sessions
<1>7. QED
  BY <1>1, <1>2, <1>6

\* The file form of a session is its own file form.
LEMMA SavedTwice == ASSUME NEW s \in Sessions PROVE Saved(Saved(s)) = Saved(s)
BY DEF Saved, Sessions

\* A commit, a finalization or a player turn whose save failed leaves the session,
\* the rounds and the dedup map as it found them: the undo code misses nothing,
\* under every fault and for every handler that may have come before.
THEOREM FailuresRestore == Spec => FailureRestores
<1>1. HostInv /\ [Next]_vars =>
        [FailureEnds /\ call.op \in {"commit", "finalize", "user"} =>
            /\ Saved(live') = Saved(undo.live)
            /\ rounds' = undo.rounds /\ dedup' = undo.dedup]_vars
  <2>1. SUFFICES ASSUME HostInv, Next, FailureEnds, call.op \in {"commit", "finalize", "user"}
                 PROVE  /\ Saved(live') = Saved(undo.live)
                        /\ rounds' = undo.rounds /\ dedup' = undo.dedup
    OBVIOUS
  <2>2. undo.live \in Sessions /\ call.step = "failed" /\ call'.step = "answer"
    BY <2>1 DEF FailureEnds, HostInv, TypeInv, CallOK
  <2>3. call # Idle /\ call' # Idle /\ call'.step # "index" /\ call'.step # "saved"
    BY <2>2, IdleType
  <2>4. CommitRollsBack \/ FinalizeFails \/ UserTurnFails
    <3>1. ~CommitArrives
      BY <2>3 DEF CommitArrives, CommitUnknownRound, CommitReplayed, CommitMismatched,
                  CommitRefused, CommitApplied, Begin
    <3>2. ~OtherArrives
      BY <2>3 DEF OtherArrives, Create, UserTurn, PlayerSkip, RecordPresentation, OpeningKept,
                  OpeningRecorded, AttachOpeningVisibility, UpdateProvenance, FinalizeAgain,
                  FinalizeProposals, StartRound, BindPackage, Begin, Ready
    <3>3. ~Persist /\ ~Open /\ ~Crash
      BY <2>1, <2>2, <2>3, PersistMoves DEF Open, Crash, HostInv
    <3>4. QED
      BY <2>1, <2>2, <3>1, <3>2, <3>3
         DEF Next, HandlerEnds, SaveFails, CommitSaved, PhaseF, CommitRecorded,
             UserTurnSaved, SaveSucceeds, Reply
  <2>5. QED
    BY <2>1, <2>2, <2>4, CommitUndone, FinalizeUndone, UserTurnTakenBack, SavedTwice
<1>2. QED
  BY <1>1, HandlersInFlight, PTL DEF Spec, FailureRestores

-----------------------------------------------------------------------------
(* The moves of a session, and the ledger they make *)

SameMoves(s, t) == t.turns = s.turns /\ t.ids = s.ids

OneMoreMove(s, t) ==
    \E r \in Requests, id \in Ids :
        /\ t.turns = Append(s.turns, r) /\ t.ids = Append(s.ids, id)
        /\ Expected[r] = Len(s.turns)

\* The file holds the ledger, or the ledger and one move whose save was
\* reported as failed (the index could not be written) or was not reported yet.
FileLeads ==
    live # NoSession => SameMoves(Authority, disk.session) \/ OneMoreMove(Authority, disk.session)

\* Commit ids are drawn once.
Drawn(s, n) ==
    \A i \in 1..Len(s.ids) :
        /\ s.ids[i] <= n
        /\ \A j \in 1..Len(s.ids) : s.ids[i] = s.ids[j] => i = j

IdsDrawn ==
    /\ live # NoSession => Drawn(live, minted)
    /\ Drawn(disk.session, minted)
    /\ undo.live # NoSession => Drawn(undo.live, minted)

\* Only a whole file holds anything.
WholeOrFresh == disk.state = "whole" \/ disk.session = Fresh

LedgerInv == FileLeads /\ IdsDrawn /\ WholeOrFresh

\* What the file and the undo snapshot can become.
LEMMA FileAndUndoMove ==
    ASSUME Next
    PROVE  /\ \/ UNCHANGED disk
              \/ disk' = Torn /\ "tear" \in Faults /\ Persist
              \/ WriteSession /\ Persist /\ disk' = [state |-> "whole", session |-> Saved(live)]
           /\ undo' \in {undo, NothingToUndo, [live |-> live, rounds |-> rounds, dedup |-> dedup]}
           /\ minted' = minted \/ \E r \in Requests, k \in Rounds : CommitApplied(r, k)
<1>1. CASE CommitArrives
  BY <1>1 DEF CommitArrives, CommitUnknownRound, CommitReplayed, CommitMismatched,
              CommitRefused, CommitApplied, Begin
<1>2. CASE OtherArrives
  BY <1>2 DEF OtherArrives, Create, UserTurn, PlayerSkip, RecordPresentation, OpeningKept,
              OpeningRecorded, AttachOpeningVisibility, UpdateProvenance, FinalizeAgain,
              FinalizeProposals, StartRound, BindPackage, Begin
<1>3. CASE Persist
  BY <1>3 DEF Persist, WriteSession, WriteFails, AfterFailedWrite, IndexWritten, IndexFails
<1>4. CASE HandlerEnds
  BY <1>4 DEF HandlerEnds, CommitRollsBack, UserTurnFails, FinalizeFails, SaveFails,
              CommitSaved, CommitRecorded, UserTurnSaved, SaveSucceeds, Reply
<1>5. CASE Open \/ Crash
  BY <1>5 DEF Open, Crash
<1>6. QED
  BY <1>1, <1>2, <1>3, <1>4, <1>5 DEF Next

\* Where the moves of the cached session come from, a commit being applied apart.
LEMMA OldMoves ==
    ASSUME HostInv, Next, live' # NoSession,
           \A r \in Requests, k \in Rounds : ~CommitApplied(r, k)
    PROVE  \/ live # NoSession /\ SameMoves(live, live') /\ ~CommitRollsBack
           \/ CommitRollsBack /\ undo.live # NoSession /\ SameMoves(undo.live, live')
           \/ Open /\ live = NoSession /\ live' = disk.session
           \/ Create /\ live = NoSession /\ live' = Fresh /\ disk.state = "absent"
<1> USE DEF HostInv
<1>1. live \in Sessions \cup {NoSession} /\ undo.live \in Sessions \cup {NoSession}
  BY DEF TypeInv, TypeOK
<1>2. CASE UNCHANGED live /\ ~CommitRollsBack
  BY <1>2 DEF SameMoves
<1>3. CASE CommitArrives
  <2>1. UNCHANGED live /\ call = Idle
    BY <1>3 DEF CommitArrives, CommitUnknownRound, CommitReplayed, CommitMismatched,
                CommitRefused, Begin
  <2>2. QED
    BY <1>2, <2>1, IdleType DEF CommitRollsBack
<1>4. CASE OtherArrives
  <2>1. ~CommitRollsBack
    BY <1>4, IdleType
       DEF CommitRollsBack, OtherArrives, Create, UserTurn, PlayerSkip, RecordPresentation,
           OpeningKept, OpeningRecorded, AttachOpeningVisibility, UpdateProvenance,
           FinalizeAgain, FinalizeProposals, StartRound, BindPackage, Begin, Ready
  <2>2. CASE Create
    BY <2>2 DEF Create, Begin
  <2>3. CASE UserTurn \/ PlayerSkip \/ RecordPresentation \/ OpeningRecorded \/ FinalizeProposals
    <3>1. live \in Sessions /\ live # NoSession
      BY <1>1, <2>3 DEF UserTurn, PlayerSkip, RecordPresentation, OpeningRecorded,
                        FinalizeProposals, Ready
    <3>2. SameLedger(live, live')
      <4>1. CASE UserTurn \/ PlayerSkip \/ OpeningRecorded
        BY <3>1, <4>1, LedgerKept DEF UserTurn, PlayerSkip, OpeningRecorded, Begin
      <4>2. CASE RecordPresentation
        BY <3>1, <4>2, LedgerKept DEF RecordPresentation, Begin
      <4>3. CASE FinalizeProposals
        BY <3>1, <4>3, LedgerKept DEF FinalizeProposals, Begin
      <4>4. QED
        BY <2>3, <4>1, <4>2, <4>3
    <3>3. QED
      BY <2>1, <3>1, <3>2 DEF SameLedger, SameMoves
  <2>4. CASE \/ OpeningKept \/ AttachOpeningVisibility \/ UpdateProvenance \/ FinalizeAgain
             \/ \E k \in Rounds : StartRound(k) \/ BindPackage(k)
    BY <1>2, <2>1, <2>4 DEF OpeningKept, AttachOpeningVisibility, UpdateProvenance,
       FinalizeAgain, StartRound, BindPackage, Begin
  <2>5. QED
    BY <1>4, <2>2, <2>3, <2>4 DEF OtherArrives
<1>5. CASE Persist
  BY <1>2, <1>5, PersistMoves DEF CommitRollsBack
<1>6. CASE CommitRollsBack
  <2>1. undo.live \in Sessions /\ live' = Saved(undo.live)
    BY <1>6, CommitUndone DEF CommitRollsBack, TypeInv, CallOK
  <2>2. QED
    BY <1>6, <2>1, LedgerKept, SessionAssumption DEF SameLedger, SameMoves
<1>7. CASE HandlerEnds /\ ~CommitRollsBack
  <2>1. CASE FinalizeFails
    <3>1. live \in Sessions /\ live # NoSession /\ undo.live \in Sessions
          /\ call.commit \in 0..MaxIds /\ call.applied \in BOOLEAN
      BY <2>1, CallHasSession DEF FinalizeFails, TypeInv, TypeOK, CallOK, HandlerCalls
    <3>2. live = ProposalsFinalized(undo.live, call.commit, call.applied)
      BY <2>1 DEF FinalizeFails, InFlight, Pending
    <3>3. SameLedger(undo.live, live) /\ SameLedger(undo.live, live')
      BY <2>1, <3>1, <3>2, LedgerKept, FinalizeUndone
    <3>4. QED
      BY <1>7, <3>1, <3>3 DEF SameLedger, SameMoves
  <2>2. CASE UserTurnFails \/ UserTurnSaved
    <3>1. live \in Sessions /\ live # NoSession
      BY <2>2, CallHasSession DEF UserTurnFails, UserTurnSaved
    <3>2. SameLedger(live, live')
      BY <2>2, <3>1, LedgerKept DEF UserTurnFails, UserTurnSaved
    <3>3. QED
      BY <1>7, <3>1, <3>2 DEF SameLedger, SameMoves
  <2>3. QED
    BY <1>2, <1>7, <2>1, <2>2
       DEF HandlerEnds, SaveFails, CommitSaved, CommitRecorded, SaveSucceeds, Reply, hostVars
<1>8. CASE Open \/ Crash
  BY <1>8 DEF Open, Crash
<1>9. QED
  BY <1>3, <1>4, <1>5, <1>6, <1>7, <1>8 DEF Next

\* Only a whole file holds anything: a created session is saved into it first.
LEMMA FileStep == ASSUME HostInv, WholeOrFresh, Next PROVE WholeOrFresh'
BY FileAndUndoMove DEF WholeOrFresh, Torn

\* An id drawn is new to every session the host may be left with.
LEMMA IdsStep == ASSUME HostInv, HostInv', IdsDrawn, Next PROVE IdsDrawn'
<1> USE DEF HostInv
<1>1. /\ live # NoSession => live \in Sessions
      /\ live' # NoSession => live' \in Sessions
      /\ disk.session \in Sessions /\ undo.live \in Sessions \cup {NoSession}
      /\ minted \in 0..MaxIds /\ minted' \in 0..MaxIds /\ MaxIds \in Nat
  BY BoundsAssumption DEF TypeInv, TypeOK
<1>2. minted' \in {minted, minted + 1}
  BY FileAndUndoMove DEF CommitApplied
<1>3. ASSUME NEW s \in Sessions, NEW t, Drawn(s, minted), t.ids = s.ids
      PROVE  Drawn(t, minted')
  <2>1. \A i \in 1..Len(s.ids) : s.ids[i] \in Int
    <3>1. s.ids \in Seq(Ids)
      BY <1>3 DEF Sessions
    <3>2. \A i \in 1..Len(s.ids) : s.ids[i] \in Ids
      BY <3>1, ElementOfSeq
    <3>3. QED
      BY <1>1, <3>2 DEF Ids
  <2>2. QED
    BY <1>1, <1>2, <1>3, <2>1 DEF Drawn
<1>4. live' # NoSession => Drawn(live', minted')
  <2>1. CASE \E r \in Requests, k \in Rounds : CommitApplied(r, k)
    <3>1. PICK r \in Requests, k \in Rounds : CommitApplied(r, k)
      BY <2>1
    <3>2. /\ live \in Sessions /\ Drawn(live, minted) /\ minted' = minted + 1
          /\ minted' \in Ids
      BY <1>1, <3>1 DEF CommitApplied, Ready, IdsDrawn, Ids
    <3>3. live'.ids = Append(live.ids, minted') /\ live.ids \in Seq(Ids)
      BY <3>1, <3>2 DEF CommitApplied, Begin, MoveApplied, Sessions
    <3>4. /\ Len(live'.ids) = Len(live.ids) + 1
          /\ \A i \in 1..Len(live.ids) : live'.ids[i] = live.ids[i]
          /\ live'.ids[Len(live.ids) + 1] = minted'
      BY <3>2, <3>3, AppendProperties
    <3>5. \A i \in 1..Len(live.ids) : live.ids[i] \in Int
      <4>1. \A i \in 1..Len(live.ids) : live.ids[i] \in Ids
        BY <3>3, ElementOfSeq
      <4>2. QED
        BY <1>1, <4>1 DEF Ids
    <3>6. QED
      BY <1>1, <3>2, <3>3, <3>4, <3>5 DEF Drawn
  <2>2. CASE \A r \in Requests, k \in Rounds : ~CommitApplied(r, k)
    <3>1. CASE live' = Fresh
      BY <3>1 DEF Drawn, Fresh
    <3>2. CASE live' # Fresh
      BY <1>1, <1>3, <2>2, <3>2, OldMoves DEF IdsDrawn, SameMoves
    <3>3. QED
      BY <3>1, <3>2
  <2>3. QED
    BY <2>1, <2>2
<1>5. Drawn(disk'.session, minted')
  <2>1. CASE disk' = [state |-> "whole", session |-> Saved(live)] /\ WriteSession
    <3>1. live \in Sessions /\ Drawn(live, minted)
      BY <2>1, CallHasSession DEF WriteSession, IdsDrawn
    <3>2. Saved(live).ids = live.ids
      BY <3>1 DEF Saved, Sessions
    <3>3. QED
      BY <1>3, <2>1, <3>1, <3>2
  <2>2. CASE disk' = Torn
    BY <2>2 DEF Torn, Drawn, Fresh
  <2>3. CASE UNCHANGED disk
    BY <1>1, <1>3, <2>3 DEF IdsDrawn
  <2>4. QED
    BY <2>1, <2>2, <2>3, FileAndUndoMove
<1>6. undo'.live # NoSession => Drawn(undo'.live, minted')
  BY <1>1, <1>3, FileAndUndoMove DEF IdsDrawn, NothingToUndo
<1>7. QED
  BY <1>4, <1>5, <1>6 DEF IdsDrawn

\* Only a crash takes the session from the cache.
LEMMA SessionStays ==
    ASSUME TypeInv, Next, live # NoSession, ~Crash
    PROVE  live' # NoSession
<1>1. CASE call'.step # "idle"
  BY <1>1, TypeStep, SessionAssumption DEF TypeInv, CallOK
<1>2. CASE UNCHANGED live
  BY <1>2
<1>3. CASE CommitArrives
  <2>1. PICK r \in Requests, k \in Rounds :
           \/ CommitUnknownRound(r, k) \/ CommitReplayed(r, k)
           \/ CommitMismatched(r, k) \/ CommitRefused(r, k) \/ CommitApplied(r, k)
    BY <1>3 DEF CommitArrives
  <2>2. CASE CommitApplied(r, k)
    <3>1. call'.step = "write"
      BY <2>2, CallsStarted DEF CommitApplied, Begin
    <3>2. QED
      BY <1>1, <3>1
  <2>3. CASE ~CommitApplied(r, k)
    BY <1>2, <2>1, <2>3 DEF CommitUnknownRound, CommitReplayed, CommitMismatched, CommitRefused,
                            Begin
  <2>4. QED
    BY <2>2, <2>3
<1>4. CASE OtherArrives
  <2>1. CASE UserTurn \/ PlayerSkip \/ OpeningRecorded
    <3>1. call'.step = "write"
      BY <2>1, CallsStarted DEF UserTurn, PlayerSkip, OpeningRecorded, Begin, Handlers
    <3>2. QED
      BY <1>1, <3>1
  <2>2. CASE RecordPresentation
    <3>1. call'.step = "write"
      BY <2>2, CallsStarted DEF RecordPresentation, Begin
    <3>2. QED
      BY <1>1, <3>1
  <2>3. CASE FinalizeProposals
    <3>1. call'.step = "write"
      BY <2>3, CallsStarted DEF FinalizeProposals, Begin
    <3>2. QED
      BY <1>1, <3>1
  <2>4. CASE \/ OpeningKept \/ AttachOpeningVisibility \/ UpdateProvenance \/ FinalizeAgain
             \/ \E k \in Rounds : StartRound(k) \/ BindPackage(k)
    BY <1>2, <2>4 DEF OpeningKept, AttachOpeningVisibility, UpdateProvenance, FinalizeAgain,
                      StartRound, BindPackage, Begin
  <2>5. CASE Create
    BY <2>5 DEF Create
  <2>6. QED
    BY <1>4, <2>1, <2>2, <2>3, <2>4, <2>5 DEF OtherArrives
<1>5. CASE Persist
  BY <1>2, <1>5, PersistMoves
<1>6. CASE HandlerEnds
  <2>1. CASE Reply
    BY <1>2, <2>1 DEF Reply, hostVars
  <2>2. CASE ~Reply
    <3>1. \E st \in {"answer", "record"} :
             \/ call' = [call EXCEPT !.step = st]
             \/ \E o : call' = [call EXCEPT !.step = st, !.outcome = o]
      BY <1>6, <2>2
         DEF HandlerEnds, CommitRollsBack, UserTurnFails, FinalizeFails, SaveFails,
             CommitSaved, CommitRecorded, UserTurnSaved, SaveSucceeds, Step, Answer
    <3>2. call'.step \in {"answer", "record"}
      BY <3>1, CallMoves
    <3>3. QED
      BY <1>1, <3>2
  <2>3. QED
    BY <2>1, <2>2
<1>7. CASE Open
  BY <1>7 DEF Open
<1>8. QED
  BY <1>3, <1>4, <1>5, <1>6, <1>7 DEF Next

\* No handler in flight, nothing unsaved.
LEMMA IdleIsSaved == ASSUME call = Idle PROVE ~Unsaved /\ ~Pending
BY IdleType DEF Unsaved, Pending

\* Only a commit that is applied becomes unsaved.
LEMMA ArrivesSaved ==
    ASSUME CommitArrives \/ OtherArrives, \A r \in Requests, k \in Rounds : ~CommitApplied(r, k)
    PROVE  ~Unsaved /\ ~Unsaved'
<1>1. CASE CommitArrives
  <2>1. PICK r \in Requests, k \in Rounds :
           \/ CommitUnknownRound(r, k) \/ CommitReplayed(r, k)
           \/ CommitMismatched(r, k) \/ CommitRefused(r, k)
    BY <1>1 DEF CommitArrives
  <2>2. call = Idle
    BY <2>1 DEF CommitUnknownRound, CommitReplayed, CommitMismatched, CommitRefused, Begin
  <2>3. call'.step \in {"answer", "record"}
    <3>1. CASE CommitUnknownRound(r, k)
      BY <3>1, CallsStarted DEF CommitUnknownRound, Begin
    <3>2. CASE CommitReplayed(r, k)
      BY <3>2, CallsStarted DEF CommitReplayed, Begin
    <3>3. CASE CommitMismatched(r, k)
      BY <3>3, CallsStarted DEF CommitMismatched, Begin
    <3>4. CASE CommitRefused(r, k)
      BY <3>4, CallsStarted DEF CommitRefused, Begin
    <3>5. QED
      BY <2>1, <3>1, <3>2, <3>3, <3>4
  <2>4. QED
    BY <2>2, <2>3, IdleIsSaved DEF Unsaved
<1>2. CASE OtherArrives
  <2>1. CASE \E k \in Rounds : StartRound(k) \/ BindPackage(k)
    BY <2>1, IdleIsSaved DEF StartRound, BindPackage, Ready, Unsaved
  <2>2. CASE \/ Create \/ UserTurn \/ PlayerSkip \/ OpeningKept \/ OpeningRecorded
             \/ AttachOpeningVisibility \/ UpdateProvenance
    <3>1. call = Idle
      BY <2>2 DEF Create, UserTurn, PlayerSkip, OpeningKept, OpeningRecorded,
                  AttachOpeningVisibility, UpdateProvenance, Begin
    <3>2. \E op \in Handlers \ {"commit"} : call' = Writing(op) \/ call' = Answering(op, "ok")
      BY <2>2 DEF Create, UserTurn, PlayerSkip, OpeningKept, OpeningRecorded,
                  AttachOpeningVisibility, UpdateProvenance, Begin, Handlers
    <3>3. call'.op # "commit" \/ call'.step = "answer"
      BY <3>2, CallsStarted
    <3>4. QED
      BY <3>1, <3>3, IdleIsSaved DEF Unsaved
  <2>3. CASE RecordPresentation
    <3>1. call = Idle /\ call'.op = "presentation"
      BY <2>3, CallsStarted DEF RecordPresentation, Begin
    <3>2. QED
      BY <3>1, IdleIsSaved DEF Unsaved
  <2>4. CASE FinalizeAgain
    <3>1. call = Idle /\ call'.op = "finalize"
      BY <2>4, CallsStarted DEF FinalizeAgain, Begin
    <3>2. QED
      BY <3>1, IdleIsSaved DEF Unsaved
  <2>5. CASE FinalizeProposals
    <3>1. call = Idle /\ call'.op = "finalize"
      BY <2>5, CallsStarted DEF FinalizeProposals, Begin
    <3>2. QED
      BY <3>1, IdleIsSaved DEF Unsaved
  <2>6. QED
    BY <1>2, <2>1, <2>2, <2>3, <2>4, <2>5 DEF OtherArrives
<1>3. QED
  BY <1>1, <1>2

\* What the host answers for as its ledger: the moves of the session, but for one
\* whose save is pending, or those of the file, when it leads by a move and a
\* crash, or the end of the save, makes that move count.
LEMMA AuthorityMoves ==
    ASSUME HostInv, UndoReady, WholeOrFresh, Next
    PROVE  \/ SameMoves(Authority, Authority')
           \/ live # NoSession /\ SameMoves(disk.session, Authority') /\ UNCHANGED <<disk, acked>>
<1> USE DEF HostInv
<1>1. /\ live # NoSession => live \in Sessions
      /\ disk.session \in Sessions
  BY DEF TypeInv, TypeOK
<1>2. CASE \E r \in Requests, k \in Rounds : CommitApplied(r, k)
  <2>1. PICK r \in Requests, k \in Rounds : CommitApplied(r, k)
    BY <1>2
  <2>2. /\ live # NoSession /\ ~Unsaved /\ undo'.live = live
    BY <2>1, IdleType DEF CommitApplied, Ready, Begin, Unsaved
  <2>3. Unsaved'
    BY <2>1, CallsStarted DEF CommitApplied, Begin, Unsaved
  <2>4. live' # NoSession
    <3>1. ~Crash
      BY <2>3, IdleIsSaved, IdleType DEF Crash, Unsaved
    <3>2. QED
      BY <2>2, <3>1, SessionStays
  <2>5. QED
    BY <2>2, <2>3, <2>4 DEF Authority, SameMoves
<1>3. CASE Persist
  <2>1. live # NoSession /\ UNCHANGED <<live, undo, acked>> /\ call'.op = call.op
    BY <1>3, PersistMoves, CallHasSession DEF Pending
  <2>2. CASE Unsaved' <=> Unsaved
    BY <2>1, <2>2 DEF Authority, SameMoves
  <2>3. CASE ~(Unsaved' <=> Unsaved)
    <3>1. call'.step = "saved" /\ call.step = "index" /\ UNCHANGED disk /\ ~Unsaved'
      BY <1>3, <2>3, PersistMoves DEF Unsaved, Pending
    <3>2. disk.session = Saved(live)
      BY <3>1 DEF UndoReady
    <3>3. SameMoves(disk.session, live)
      BY <1>1, <2>1, <3>2 DEF Saved, SameMoves, Sessions
    <3>4. QED
      BY <2>1, <3>1, <3>3 DEF Authority
  <2>4. QED
    BY <2>2, <2>3
<1>4. CASE Crash
  <2>1. live' = NoSession /\ UNCHANGED <<disk, acked>>
    BY <1>4 DEF Crash, clientVars
  <2>2. QED
    BY <2>1 DEF Authority, SameMoves
<1>5. CASE CommitRollsBack
  <2>1. live # NoSession /\ Unsaved /\ ~Unsaved'
    BY <1>5, CallHasSession, EndsMove DEF CommitRollsBack, Unsaved, HandlerEnds, Pending
  <2>2. live' # NoSession /\ SameMoves(undo.live, live')
    <3>1. undo.live \in Sessions /\ live' = Saved(undo.live)
      BY <1>5, CommitUndone DEF CommitRollsBack, TypeInv, CallOK
    <3>2. QED
      BY <3>1, SavedType, LedgerKept, SessionAssumption DEF SameLedger, SameMoves
  <2>3. QED
    BY <2>1, <2>2 DEF Authority
<1>6. CASE /\ \A r \in Requests, k \in Rounds : ~CommitApplied(r, k)
           /\ ~Persist /\ ~Crash /\ ~CommitRollsBack
  <2>1. ~Unsaved /\ ~Unsaved'
    <3>1. CASE CommitArrives \/ OtherArrives
      BY <1>6, <3>1, ArrivesSaved
    <3>2. CASE HandlerEnds
      BY <1>6, <3>2, EndsMove
         DEF HandlerEnds, UserTurnFails, FinalizeFails, SaveFails, CommitSaved, PhaseF,
             CommitRecorded, UserTurnSaved, SaveSucceeds, Reply, Unsaved, Pending
    <3>3. CASE Open
      BY <3>3, IdleIsSaved DEF Open, Unsaved
    <3>4. QED
      BY <1>6, <3>1, <3>2, <3>3 DEF Next
  <2>2. CASE live # NoSession
    <3>1. live' # NoSession
      BY <1>6, <2>2, SessionStays
    <3>2. SameMoves(live, live')
      BY <1>6, <2>2, <3>1, OldMoves
    <3>3. QED
      BY <2>1, <2>2, <3>1, <3>2 DEF Authority
  <2>3. CASE live = NoSession /\ live' = NoSession
    <3>1. UNCHANGED disk
      BY <1>6, FileAndUndoMove
    <3>2. QED
      BY <2>3, <3>1 DEF Authority, SameMoves
  <2>4. CASE live = NoSession /\ live' # NoSession
    <3>1. UNCHANGED disk
      BY <1>6, FileAndUndoMove
    <3>2. live' = disk.session
      BY <1>6, <2>4, OldMoves DEF WholeOrFresh
    <3>3. QED
      BY <2>1, <2>4, <3>1, <3>2 DEF Authority, SameMoves
  <2>5. QED
    BY <2>2, <2>3, <2>4
<1>7. QED
  BY <1>2, <1>3, <1>4, <1>5, <1>6

\* A move is never taken back from the file, nor added to it unless it follows
\* the ledger: the file leads by the commit being saved and by nothing else.
LEMMA FileLeadsStep ==
    ASSUME HostInv, UndoReady, LedgerInv, Next, "tear" \notin Faults
    PROVE  FileLeads'
<1> USE DEF HostInv, LedgerInv
<1>1. CASE live' = NoSession
  BY <1>1 DEF FileLeads
<1>2. CASE WriteSession /\ Persist /\ disk' = [state |-> "whole", session |-> Saved(live)]
  <2>1. live \in Sessions /\ live # NoSession /\ UNCHANGED <<live, undo>>
    BY <1>2, CallHasSession, PersistMoves DEF WriteSession
  <2>2. Unsaved' <=> Unsaved
    BY <1>2, CallMoves DEF WriteSession, Step, Unsaved
  <2>3. SameMoves(live, disk'.session)
    BY <1>2, <2>1 DEF Saved, SameMoves, Sessions
  <2>4. CASE ~Unsaved
    BY <2>1, <2>2, <2>3, <2>4 DEF FileLeads, Authority
  <2>5. CASE Unsaved
    <3>1. /\ undo.live \in Sessions /\ call.req \in Requests /\ call.commit \in Ids
          /\ live = MoveApplied(undo.live, call.req, call.commit)
          /\ Expected[call.req] = Len(undo.live.turns)
      BY <2>5 DEF Unsaved, Pending, InFlight, TurnCounter, TypeInv, CallOK
    <3>2. /\ live.turns = Append(undo.live.turns, call.req)
          /\ live.ids = Append(undo.live.ids, call.commit)
      BY <3>1 DEF MoveApplied, Sessions
    <3>3. OneMoreMove(undo.live, disk'.session)
      BY <2>3, <3>1, <3>2 DEF OneMoreMove, SameMoves
    <3>4. QED
      BY <2>1, <2>2, <2>5, <3>3 DEF FileLeads, Authority
  <2>6. QED
    BY <2>4, <2>5
<1>3. CASE UNCHANGED disk /\ live' # NoSession
  <2>1. CASE SameMoves(Authority, Authority')
    <3>1. SameMoves(Authority, disk.session) \/ OneMoreMove(Authority, disk.session)
      BY DEF FileLeads, Authority, SameMoves
    <3>2. QED
      BY <1>3, <2>1, <3>1 DEF FileLeads, SameMoves, OneMoreMove
  <2>2. CASE SameMoves(disk.session, Authority')
    BY <1>3, <2>2 DEF FileLeads, SameMoves
  <2>3. QED
    BY <2>1, <2>2, AuthorityMoves
<1>4. QED
  BY <1>1, <1>2, <1>3, FileAndUndoMove

\* The file leads the ledger by at most one move, and every id is drawn once.
THEOREM LedgerInvariant ==
    ASSUME "tear" \notin Faults
    PROVE  Spec => []LedgerInv
<1>1. Init => LedgerInv
  BY BoundsAssumption
     DEF Init, LedgerInv, FileLeads, IdsDrawn, WholeOrFresh, Absent, Fresh, Drawn, NothingToUndo
<1>2. LedgerInv /\ UNCHANGED vars => LedgerInv'
  BY DEF LedgerInv, vars, FileLeads, IdsDrawn, WholeOrFresh, Authority, Unsaved, Drawn,
         SameMoves, OneMoreMove
<1>3. HostInv /\ HostInv' /\ DurabilityInv /\ LedgerInv /\ [Next]_vars => LedgerInv'
  BY <1>2, FileLeadsStep, IdsStep, FileStep DEF LedgerInv, DurabilityInv
<1>4. QED
  BY <1>1, <1>3, HandlersInFlight, LedgerIsDurable, PTL DEF Spec

-----------------------------------------------------------------------------
(* Answers, and the ledger they report *)

\* Two commit answers that share a turn, a request or an id are one answer.
THEOREM AnswersAgree ==
    ASSUME "tear" \notin Faults
    PROVE  Spec => []AgreedAnswers
<1>1. TypeInv /\ CommitsAreDurable /\ DurabilityInv /\ LedgerInv => AgreedAnswers
  <2>1. SUFFICES ASSUME TypeInv, CommitsAreDurable, DurabilityInv, LedgerInv,
                        NEW a \in acked, NEW b \in acked,
                        a.turn = b.turn \/ a.req = b.req \/ a.id = b.id
                 PROVE  a = b
    BY DEF AgreedAnswers
  <2> DEFINE s == disk.session
  <2>2. /\ a \in [req : Requests, id : 0..MaxIds, turn : Nat]
        /\ b \in [req : Requests, id : 0..MaxIds, turn : Nat]
        /\ s \in Sessions
    BY <2>1 DEF TypeInv, TypeOK
  <2>3. Durable(a) /\ Durable(b)
    BY <2>1 DEF CommitsAreDurable
  <2>4. CASE a.turn = b.turn
    BY <2>2, <2>3, <2>4 DEF Durable
  <2>5. CASE a.req = b.req
    <3>1. s.index[a.req] = [id |-> a.id, turn |-> a.turn]
          /\ s.index[b.req] = [id |-> b.id, turn |-> b.turn]
      BY <2>3 DEF Durable
    <3>2. QED
      BY <2>2, <2>5, <3>1
  <2>6. CASE a.id = b.id
    <3>1. /\ s.ids[a.turn] = s.ids[b.turn]
          /\ a.turn \in 1..Len(s.turns) /\ b.turn \in 1..Len(s.turns)
      BY <2>3, <2>6 DEF Durable
    <3>2. Len(s.ids) = Len(s.turns)
      BY <2>1 DEF DurabilityInv, SoundSessions, Sound
    <3>3. a.turn = b.turn
      BY <2>1, <3>1, <3>2 DEF LedgerInv, IdsDrawn, Drawn
    <3>4. QED
      BY <2>4, <3>3
  <2>7. QED
    BY <2>1, <2>4, <2>5, <2>6
<1>2. QED
  BY <1>1, CommitsStayDurable, LedgerIsDurable, LedgerInvariant, TypeInvariant, PTL

\* The moves of a session, as the ledger lists them.
MovesOf(s) == [i \in 1..Len(s.turns) |-> [req |-> s.turns[i], id |-> s.ids[i]]]

\* The session the host answers for is one of its sessions, and an anchored one.
LEMMA AuthorityIsSession ==
    ASSUME HostInv
    PROVE  Authority \in Sessions
<1>1. Unsaved => undo.live \in Sessions
  BY DEF Unsaved, HostInv, TypeInv, CallOK
<1>2. QED
  BY <1>1 DEF Authority, HostInv, TypeInv, TypeOK

\* Sessions with the same moves have the same ledger.
LEMMA SameLedgers ==
    ASSUME NEW s, NEW t, SameMoves(s, t)
    PROVE  MovesOf(t) = MovesOf(s)
BY DEF SameMoves, MovesOf

\* The move by which the file leads follows the ledger, is new to it, and was
\* computed for the turn it takes.
LEMMA LeadingMoveHappens ==
    ASSUME NEW s \in Sessions, NEW t \in Sessions, NEW n, OneMoreMove(s, t),
           Anchors(t), Drawn(t, n), Len(s.ids) = Len(s.turns)
    PROVE  \E r \in Requests, id \in Ids :
              /\ Len(MovesOf(s)) = Expected[r]
              /\ \A i \in 1..Len(MovesOf(s)) : MovesOf(s)[i].req # r /\ MovesOf(s)[i].id # id
              /\ MovesOf(t) = Append(MovesOf(s), [req |-> r, id |-> id])
<1>1. PICK r \in Requests, id \in Ids :
         /\ t.turns = Append(s.turns, r) /\ t.ids = Append(s.ids, id)
         /\ Expected[r] = Len(s.turns)
  BY DEF OneMoreMove
<1> DEFINE n1 == Len(s.turns)
           M == [req : Requests, id : Ids]
           m == [req |-> r, id |-> id]
<1>2. s.turns \in Seq(Requests) /\ s.ids \in Seq(Ids) /\ n1 \in Nat
  BY DEF Sessions
<1>3. /\ Len(t.turns) = n1 + 1 /\ Len(t.ids) = n1 + 1
      /\ \A i \in 1..n1 : t.turns[i] = s.turns[i] /\ t.ids[i] = s.ids[i]
      /\ t.turns[n1 + 1] = r /\ t.ids[n1 + 1] = id
  BY <1>1, <1>2, AppendProperties
<1>4. \A i \in 1..n1 : s.turns[i] \in Requests /\ s.ids[i] \in Ids
  BY <1>2, ElementOfSeq
<1>5. MovesOf(s) \in Seq(M) /\ Len(MovesOf(s)) = n1
      /\ \A i \in 1..n1 : MovesOf(s)[i] = [req |-> s.turns[i], id |-> s.ids[i]]
  <2>1. \A i \in 1..n1 : [req |-> s.turns[i], id |-> s.ids[i]] \in M
    BY <1>4
  <2>2. [i \in 1..n1 |-> [req |-> s.turns[i], id |-> s.ids[i]]] \in Seq(M)
    BY <1>2, <2>1, IsASeq
  <2>3. QED
    BY <1>2, <2>2 DEF MovesOf
<1>6. MovesOf(t) \in Seq(M) /\ Len(MovesOf(t)) = n1 + 1
      /\ \A i \in 1..(n1 + 1) : MovesOf(t)[i] = [req |-> t.turns[i], id |-> t.ids[i]]
  <2>1. \A i \in 1..(n1 + 1) : [req |-> t.turns[i], id |-> t.ids[i]] \in M
    BY <1>2, <1>3, <1>4
  <2>2. n1 + 1 \in Nat
    BY <1>2
  <2>3. [i \in 1..(n1 + 1) |-> [req |-> t.turns[i], id |-> t.ids[i]]] \in Seq(M)
    BY <2>1, <2>2, IsASeq
  <2>4. QED
    BY <1>2, <1>3, <2>3 DEF MovesOf
<1>7. /\ Append(MovesOf(s), m) \in Seq(M)
      /\ Len(Append(MovesOf(s), m)) = n1 + 1
      /\ \A i \in 1..n1 : Append(MovesOf(s), m)[i] = MovesOf(s)[i]
      /\ Append(MovesOf(s), m)[n1 + 1] = m
  BY <1>5, AppendProperties
<1>8. MovesOf(t) = Append(MovesOf(s), m)
  <2>1. \A i \in 1..(n1 + 1) : MovesOf(t)[i] = Append(MovesOf(s), m)[i]
    <3>1. SUFFICES ASSUME NEW i \in 1..(n1 + 1)
                   PROVE  MovesOf(t)[i] = Append(MovesOf(s), m)[i]
      OBVIOUS
    <3>2. CASE i = n1 + 1
      BY <1>3, <1>6, <1>7, <3>2
    <3>3. CASE i # n1 + 1
      <4>1. i \in 1..n1
        BY <1>2, <3>3
      <4>2. MovesOf(t)[i] = [req |-> s.turns[i], id |-> s.ids[i]]
        BY <1>3, <1>6, <4>1
      <4>3. Append(MovesOf(s), m)[i] = [req |-> s.turns[i], id |-> s.ids[i]]
        BY <1>5, <1>7, <4>1
      <4>4. QED
        BY <4>2, <4>3
    <3>4. QED
      BY <3>2, <3>3
  <2>2. QED
    BY <1>6, <1>7, <2>1, SeqEqual
<1>9. \A i \in 1..n1 : MovesOf(s)[i].req # r /\ MovesOf(s)[i].id # id
  <2>1. SUFFICES ASSUME NEW i \in 1..n1 PROVE s.turns[i] # r /\ s.ids[i] # id
    <3>1. ASSUME NEW i \in 1..n1
          PROVE  MovesOf(s)[i].req = s.turns[i] /\ MovesOf(s)[i].id = s.ids[i]
      <4>1. MovesOf(s)[i] = [req |-> s.turns[i], id |-> s.ids[i]]
        BY <1>5
      <4>2. QED
        BY <4>1
    <3>2. QED
      BY <3>1
  <2>2. i \in 1..Len(t.turns) /\ n1 + 1 \in 1..Len(t.turns) /\ i # n1 + 1
    BY <1>2, <1>3
  <2>3. s.turns[i] # r
    BY <1>3, <2>2, AnchorsAlone DEF AnchoredSession
  <2>4. s.ids[i] # id
    BY <1>3, <2>2 DEF Drawn
  <2>5. QED
    BY <2>3, <2>4
<1>10. QED
  BY <1>1, <1>5, <1>8, <1>9

\* Only the answer to a commit adds to what callers were told.
LEMMA AckedMoves ==
    ASSUME Next
    PROVE  UNCHANGED acked \/ (Reply /\ call.outcome = "committed")
<1>1. CASE CommitArrives
  BY <1>1 DEF CommitArrives, CommitUnknownRound, CommitReplayed, CommitMismatched,
              CommitRefused, CommitApplied, clientVars
<1>2. CASE OtherArrives
  BY <1>2 DEF OtherArrives, Create, UserTurn, PlayerSkip, RecordPresentation, OpeningKept,
              OpeningRecorded, AttachOpeningVisibility, UpdateProvenance, FinalizeAgain,
              FinalizeProposals, StartRound, BindPackage, clientVars
<1>3. CASE Persist \/ Open \/ Crash
  BY <1>3 DEF Persist, WriteSession, WriteFails, IndexWritten, IndexFails, Open, Crash,
              clientVars
<1>4. CASE HandlerEnds
  BY <1>4 DEF HandlerEnds, CommitRollsBack, UserTurnFails, FinalizeFails, SaveFails,
              CommitSaved, CommitRecorded, UserTurnSaved, SaveSucceeds, Reply, clientVars
<1>5. QED
  BY <1>1, <1>2, <1>3, <1>4 DEF Next

\* The rounds, caches, retries, failures and restarts of the host implement the
\* ledger: it grows by one move at the turn that move was computed for, nothing
\* leaves it, and every answer reports a move that is in it.
THEOREM HostImplementsLedger ==
    ASSUME "tear" \notin Faults
    PROVE  Spec => ImplementsLedger
<1>1. Init => Ledger!LedgerInit
  BY DEF Init, Ledger!LedgerInit, Authority, Absent, Fresh
<1>2. /\ HostInv /\ HostInv' /\ DurabilityInv /\ LedgerInv /\ AnchorInv
      /\ [Next]_vars
      => [Ledger!LedgerNext]_(Ledger!ledgerVars)
  <2>1. SUFFICES ASSUME HostInv, HostInv', DurabilityInv, LedgerInv, AnchorInv, [Next]_vars
                 PROVE  [Ledger!LedgerNext]_(Ledger!ledgerVars)
    OBVIOUS
  <2>2. CASE UNCHANGED vars
    BY <2>2 DEF vars, Ledger!ledgerVars, Authority, Unsaved
  <2> DEFINE led == [i \in 1..Len(Authority.turns) |->
                        [req |-> Authority.turns[i], id |-> Authority.ids[i]]]
  <2>3. CASE Next /\ SameMoves(Authority, Authority')
    <3>1. led' = led
      BY <2>3 DEF SameMoves
    <3>2. CASE UNCHANGED acked
      BY <3>1, <3>2 DEF Ledger!ledgerVars
    <3>3. CASE Reply /\ call.outcome = "committed"
      <4>1. /\ live \in Sessions /\ live # NoSession /\ ~Unsaved /\ call.req \in Requests
        BY <2>1, <3>3, CallHasSession DEF Reply, Unsaved, HostInv, TypeInv, CallOK
      <4>2. Authority = live
        BY <4>1 DEF Authority
      <4> DEFINE a == live.index[call.req]
      <4>3. a # NoAnswer /\ Holds(live, call.req, a) /\ dedup[call.req] = a
        BY <2>1, <3>3, <4>1
           DEF DurabilityInv, SoundSessions, Sound, UndoReady, HostInv, CachesAgree
      <4>4. acked' = acked \cup {[req |-> call.req, id |-> a.id, turn |-> a.turn]}
        BY <3>3, <4>3 DEF Reply
      <4>5. a.turn \in 1..Len(led) /\ led[a.turn] = [req |-> call.req, id |-> a.id]
        BY <4>1, <4>2, <4>3 DEF Holds, Sessions
      <4>6. Ledger!Acknowledge(a.turn)
        <5>1. Ledger!Recorded(led[a.turn], a.turn)
                = [req |-> call.req, id |-> a.id, turn |-> a.turn]
          BY <4>5 DEF Ledger!Recorded
        <5> HIDE DEF led
        <5>2. UNCHANGED led /\ acked' = acked \cup {Ledger!Recorded(led[a.turn], a.turn)}
          BY <3>1, <4>4, <5>1
        <5>3. QED
          BY <5>2 DEF Ledger!Acknowledge, led
      <4>7. QED
        BY <4>5, <4>6 DEF Ledger!LedgerNext
    <3>4. QED
      BY <2>3, <3>2, <3>3, AckedMoves
  <2>4. CASE Next /\ live # NoSession /\ SameMoves(disk.session, Authority') /\ UNCHANGED <<disk, acked>>
    <3>1. led' = MovesOf(disk.session) /\ led = MovesOf(Authority)
      BY <2>4 DEF SameMoves, MovesOf
    <3>2. /\ Authority \in Sessions /\ disk.session \in Sessions
          /\ Anchors(disk.session) /\ Drawn(disk.session, minted)
      BY <2>1, AuthorityIsSession DEF HostInv, TypeInv, TypeOK, AnchorInv, LedgerInv, IdsDrawn
    <3>3. Len(Authority.ids) = Len(Authority.turns)
      <4>1. Unsaved => undo.live # NoSession
        BY <2>1, SessionAssumption DEF Unsaved, HostInv, TypeInv, CallOK
      <4>2. QED
        BY <2>1, <4>1 DEF DurabilityInv, SoundSessions, Sound, Authority
    <3>4. CASE SameMoves(Authority, disk.session)
      <4>1. led' = led
        BY <3>1, <3>4, SameLedgers
      <4>2. QED
        BY <2>4, <4>1 DEF Ledger!ledgerVars
    <3>5. CASE OneMoreMove(Authority, disk.session)
      <4>1. PICK r \in Requests, id \in Ids :
               /\ Len(MovesOf(Authority)) = Expected[r]
               /\ \A i \in 1..Len(MovesOf(Authority)) :
                     MovesOf(Authority)[i].req # r /\ MovesOf(Authority)[i].id # id
               /\ MovesOf(disk.session) = Append(MovesOf(Authority), [req |-> r, id |-> id])
        BY <3>2, <3>3, <3>5, LeadingMoveHappens
      <4>2. Ledger!Happen(r, id)
        BY <2>4, <3>1, <4>1 DEF Ledger!Happen
      <4>3. QED
        BY <4>2 DEF Ledger!LedgerNext
    <3>6. QED
      BY <2>1, <2>4, <3>4, <3>5 DEF LedgerInv, FileLeads
  <2>5. QED
    BY <2>1, <2>2, <2>3, <2>4, AuthorityMoves DEF DurabilityInv, LedgerInv
<1>3. QED
  BY <1>1, <1>2, HandlersInFlight, LedgerIsDurable, LedgerInvariant, AnchorInvariant, PTL
     DEF Spec, ImplementsLedger, Ledger!LedgerSpec

-----------------------------------------------------------------------------
(* Decisions *)

\* The session without a decision that is being saved.
Settled == IF Pending /\ call.op = "finalize" THEN undo.live ELSE live

DecisionInv ==
    /\ finalized \subseteq ToSet(disk.session.audit)
    /\ live # NoSession =>
          /\ finalized \subseteq ToSet(Settled.audit)
          /\ ToSet(Settled.audit) \subseteq ToSet(disk.session.audit)
    /\ /\ call.op = "finalize"
       /\ call.step = "saved" \/ (call.step = "answer" /\ call.outcome # "error")
       => call.commit \in ToSet(live.audit)

\* What append() adds to a list is what it adds to the set of its elements.
LEMMA ToSetOfAppend ==
    ASSUME NEW S, NEW s \in Seq(S), NEW e \in S
    PROVE  ToSet(Append(s, e)) = ToSet(s) \cup {e}
<1> DEFINE t == Append(s, e)
<1>1. /\ t \in Seq(S) /\ Len(t) = Len(s) + 1 /\ Len(s) \in Nat
      /\ \A i \in 1..Len(s) : t[i] = s[i]
      /\ t[Len(s) + 1] = e
  BY AppendProperties
<1>2. DOMAIN t = 1..Len(t) /\ DOMAIN s = 1..Len(s)
  BY <1>1, LenProperties
<1> HIDE DEF t
<1>3. ASSUME NEW x \in ToSet(t) PROVE x \in ToSet(s) \cup {e}
  <2>1. PICK i \in 1..Len(t) : x = t[i]
    BY <1>2, <1>3 DEF ToSet
  <2>2. CASE i = Len(s) + 1
    BY <1>1, <2>1, <2>2
  <2>3. CASE i # Len(s) + 1
    <3>1. i \in 1..Len(s)
      BY <1>1, <2>3
    <3>2. QED
      BY <1>1, <1>2, <2>1, <3>1 DEF ToSet
  <2>4. QED
    BY <2>2, <2>3
<1>4. ASSUME NEW x \in ToSet(s) PROVE x \in ToSet(t)
  <2>1. PICK i \in 1..Len(s) : x = s[i]
    BY <1>2, <1>4 DEF ToSet
  <2>2. i \in 1..Len(t) /\ t[i] = x
    BY <1>1, <2>1
  <2>3. QED
    BY <1>2, <2>2 DEF ToSet
<1>5. e \in ToSet(t)
  <2>1. Len(s) + 1 \in 1..Len(t)
    BY <1>1
  <2>2. QED
    BY <1>1, <1>2, <2>1 DEF ToSet
<1>6. QED
  BY <1>3, <1>4, <1>5 DEF t

\* A finalization adds the commit it decides to the audit log, and nothing else.
LEMMA AuditOfFinalized ==
    ASSUME NEW s \in Sessions, NEW id \in 0..MaxIds, NEW b \in BOOLEAN
    PROVE  ToSet(ProposalsFinalized(s, id, b).audit) = ToSet(s.audit) \cup {id}
<1>1. ProposalsFinalized(s, id, b).audit = Append(s.audit, id) /\ s.audit \in Seq(0..MaxIds)
  BY DEF ProposalsFinalized, Sessions
<1> DEFINE S == 0..MaxIds
<1>2. s.audit \in Seq(S) /\ id \in S
  BY <1>1
<1> HIDE DEF S
<1>3. ToSet(Append(s.audit, id)) = ToSet(s.audit) \cup {id}
  BY <1>2, ToSetOfAppend
<1>4. QED
  BY <1>1, <1>3

\* Nothing but a finalization, or its undoing, changes the audit log.
LEMMA OldAudits ==
    ASSUME HostInv, Next, live # NoSession, ~Crash, ~FinalizeProposals, ~FinalizeFails
    PROVE  live'.audit = live.audit
<1> USE DEF HostInv
<1>1. live \in Sessions
  BY DEF TypeInv, TypeOK
<1>2. CASE UNCHANGED live
  BY <1>2
<1>3. CASE CommitArrives
  <2>1. PICK r \in Requests, k \in Rounds :
           \/ CommitUnknownRound(r, k) \/ CommitReplayed(r, k)
           \/ CommitMismatched(r, k) \/ CommitRefused(r, k) \/ CommitApplied(r, k)
    BY <1>3 DEF CommitArrives
  <2>2. CASE CommitApplied(r, k)
    BY <1>1, <2>2 DEF CommitApplied, Begin, MoveApplied, Sessions
  <2>3. CASE ~CommitApplied(r, k)
    BY <1>2, <2>1, <2>3 DEF CommitUnknownRound, CommitReplayed, CommitMismatched, CommitRefused,
                            Begin
  <2>4. QED
    BY <2>2, <2>3
<1>4. CASE OtherArrives
  <2>1. CASE UserTurn
    BY <1>1, <2>1 DEF UserTurn, Begin, UserTurnApplied, Sessions
  <2>2. CASE PlayerSkip \/ RecordPresentation \/ OpeningRecorded
    BY <1>1, <2>2 DEF PlayerSkip, RecordPresentation, OpeningRecorded, Begin, EntryAppended,
                      Sessions
  <2>3. CASE Create
    BY <2>3 DEF Create
  <2>4. CASE \/ OpeningKept \/ AttachOpeningVisibility \/ UpdateProvenance \/ FinalizeAgain
             \/ \E k \in Rounds : StartRound(k) \/ BindPackage(k)
    BY <1>2, <2>4 DEF OpeningKept, AttachOpeningVisibility, UpdateProvenance, FinalizeAgain,
                      StartRound, BindPackage, Begin
  <2>5. QED
    BY <1>4, <2>1, <2>2, <2>3, <2>4 DEF OtherArrives
<1>5. CASE Persist
  BY <1>2, <1>5, PersistMoves
<1>6. CASE HandlerEnds
  <2>1. CASE CommitRollsBack
    BY <1>1, <2>1 DEF CommitRollsBack, CommitRolledBack, ManagerRestored, Sessions
  <2>2. CASE UserTurnFails
    BY <1>1, <2>2 DEF UserTurnFails, UserTurnUndone, Sessions
  <2>3. CASE UserTurnSaved
    BY <1>1, <2>3 DEF UserTurnSaved, PlayerContributionNoted, Sessions
  <2>4. QED
    BY <1>2, <1>6, <2>1, <2>2, <2>3
       DEF HandlerEnds, SaveFails, CommitSaved, CommitRecorded, SaveSucceeds, Reply, hostVars
<1>7. CASE Open
  BY <1>7 DEF Open
<1>8. QED
  BY <1>3, <1>4, <1>5, <1>6, <1>7 DEF Next

Deciding == Pending /\ call.op = "finalize"

\* Only a finalization becomes a decision that is being saved.
LEMMA ArrivesUndecided ==
    ASSUME CommitArrives \/ OtherArrives, ~FinalizeProposals
    PROVE  ~Deciding /\ ~Deciding'
<1>1. CASE CommitArrives
  <2>1. PICK r \in Requests, k \in Rounds :
           \/ CommitUnknownRound(r, k) \/ CommitReplayed(r, k)
           \/ CommitMismatched(r, k) \/ CommitRefused(r, k) \/ CommitApplied(r, k)
    BY <1>1 DEF CommitArrives
  <2>2. call = Idle
    BY <2>1 DEF CommitUnknownRound, CommitReplayed, CommitMismatched, CommitRefused,
                CommitApplied, Begin
  <2>3. call'.op = "commit"
    <3>1. CASE CommitUnknownRound(r, k)
      BY <3>1, CallsStarted DEF CommitUnknownRound, Begin
    <3>2. CASE CommitReplayed(r, k)
      BY <3>2, CallsStarted DEF CommitReplayed, Begin
    <3>3. CASE CommitMismatched(r, k)
      BY <3>3, CallsStarted DEF CommitMismatched, Begin
    <3>4. CASE CommitRefused(r, k)
      BY <3>4, CallsStarted DEF CommitRefused, Begin
    <3>5. CASE CommitApplied(r, k)
      BY <3>5, CallsStarted DEF CommitApplied, Begin
    <3>6. QED
      BY <2>1, <3>1, <3>2, <3>3, <3>4, <3>5
  <2>4. QED
    BY <2>2, <2>3, IdleIsSaved DEF Deciding
<1>2. CASE OtherArrives
  <2>1. CASE \E k \in Rounds : StartRound(k) \/ BindPackage(k)
    BY <2>1, IdleIsSaved DEF StartRound, BindPackage, Ready, Deciding, Pending
  <2>2. CASE \/ Create \/ UserTurn \/ PlayerSkip \/ OpeningKept \/ OpeningRecorded
             \/ AttachOpeningVisibility \/ UpdateProvenance
    <3>1. call = Idle
      BY <2>2 DEF Create, UserTurn, PlayerSkip, OpeningKept, OpeningRecorded,
                  AttachOpeningVisibility, UpdateProvenance, Begin
    <3>2. \E op \in Handlers \ {"finalize"} : call' = Writing(op) \/ call' = Answering(op, "ok")
      BY <2>2 DEF Create, UserTurn, PlayerSkip, OpeningKept, OpeningRecorded,
                  AttachOpeningVisibility, UpdateProvenance, Begin, Handlers
    <3>3. call'.op # "finalize" \/ call'.step = "answer"
      BY <3>2, CallsStarted
    <3>4. QED
      BY <3>1, <3>3, IdleIsSaved DEF Deciding, Pending
  <2>3. CASE RecordPresentation
    <3>1. call = Idle /\ call'.op = "presentation"
      BY <2>3, CallsStarted DEF RecordPresentation, Begin
    <3>2. QED
      BY <3>1, IdleIsSaved DEF Deciding
  <2>4. CASE FinalizeAgain
    <3>1. call = Idle /\ call'.step = "answer"
      BY <2>4, CallsStarted DEF FinalizeAgain, Begin
    <3>2. QED
      BY <3>1, IdleIsSaved DEF Deciding, Pending
  <2>5. QED
    BY <1>2, <2>1, <2>2, <2>3, <2>4 DEF OtherArrives
<1>3. QED
  BY <1>1, <1>2

\* The decisions the host answers for: those of the session, but for one whose
\* save is pending, or those of the file when a restart, or the end of that save,
\* makes it count.
LEMMA DecisionsMove ==
    ASSUME HostInv, UndoReady, WholeOrFresh, Next, live' # NoSession
    PROVE  \/ live # NoSession /\ Settled'.audit = Settled.audit
           \/ Settled'.audit = disk.session.audit /\ UNCHANGED disk
<1> USE DEF HostInv
<1>1. live # NoSession => live \in Sessions
  BY DEF TypeInv, TypeOK
<1>2. CASE FinalizeProposals
  <2>1. live # NoSession /\ ~Pending /\ undo'.live = live
    BY <1>2, IdleIsSaved DEF FinalizeProposals, Ready, Begin
  <2>2. Pending' /\ call'.op = "finalize"
    BY <1>2, CallsStarted DEF FinalizeProposals, Begin, Pending
  <2>3. QED
    BY <2>1, <2>2 DEF Settled
<1>3. CASE FinalizeFails
  <2>1. live # NoSession /\ Pending /\ call.op = "finalize" /\ ~Pending'
    BY <1>3, CallHasSession, EndsMove DEF FinalizeFails, HandlerEnds, Pending
  <2>2. undo.live \in Sessions /\ live' = Saved(undo.live)
    BY <1>3, FinalizeUndone DEF FinalizeFails, TypeInv, CallOK
  <2>3. live'.audit = undo.live.audit
    BY <2>2 DEF Saved, Sessions
  <2>4. QED
    BY <2>1, <2>3 DEF Settled
<1>4. CASE Persist
  <2>1. live # NoSession /\ UNCHANGED <<live, undo>> /\ call'.op = call.op /\ Pending
    BY <1>4, PersistMoves, CallHasSession DEF Pending
  <2>2. CASE Deciding' <=> Deciding
    BY <2>1, <2>2 DEF Settled, Deciding
  <2>3. CASE ~(Deciding' <=> Deciding)
    <3>1. call'.step = "saved" /\ call.step = "index" /\ UNCHANGED disk /\ ~Deciding'
      BY <1>4, <2>1, <2>3, PersistMoves DEF Deciding, Pending
    <3>2. disk.session = Saved(live)
      BY <3>1 DEF UndoReady
    <3>3. disk.session.audit = live.audit
      BY <1>1, <2>1, <3>2 DEF Saved, Sessions
    <3>4. QED
      BY <2>1, <3>1, <3>3 DEF Settled, Deciding
  <2>4. QED
    BY <2>2, <2>3
<1>5. CASE ~FinalizeProposals /\ ~FinalizeFails /\ ~Persist
  <2>1. ~Crash
    BY DEF Crash
  <2>2. ~Deciding /\ ~Deciding'
    <3>1. CASE CommitArrives \/ OtherArrives
      BY <1>5, <3>1, ArrivesUndecided
    <3>2. CASE HandlerEnds
      BY <1>5, <3>2, EndsMove
         DEF HandlerEnds, CommitRollsBack, UserTurnFails, SaveFails, CommitSaved, PhaseF,
             CommitRecorded, UserTurnSaved, SaveSucceeds, Reply, Deciding, Pending
    <3>3. CASE Open
      BY <3>3, IdleIsSaved DEF Open, Deciding, Pending
    <3>4. QED
      BY <1>5, <2>1, <3>1, <3>2, <3>3 DEF Next
  <2>3. CASE live # NoSession
    BY <1>5, <2>1, <2>2, <2>3, OldAudits DEF Settled, Deciding
  <2>4. CASE live = NoSession
    <3>1. UNCHANGED disk
      BY <1>5, FileAndUndoMove
    <3>2. ~\E r \in Requests, k \in Rounds : CommitApplied(r, k)
      BY <2>4 DEF CommitApplied, Ready
    <3>3. live' = disk.session
      BY <2>4, <3>2, OldMoves, CallHasSession DEF WholeOrFresh, CommitRollsBack
    <3>4. QED
      BY <2>2, <3>1, <3>3 DEF Settled, Deciding
  <2>5. QED
    BY <2>3, <2>4
<1>6. QED
  BY <1>2, <1>3, <1>4, <1>5

\* What a handler answers as decided is in the audit log by then.
LEMMA DecidedMoves ==
    ASSUME HostInv, DecisionInv, Next, call'.op = "finalize",
           call'.step = "saved" \/ (call'.step = "answer" /\ call'.outcome # "error")
    PROVE  live' # NoSession /\ call'.commit \in ToSet(live'.audit)
<1> USE DEF HostInv
<1>1. live' # NoSession
  BY TypeStep, SessionAssumption DEF TypeInv, CallOK
<1>2. CASE CommitArrives
  <2>1. PICK r \in Requests, k \in Rounds :
           \/ CommitUnknownRound(r, k) \/ CommitReplayed(r, k)
           \/ CommitMismatched(r, k) \/ CommitRefused(r, k) \/ CommitApplied(r, k)
    BY <1>2 DEF CommitArrives
  <2>2. call'.op = "commit"
    <3>1. CASE CommitUnknownRound(r, k)
      BY <3>1, CallsStarted DEF CommitUnknownRound, Begin
    <3>2. CASE CommitReplayed(r, k)
      BY <3>2, CallsStarted DEF CommitReplayed, Begin
    <3>3. CASE CommitMismatched(r, k)
      BY <3>3, CallsStarted DEF CommitMismatched, Begin
    <3>4. CASE CommitRefused(r, k)
      BY <3>4, CallsStarted DEF CommitRefused, Begin
    <3>5. CASE CommitApplied(r, k)
      BY <3>5, CallsStarted DEF CommitApplied, Begin
    <3>6. QED
      BY <2>1, <3>1, <3>2, <3>3, <3>4, <3>5
  <2>3. QED
    BY <2>2
<1>3. CASE OtherArrives
  <2>1. CASE \E k \in Rounds : StartRound(k) \/ BindPackage(k)
    BY <2>1, IdleType DEF StartRound, BindPackage, Ready
  <2>2. CASE \/ Create \/ UserTurn \/ PlayerSkip \/ OpeningKept \/ OpeningRecorded
             \/ AttachOpeningVisibility \/ UpdateProvenance
    <3>1. \E op \in Handlers \ {"finalize"} : call' = Writing(op) \/ call' = Answering(op, "ok")
      BY <2>2 DEF Create, UserTurn, PlayerSkip, OpeningKept, OpeningRecorded,
                  AttachOpeningVisibility, UpdateProvenance, Begin, Handlers
    <3>2. "ok" \in Outcomes
      BY DEF Outcomes
    <3>3. call'.op # "finalize"
      BY <3>1, <3>2, CallTypes
    <3>4. QED
      BY <3>3
  <2>3. CASE RecordPresentation
    BY <2>3, CallsStarted DEF RecordPresentation, Begin
  <2>4. CASE FinalizeProposals
    BY <2>4, CallsStarted DEF FinalizeProposals, Begin
  <2>5. CASE FinalizeAgain
    <3>1. PICK id \in ToldIds :
             /\ Terminal(live, id)
             /\ Begin([Answering("finalize", "already_terminal") EXCEPT !.commit = id], live)
      BY <2>5 DEF FinalizeAgain
    <3>2. call'.commit = id /\ live' = live
      BY <3>1, CallsStarted DEF Begin
    <3>3. QED
      BY <1>1, <3>1, <3>2 DEF Terminal
  <2>6. QED
    BY <1>3, <2>1, <2>2, <2>3, <2>4, <2>5 DEF OtherArrives
<1>4. CASE Persist
  <2>1. /\ UNCHANGED live /\ call'.commit = call.commit /\ call.op = "finalize"
        /\ call.step = "index"
    BY <1>4, PersistMoves
  <2>2. /\ live = ProposalsFinalized(undo.live, call.commit, call.applied)
        /\ undo.live \in Sessions /\ call.commit \in 0..MaxIds /\ call.applied \in BOOLEAN
    BY <2>1 DEF InFlight, Pending, TypeInv, TypeOK, CallOK, HandlerCalls
  <2>3. call.commit \in ToSet(live.audit)
    BY <2>2, AuditOfFinalized
  <2>4. QED
    BY <1>1, <2>1, <2>3
<1>5. CASE HandlerEnds
  <2>1. CASE SaveSucceeds
    <3>1. /\ UNCHANGED live /\ call.step = "saved" /\ call' = [call EXCEPT !.step = "answer", !.outcome = "ok"]
      BY <2>1 DEF SaveSucceeds, Answer, hostVars
    <3>2. call.op = "finalize" /\ call'.commit = call.commit
      BY <3>1, CallMoves
    <3>3. QED
      BY <1>1, <3>1, <3>2 DEF DecisionInv
  <2>2. CASE Reply
    BY <2>2, IdleType DEF Reply
  <2>3. CASE FinalizeFails \/ SaveFails
    <3>1. call' = [call EXCEPT !.step = "answer", !.outcome = "error"]
      BY <2>3 DEF FinalizeFails, SaveFails, Answer
    <3>2. call'.step = "answer" /\ call'.outcome = "error"
      BY <3>1, CallMoves
    <3>3. QED
      BY <3>2
  <2>4. CASE CommitRollsBack \/ UserTurnFails \/ CommitSaved \/ CommitRecorded \/ UserTurnSaved
    <3>1. call.op \in {"commit", "user"}
      BY <2>4 DEF CommitRollsBack, UserTurnFails, CommitSaved, PhaseF, CommitRecorded,
                  UserTurnSaved, TypeInv, CallOK
    <3>2. \/ call' = [call EXCEPT !.step = "record"]
          \/ \E o : call' = [call EXCEPT !.step = "answer", !.outcome = o]
      BY <2>4 DEF CommitRollsBack, UserTurnFails, CommitSaved, CommitRecorded, UserTurnSaved,
                  Step, Answer
    <3>3. call'.op = call.op
      <4>1. CASE call' = [call EXCEPT !.step = "record"]
        BY <4>1, CallMoves
      <4>2. CASE \E o : call' = [call EXCEPT !.step = "answer", !.outcome = o]
        <5>1. PICK o : call' = [call EXCEPT !.step = "answer", !.outcome = o]
          BY <4>2
        <5>2. \A st, x : [call EXCEPT !.step = st, !.outcome = x].op = call.op
          BY CallMoves
        <5>3. QED
          BY <5>1, <5>2
      <4>3. QED
        BY <3>2, <4>1, <4>2
    <3>4. QED
      BY <3>1, <3>3
  <2>5. QED
    BY <1>5, <2>1, <2>2, <2>3, <2>4 DEF HandlerEnds
<1>6. CASE Open
  BY <1>6, IdleType DEF Open
<1>7. CASE Crash
  BY <1>7, IdleType DEF Crash
<1>8. QED
  BY <1>2, <1>3, <1>4, <1>5, <1>6, <1>7 DEF Next

\* Only an answer to the client adds to what it was told is finalized.
LEMMA ToldMoves ==
    ASSUME Next
    PROVE  UNCHANGED finalized \/ Reply
BY DEF Next, CommitArrives, CommitUnknownRound, CommitReplayed, CommitMismatched, CommitRefused,
       CommitApplied, OtherArrives, Create, UserTurn, PlayerSkip, RecordPresentation,
       OpeningKept, OpeningRecorded, AttachOpeningVisibility, UpdateProvenance, FinalizeAgain,
       FinalizeProposals, StartRound, BindPackage, Persist, WriteSession, WriteFails,
       IndexWritten, IndexFails, HandlerEnds, CommitRollsBack, UserTurnFails, FinalizeFails,
       SaveFails, CommitSaved, CommitRecorded, UserTurnSaved, SaveSucceeds, Open, Crash,
       clientVars

\* A decision is in the file before it is answered, and nothing takes it out again.
LEMMA DecisionStep ==
    ASSUME HostInv, UndoReady, WholeOrFresh, DecisionInv, Next, "tear" \notin Faults
    PROVE  DecisionInv'
<1> USE DEF HostInv
<1>1. live # NoSession => live \in Sessions
  BY DEF TypeInv, TypeOK
<1>2. CASE WriteSession /\ Persist /\ disk' = [state |-> "whole", session |-> Saved(live)]
  <2>1. /\ live \in Sessions /\ live # NoSession /\ UNCHANGED <<live, undo, finalized>>
        /\ call'.op = call.op /\ Pending
    BY <1>2, CallHasSession, PersistMoves DEF WriteSession
  <2>2. disk'.session.audit = live.audit
    BY <1>2, <2>1 DEF Saved, Sessions
  <2>3. Pending' /\ call'.step = "index"
    BY <1>2, CallMoves DEF WriteSession, Step, Pending
  <2>4. ToSet(Settled.audit) \subseteq ToSet(live.audit)
    <3>1. CASE call.op = "finalize"
      <4>1. /\ live = ProposalsFinalized(undo.live, call.commit, call.applied)
            /\ undo.live \in Sessions /\ call.commit \in 0..MaxIds /\ call.applied \in BOOLEAN
        BY <1>2, <2>1, <3>1
           DEF InFlight, Pending, TypeInv, TypeOK, CallOK, HandlerCalls, WriteSession
      <4>2. Settled = undo.live
        BY <2>1, <3>1 DEF Settled
      <4>3. QED
        BY <4>1, <4>2, AuditOfFinalized
    <3>2. CASE call.op # "finalize"
      BY <3>2 DEF Settled
    <3>3. QED
      BY <3>1, <3>2
  <2>5. Settled' = Settled
    BY <2>1, <2>3 DEF Settled
  <2>6. finalized \subseteq ToSet(Settled.audit)
    BY <2>1 DEF DecisionInv
  <2>7. QED
    BY <2>1, <2>2, <2>3, <2>4, <2>5, <2>6 DEF DecisionInv
<1>3. CASE UNCHANGED disk
  <2>1. finalized' \subseteq ToSet(disk.session.audit)
        /\ (Reply => finalized' \subseteq ToSet(live.audit))
    <3>1. CASE Reply
      <4>1. live # NoSession /\ ~Pending
        BY <3>1, CallHasSession DEF Reply, Pending
      <4>2. Settled = live
        BY <4>1 DEF Settled
      <4>3. finalized' \subseteq ToSet(live.audit)
        BY <3>1, <4>1, <4>2 DEF Reply, DecisionInv
      <4>4. QED
        BY <4>1, <4>2, <4>3 DEF DecisionInv
    <3>2. QED
      BY <3>1, ToldMoves DEF DecisionInv
  <2>2. live' # NoSession =>
           /\ finalized' \subseteq ToSet(Settled'.audit)
           /\ ToSet(Settled'.audit) \subseteq ToSet(disk.session.audit)
    <3>1. SUFFICES ASSUME live' # NoSession
                   PROVE  /\ finalized' \subseteq ToSet(Settled'.audit)
                          /\ ToSet(Settled'.audit) \subseteq ToSet(disk.session.audit)
      OBVIOUS
    <3>2. CASE live # NoSession /\ Settled'.audit = Settled.audit
      <4>1. CASE Reply
        <5>1. Settled = live
          BY <4>1 DEF Reply, Pending, Settled
        <5>2. QED
          BY <2>1, <3>2, <4>1, <5>1 DEF DecisionInv
      <4>2. CASE UNCHANGED finalized
        BY <3>2, <4>2 DEF DecisionInv
      <4>3. QED
        BY <4>1, <4>2, ToldMoves
    <3>3. CASE Settled'.audit = disk.session.audit
      BY <2>1, <3>3
    <3>4. QED
      BY <3>1, <3>2, <3>3, DecisionsMove
  <2>3. QED
    BY <1>3, <2>1, <2>2, DecidedMoves DEF DecisionInv
<1>4. QED
  BY <1>2, <1>3, FileAndUndoMove

\* What the client was told is finalized has its audit in the session file from
\* then on, through failed saves, retries and restarts, unless a save can tear it.
THEOREM DecisionsStay ==
    ASSUME "tear" \notin Faults
    PROVE  Spec => []DecisionsAreDurable
<1>1. Init => DecisionInv
  BY IdleType DEF Init, DecisionInv, Absent
<1>2. HostInv /\ DurabilityInv /\ LedgerInv /\ DecisionInv /\ [Next]_vars => DecisionInv'
  <2>1. SUFFICES ASSUME HostInv, DurabilityInv, LedgerInv, DecisionInv, [Next]_vars
                 PROVE  DecisionInv'
    OBVIOUS
  <2>2. CASE UNCHANGED vars
    BY <2>1, <2>2 DEF vars, DecisionInv, Settled, Pending
  <2>3. QED
    BY <2>1, <2>2, DecisionStep DEF DurabilityInv, LedgerInv
<1>3. HostInv /\ LedgerInv /\ DecisionInv => DecisionsAreDurable
  <2>1. SUFFICES ASSUME HostInv, LedgerInv, DecisionInv, finalized # {}, disk.state # "whole"
                 PROVE  FALSE
    BY DEF DecisionsAreDurable, DecisionInv
  <2>2. disk.session.audit = <<>>
    BY <2>1 DEF LedgerInv, WholeOrFresh, Fresh
  <2>3. ToSet(<<>>) = {}
    BY DEF ToSet
  <2>4. QED
    BY <2>1, <2>2, <2>3 DEF DecisionInv
<1>4. QED
  BY <1>1, <1>2, <1>3, HandlersInFlight, LedgerIsDurable, LedgerInvariant, PTL DEF Spec

-----------------------------------------------------------------------------
(* Rounds *)

RoundGood(k, s) ==
    k.state = "open" =>
        /\ k.epoch = Len(k.turns)
        /\ k.package \in {-1, Len(k.turns)}
        /\ ToSet(k.turns) \subseteq ToSet(s.ids)

Committing == call.op = "commit" /\ call.step \in {"write", "index", "failed", "saved"}

\* A round as the commit in flight leaves it: phase F is still to invalidate its package.
RoundLeft(k) == IF Committing /\ k = call.round THEN PackageInvalidated(rounds[k]) ELSE rounds[k]

RoundInv ==
    /\ \A k \in Rounds : rounds[k].state = "unused" => rounds[k] = UnusedRound
    /\ live = NoSession => \A k \in Rounds : rounds[k].state # "open"
    /\ Committing => \A k \in Rounds : RoundGood(undo.rounds[k], undo.live)
    /\ live # NoSession => \A k \in Rounds : RoundGood(RoundLeft(k), live)

\* A handler is a commit with its session or rounds still to settle from the move
\* it applies to phase F or to its rollback.
LEMMA CommittingMoves ==
    ASSUME HostInv, Next, ~Crash, ~CommitRollsBack, ~CommitSaved,
           \A r \in Requests, k \in Rounds : ~CommitApplied(r, k)
    PROVE  /\ Committing' <=> Committing
           /\ Committing => UNCHANGED undo /\ call'.round = call.round
<1> USE DEF HostInv
<1>1. CASE CommitArrives
  <2>1. PICK r \in Requests, k \in Rounds :
           \/ CommitUnknownRound(r, k) \/ CommitReplayed(r, k)
           \/ CommitMismatched(r, k) \/ CommitRefused(r, k)
    BY <1>1 DEF CommitArrives
  <2>2. call = Idle
    BY <2>1 DEF CommitUnknownRound, CommitReplayed, CommitMismatched, CommitRefused, Begin
  <2>3. call'.step \in {"answer", "record"}
    <3>1. CASE CommitUnknownRound(r, k)
      BY <3>1, CallsStarted DEF CommitUnknownRound, Begin
    <3>2. CASE CommitReplayed(r, k)
      BY <3>2, CallsStarted DEF CommitReplayed, Begin
    <3>3. CASE CommitMismatched(r, k)
      BY <3>3, CallsStarted DEF CommitMismatched, Begin
    <3>4. CASE CommitRefused(r, k)
      BY <3>4, CallsStarted DEF CommitRefused, Begin
    <3>5. QED
      BY <2>1, <3>1, <3>2, <3>3, <3>4
  <2>4. QED
    BY <2>2, <2>3, IdleType DEF Committing
<1>2. CASE OtherArrives
  <2>1. CASE \E k \in Rounds : StartRound(k) \/ BindPackage(k)
    BY <2>1, IdleType DEF StartRound, BindPackage, Ready, Committing
  <2>2. CASE \/ Create \/ UserTurn \/ PlayerSkip \/ OpeningKept \/ OpeningRecorded
             \/ AttachOpeningVisibility \/ UpdateProvenance
    <3>1. call = Idle
      BY <2>2 DEF Create, UserTurn, PlayerSkip, OpeningKept, OpeningRecorded,
                  AttachOpeningVisibility, UpdateProvenance, Begin
    <3>2. \E op \in Handlers \ {"commit"} : call' = Writing(op) \/ call' = Answering(op, "ok")
      BY <2>2 DEF Create, UserTurn, PlayerSkip, OpeningKept, OpeningRecorded,
                  AttachOpeningVisibility, UpdateProvenance, Begin, Handlers
    <3>3. call'.op # "commit" \/ call'.step = "answer"
      BY <3>2, CallsStarted
    <3>4. QED
      BY <3>1, <3>3, IdleType DEF Committing
  <2>3. CASE RecordPresentation
    <3>1. call = Idle /\ call'.op = "presentation"
      BY <2>3, CallsStarted DEF RecordPresentation, Begin
    <3>2. QED
      BY <3>1, IdleType DEF Committing
  <2>4. CASE FinalizeAgain
    <3>1. call = Idle /\ call'.op = "finalize"
      BY <2>4, CallsStarted DEF FinalizeAgain, Begin
    <3>2. QED
      BY <3>1, IdleType DEF Committing
  <2>5. CASE FinalizeProposals
    <3>1. call = Idle /\ call'.op = "finalize"
      BY <2>5, CallsStarted DEF FinalizeProposals, Begin
    <3>2. QED
      BY <3>1, IdleType DEF Committing
  <2>6. QED
    BY <1>2, <2>1, <2>2, <2>3, <2>4, <2>5 DEF OtherArrives
<1>3. CASE Persist
  <2>1. /\ call.step \in {"write", "index"} /\ call'.step \in {"index", "failed", "saved"}
        /\ call'.op = call.op /\ call'.round = call.round /\ UNCHANGED undo
    BY <1>3, PersistMoves DEF Pending
  <2>2. QED
    BY <2>1 DEF Committing
<1>4. CASE HandlerEnds
  <2>1. ~Committing
    BY <1>4
       DEF HandlerEnds, UserTurnFails, FinalizeFails, SaveFails, CommitRecorded, UserTurnSaved,
           SaveSucceeds, Reply, Committing
  <2>2. CASE Reply
    BY <2>1, <2>2, IdleType DEF Reply, Committing
  <2>3. CASE ~Reply
    <3>1. \E o : call' = [call EXCEPT !.step = "answer", !.outcome = o]
      BY <1>4, <2>3
         DEF HandlerEnds, UserTurnFails, FinalizeFails, SaveFails, CommitRecorded,
             UserTurnSaved, SaveSucceeds, Answer
    <3>2. call'.step = "answer"
      BY <3>1, CallMoves
    <3>3. QED
      BY <2>1, <3>2 DEF Committing
  <2>4. QED
    BY <2>2, <2>3
<1>5. CASE Open
  BY <1>5, IdleType DEF Open, Committing
<1>6. QED
  BY <1>1, <1>2, <1>3, <1>4, <1>5 DEF Next

\* What changes the rounds.
LEMMA RoundsMove ==
    ASSUME Next
    PROVE  \/ UNCHANGED rounds
           \/ Crash \/ CommitRollsBack \/ CommitSaved
           \/ \E r \in Requests, k \in Rounds : CommitApplied(r, k)
           \/ \E k \in Rounds : StartRound(k) \/ BindPackage(k)
<1>1. CASE CommitArrives
  BY <1>1 DEF CommitArrives, CommitUnknownRound, CommitReplayed, CommitMismatched, CommitRefused
<1>2. CASE OtherArrives
  BY <1>2 DEF OtherArrives, Create, UserTurn, PlayerSkip, RecordPresentation, OpeningKept,
              OpeningRecorded, AttachOpeningVisibility, UpdateProvenance, FinalizeAgain,
              FinalizeProposals
<1>3. CASE Persist
  BY <1>3 DEF Persist, WriteSession, WriteFails, IndexWritten, IndexFails, hostVars
<1>4. CASE HandlerEnds
  BY <1>4 DEF HandlerEnds, UserTurnFails, FinalizeFails, SaveFails, CommitRecorded,
              UserTurnSaved, SaveSucceeds, Reply, hostVars
<1>5. CASE Open
  BY <1>5 DEF Open
<1>6. QED
  BY <1>1, <1>2, <1>3, <1>4, <1>5 DEF Next

\* A round that gains a move of the session, or loses its package, is a good one.
LEMMA RoundGoodMoved ==
    ASSUME NEW k \in RoundStates, NEW s \in Sessions, NEW t, NEW id \in Ids, RoundGood(k, s),
           t.ids = Append(s.ids, id)
    PROVE  /\ RoundGood(PackageInvalidated(RoundMoved(k, id)), t)
           /\ RoundGood(k, t)
<1>1. k.turns \in Seq(Ids) /\ s.ids \in Seq(Ids)
  BY DEF RoundStates, Sessions
<1> DEFINE k2 == PackageInvalidated(RoundMoved(k, id))
<1>2. /\ k2.state = k.state /\ k2.package = -1
      /\ k2.turns = Append(k.turns, id) /\ k2.epoch = k.epoch + 1
  BY DEF RoundMoved, PackageInvalidated, RoundStates
<1>3. Len(Append(k.turns, id)) = Len(k.turns) + 1
  BY <1>1, AppendProperties
<1>4. /\ ToSet(Append(k.turns, id)) = ToSet(k.turns) \cup {id}
      /\ ToSet(t.ids) = ToSet(s.ids) \cup {id}
  BY <1>1, ToSetOfAppend
<1> HIDE DEF k2
<1>5. RoundGood(k2, t)
  BY <1>2, <1>3, <1>4 DEF RoundGood
<1>6. RoundGood(k, t)
  BY <1>4 DEF RoundGood
<1>7. QED
  BY <1>5, <1>6 DEF k2

\* Every round of the cached session holds moves of that session, and a package no
\* older than its last move, but for the commit in flight.
LEMMA RoundsStep == ASSUME HostInv, RoundInv, Next PROVE RoundInv'
<1> USE DEF HostInv
<1>1. /\ live # NoSession => live \in Sessions
      /\ rounds \in [Rounds -> RoundStates] /\ UnusedRound \in RoundStates
  BY NothingType DEF TypeInv, TypeOK
<1>2. CASE \E r \in Requests, k \in Rounds : CommitApplied(r, k)
  <2>1. PICK r \in Requests, k \in Rounds : CommitApplied(r, k)
    BY <1>2
  <2>2. /\ live \in Sessions /\ live # NoSession /\ minted' \in Ids /\ ~Committing
        /\ rounds[k].state = "open"
    BY <1>1, <2>1, IdleType, BoundsAssumption
       DEF CommitApplied, Ready, TypeInv, TypeOK, Ids, Committing
  <2>3. /\ live' = MoveApplied(live, r, minted') /\ undo'.live = live /\ undo'.rounds = rounds
        /\ rounds' = [rounds EXCEPT ![k] = RoundMoved(@, minted')]
    BY <2>1 DEF CommitApplied, Begin
  <2>4. Committing' /\ call'.round = k
    BY <2>1, CallsStarted DEF CommitApplied, Begin, Committing
  <2>5. \A j \in Rounds : RoundGood(rounds[j], live)
    BY <2>2 DEF RoundInv, RoundLeft
  <2>6. live'.ids = Append(live.ids, minted')
    BY <2>2, <2>3 DEF MoveApplied, Sessions
  <2>7. ASSUME NEW j \in Rounds PROVE RoundGood(RoundLeft(j)', live')
    <3>1. rounds[j] \in RoundStates /\ RoundGood(rounds[j], live)
      BY <1>1, <2>5
    <3>2. /\ RoundGood(PackageInvalidated(RoundMoved(rounds[j], minted')), live')
          /\ RoundGood(rounds[j], live')
      BY <2>2, <2>6, <3>1, RoundGoodMoved
    <3>3. RoundLeft(j)' = IF j = k THEN PackageInvalidated(RoundMoved(rounds[j], minted'))
                          ELSE rounds[j]
      BY <1>1, <2>3, <2>4 DEF RoundLeft
    <3>4. QED
      BY <3>2, <3>3
  <2>8. \A j \in Rounds : rounds'[j].state = "unused" => rounds'[j] = UnusedRound
    <3>1. RoundMoved(rounds[k], minted').state = "open"
      BY <1>1, <2>2 DEF RoundMoved, RoundStates
    <3>2. QED
      BY <1>1, <2>3, <3>1 DEF RoundInv
  <2>9. live' # NoSession
    BY <2>2, <2>3, MoveAppliedType, SessionAssumption
  <2>10. QED
    BY <2>3, <2>5, <2>7, <2>8, <2>9 DEF RoundInv
<1>3. CASE CommitRollsBack
  <2>1. rounds' = undo.rounds /\ live' = Saved(undo.live) /\ undo.live \in Sessions
    BY <1>3, CommitUndone DEF CommitRollsBack, TypeInv, CallOK
  <2>2. Committing /\ ~Committing'
    BY <1>3, CallMoves DEF CommitRollsBack, Committing, Answer
  <2>3. \A j \in Rounds : RoundGood(undo.rounds[j], undo.live)
    BY <2>2 DEF RoundInv
  <2>4. live'.ids = undo.live.ids
    BY <2>1 DEF Saved, Sessions
  <2>5. \A j \in Rounds : RoundGood(RoundLeft(j)', live')
    BY <2>1, <2>2, <2>3, <2>4 DEF RoundGood, RoundLeft
  <2>6. \A j \in Rounds : rounds'[j].state = "unused" => rounds'[j] = UnusedRound
    <3>1. /\ rounds = [undo.rounds EXCEPT ![call.round] = RoundMoved(@, call.commit)]
          /\ rounds[call.round].state = "open" /\ call.round \in Rounds
          /\ undo.rounds \in [Rounds -> RoundStates]
      BY <1>3 DEF CommitRollsBack, InFlight, Pending, TypeInv, TypeOK, CallOK
    <3>2. undo.rounds[call.round].state = "open"
      BY <3>1 DEF RoundMoved, RoundStates
    <3>3. QED
      BY <2>1, <3>1, <3>2 DEF RoundInv
  <2>7. live' # NoSession
    BY <2>1, SavedType, SessionAssumption
  <2>8. QED
    BY <2>2, <2>5, <2>6, <2>7 DEF RoundInv
<1>4. CASE CommitSaved
  <2>1. /\ UNCHANGED live /\ live # NoSession /\ call.round \in Rounds /\ Committing
        /\ rounds' = [rounds EXCEPT ![call.round] = PackageInvalidated(@)]
    BY <1>4, CallHasSession DEF CommitSaved, PhaseF, Committing, TypeInv, CallOK
  <2>2. ~Committing'
    BY <1>4, CallMoves DEF CommitSaved, Committing, Step, Answer
  <2>3. \A j \in Rounds : RoundLeft(j)' = RoundLeft(j)
    BY <1>1, <2>1, <2>2 DEF RoundLeft
  <2>4. \A j \in Rounds : rounds'[j].state = "unused" => rounds'[j] = UnusedRound
    BY <1>1, <2>1 DEF RoundInv, PackageInvalidated, RoundStates, UnusedRound
  <2>5. QED
    BY <2>1, <2>2, <2>3, <2>4 DEF RoundInv
<1>5. CASE \E k \in Rounds : StartRound(k) \/ BindPackage(k)
  <2>1. PICK k \in Rounds : StartRound(k) \/ BindPackage(k)
    BY <1>5
  <2>2. live \in Sessions /\ live # NoSession /\ UNCHANGED <<live, call, undo>> /\ ~Committing
        /\ ~Committing'
    BY <1>1, <2>1, IdleType DEF StartRound, BindPackage, Ready, Committing
  <2>3. \A j \in Rounds \ {k} : rounds'[j] = rounds[j]
    BY <1>1, <2>1 DEF StartRound, BindPackage
  <2>4. RoundGood(rounds[k], live) /\ rounds[k] \in RoundStates
    BY <1>1, <2>2 DEF RoundInv, RoundLeft
  <2>5. RoundGood(rounds'[k], live) /\ rounds'[k].state = "open"
    <3>1. CASE StartRound(k)
      <4>1. rounds[k] = UnusedRound /\ rounds' = [rounds EXCEPT ![k].state = "open"]
        BY <3>1 DEF StartRound, RoundInv
      <4>2. rounds'[k] = [UnusedRound EXCEPT !.state = "open"]
        BY <1>1, <4>1
      <4>3. ToSet(<<>>) = {} /\ Len(<<>>) = 0
        BY DEF ToSet
      <4>4. QED
        BY <4>2, <4>3 DEF RoundGood, UnusedRound
    <3>2. CASE BindPackage(k)
      <4>1. rounds[k].state = "open" /\ rounds' = [rounds EXCEPT ![k].package = Len(rounds[k].turns)]
        BY <3>2 DEF BindPackage
      <4>2. rounds'[k] = [rounds[k] EXCEPT !.package = Len(rounds[k].turns)]
        BY <1>1, <4>1
      <4>3. QED
        BY <2>4, <4>1, <4>2 DEF RoundGood, RoundStates
    <3>3. QED
      BY <2>1, <3>1, <3>2
  <2>6. QED
    BY <2>2, <2>3, <2>5 DEF RoundInv, RoundLeft
<1>6. CASE Crash
  <2>1. \A j \in Rounds : rounds'[j].state # "open" /\ (rounds'[j].state = "unused" => rounds'[j] = UnusedRound)
    BY <1>6 DEF Crash, UnusedRound
  <2>2. live' = NoSession /\ ~Committing'
    BY <1>6, IdleType DEF Crash, Committing
  <2>3. QED
    BY <2>1, <2>2 DEF RoundInv
<1>7. CASE /\ UNCHANGED rounds /\ ~Crash /\ ~CommitRollsBack /\ ~CommitSaved
           /\ \A r \in Requests, k \in Rounds : ~CommitApplied(r, k)
  <2>1. /\ Committing' <=> Committing
        /\ Committing => UNCHANGED undo /\ call'.round = call.round
    BY <1>7, CommittingMoves
  <2>2. \A j \in Rounds : RoundLeft(j)' = RoundLeft(j)
    BY <1>7, <2>1 DEF RoundLeft
  <2>3. CASE live # NoSession
    <3>1. live' # NoSession
      BY <1>7, <2>3, SessionStays
    <3>2. SameMoves(live, live')
      BY <1>7, <2>3, <3>1, OldMoves
    <3>3. QED
      BY <1>7, <2>1, <2>2, <2>3, <3>1, <3>2 DEF RoundInv, RoundGood, SameMoves
  <2>4. CASE live = NoSession
    <3>1. ~Committing
      BY <2>4, CallHasSession DEF Committing
    <3>2. \A j \in Rounds : RoundLeft(j) = rounds[j] /\ rounds[j].state # "open"
      BY <2>4, <3>1 DEF RoundLeft, RoundInv
    <3>3. QED
      BY <1>7, <2>1, <2>2, <3>1, <3>2 DEF RoundInv, RoundGood
  <2>5. QED
    BY <2>3, <2>4
<1>8. QED
  BY <1>2, <1>3, <1>4, <1>5, <1>6, <1>7, RoundsMove

\* Between calls no round holds a move its session does not hold, and no advisory
\* package that a move has made stale, whatever failed and was rolled back.
THEOREM RoundsStayFresh == Spec => []RoundsFresh
<1>1. Init => RoundInv
  BY IdleType DEF Init, RoundInv, UnusedRound, Committing
<1>2. HostInv /\ RoundInv /\ [Next]_vars => RoundInv'
  <2>1. SUFFICES ASSUME HostInv, RoundInv, [Next]_vars PROVE RoundInv'
    OBVIOUS
  <2>2. CASE UNCHANGED vars
    BY <2>1, <2>2 DEF vars, RoundInv, RoundLeft, Committing
  <2>3. QED
    BY <2>1, <2>2, RoundsStep
<1>3. RoundInv => RoundsFresh
  <2>1. SUFFICES ASSUME RoundInv, call = Idle, NEW k \in Rounds, rounds[k].state = "open"
                 PROVE  /\ rounds[k].package \in {-1, Len(rounds[k].turns)}
                        /\ rounds[k].epoch = Len(rounds[k].turns)
                        /\ live # NoSession /\ ToSet(rounds[k].turns) \subseteq ToSet(live.ids)
    BY DEF RoundsFresh
  <2>2. live # NoSession /\ RoundLeft(k) = rounds[k]
    BY <2>1, IdleType DEF RoundInv, RoundLeft, Committing
  <2>3. RoundGood(rounds[k], live)
    BY <2>1, <2>2 DEF RoundInv
  <2>4. QED
    BY <2>1, <2>2, <2>3 DEF RoundGood
<1>4. QED
  BY <1>1, <1>2, <1>3, HandlersInFlight, PTL DEF Spec

-----------------------------------------------------------------------------
(* The story of a session: what one commit writes in six places stays coupled *)

\* The n-th position of a set of positions is where the n-th entry was picked from.
LEMMA PicksKept ==
    ASSUME NEW S, NEW seq \in Seq(S), NEW e \in S, NEW P \in SUBSET (1..Len(seq)),
           NEW picked, Picks(seq, P, picked)
    PROVE  Picks(Append(seq, e), P, picked)
<1> DEFINE t == Append(seq, e)
<1>1. \A i \in 1..Len(seq) : t[i] = seq[i]
  BY AppendProperties
<1> HIDE DEF t
<1>2. Picks(t, P, picked)
  BY <1>1 DEF Picks
<1>3. QED
  BY <1>2 DEF t

\* An entry that is appended, and picked, is picked last.
LEMMA PicksMore ==
    ASSUME NEW S, NEW seq \in Seq(S), NEW e \in S, NEW P \in SUBSET (1..Len(seq)),
           NEW picked \in Seq(S), Picks(seq, P, picked)
    PROVE  Picks(Append(seq, e), P \cup {Len(seq) + 1}, Append(picked, e))
<1> DEFINE n == Len(seq)
           t == Append(seq, e)
           q == Append(picked, e)
           Q == P \cup {n + 1}
<1>1. /\ n \in Nat
      /\ \A i \in 1..n : t[i] = seq[i]
      /\ t[n + 1] = e
  BY AppendProperties, LenProperties
<1>2. /\ Len(picked) \in Nat /\ Len(q) = Len(picked) + 1
      /\ \A i \in 1..Len(picked) : q[i] = picked[i]
      /\ q[Len(picked) + 1] = e
  BY AppendProperties, LenProperties
<1>3. IsFiniteSet(P) /\ Cardinality(P) = Len(picked)
  <2>1. IsFiniteSet(1..n)
    BY <1>1, FS_Interval
  <2>2. IsFiniteSet(P)
    BY <2>1, FS_Subset
  <2>3. QED
    BY <2>2 DEF Picks
<1>4. P \subseteq 1..n
  OBVIOUS
<1> HIDE DEF n, t, q
<1>5. Cardinality(Q) = Len(picked) + 1
  <2>1. n + 1 \notin P
    BY <1>1, <1>4
  <2>2. QED
    BY <1>3, <2>1, FS_AddElement
<1>6. ASSUME NEW i \in P
      PROVE  q[Cardinality(Q \cap 1..i)] = t[i]
  <2>1. i \in 1..n /\ Q \cap 1..i = P \cap 1..i
    BY <1>1, <1>4
  <2> DEFINE C == P \cap 1..i
  <2>2. C \subseteq P /\ i \in C
    BY <2>1, <1>1
  <2> HIDE DEF C
  <2>3. IsFiniteSet(C) /\ Cardinality(C) <= Cardinality(P)
    BY <1>3, <2>2, FS_Subset
  <2>4. Cardinality(C) \in Nat /\ Cardinality(C) # 0
    BY <2>2, <2>3, FS_CardinalityType, FS_EmptySet
  <2>5. Cardinality(C) \in 1..Len(picked)
    BY <1>2, <1>3, <2>3, <2>4
  <2>6. picked[Cardinality(C)] = seq[i]
    BY DEF Picks, C
  <2>7. q[Cardinality(C)] = t[i]
    BY <1>1, <1>2, <2>1, <2>5, <2>6
  <2>8. QED
    BY <2>1, <2>7 DEF C
<1>7. q[Cardinality(Q \cap 1..(n + 1))] = t[n + 1]
  <2>1. \A i \in Q : i \in 1..(n + 1)
    BY <1>1, <1>4
  <2>2. Q \cap 1..(n + 1) = Q
    BY <2>1
  <2>3. QED
    BY <1>1, <1>2, <1>5, <2>2
<1> HIDE DEF Q
<1>8. Picks(t, Q, q)
  <2>1. \A i \in Q : i \in P \/ i = n + 1
    BY DEF Q
  <2>2. QED
    BY <1>2, <1>5, <1>6, <1>7, <2>1 DEF Picks
<1>9. QED
  BY <1>8 DEF n, t, q, Q

\* Every move of the session is in its history.
Shown(s) == \A i \in 1..Len(s.ids) :
               \E j \in 1..Len(s.history) : s.history[j] = Entry("committed_turn", s.ids[i])

Story(s) == CoupledSession(s) /\ Shown(s)

\* The moves of a session, as its history tells them.
Moves(s) == [i \in 1..s.count |-> Entry("committed_turn", s.ids[i])]

\* A story is told by these fields alone.
LEMMA SameStory ==
    ASSUME NEW s, NEW t, Story(s), SameLedger(s, t),
           t.count = s.count, t.history = s.history, t.memory = s.memory, t.audit = s.audit,
           t.overlay = s.overlay
    PROVE  Story(t)
BY DEF Story, Shown, CoupledSession, PositionsOf, SameLedger, TurnCounter

\* A session starts with nothing to tell.
LEMMA FreshStory == Story(Fresh)
<1>1. /\ Fresh.count = 0 /\ Fresh.ids = <<>> /\ Fresh.turns = <<>> /\ Fresh.history = <<>>
      /\ Fresh.memory = <<>> /\ Fresh.audit = <<>> /\ Fresh.overlay.from = 0
      /\ Fresh.index = [r \in Requests |-> NoAnswer]
  BY DEF Fresh, NoOverlay
<1>2. Len(<<>>) = 0 /\ ToSet(<<>>) = {} /\ 1..0 = {} /\ Cardinality({}) = 0
  BY FS_EmptySet DEF ToSet
<1>3. \A kinds : PositionsOf(Fresh, kinds) = {}
  BY <1>1, <1>2 DEF PositionsOf
<1>4. Len([i \in 1..0 |-> Entry("committed_turn", Fresh.ids[i])]) = 0
  BY <1>2
<1>5. Picks(Fresh.history, {}, Fresh.memory) /\ Picks(Fresh.history, {}, Moves(Fresh))
  BY <1>1, <1>2, <1>4 DEF Picks, Moves
<1>6. QED
  BY <1>1, <1>2, <1>3, <1>5 DEF Story, Shown, CoupledSession, TurnCounter, Moves

\* The positions of the entries of some kinds, after one more entry.
LEMMA PositionsAppended ==
    ASSUME NEW s \in Sessions, NEW t, NEW e \in Entries, t.history = Append(s.history, e),
           NEW kinds
    PROVE  /\ PositionsOf(s, kinds) \in SUBSET (1..Len(s.history))
           /\ e.kind \in kinds =>
                PositionsOf(t, kinds) = PositionsOf(s, kinds) \cup {Len(s.history) + 1}
           /\ e.kind \notin kinds => PositionsOf(t, kinds) = PositionsOf(s, kinds)
<1> DEFINE n == Len(s.history)
<1>1. /\ n \in Nat /\ Len(t.history) = n + 1
      /\ \A i \in 1..n : t.history[i] = s.history[i]
      /\ t.history[n + 1] = e
  BY AppendProperties, LenProperties DEF Sessions
<1> HIDE DEF n
<1>2. 1..(n + 1) = 1..n \cup {n + 1}
  BY <1>1
<1>3. QED
  BY <1>1, <1>2 DEF PositionsOf, n

\* An entry that is not a move, and presents no unknown one, keeps the story, if
\* the characters are told of it when it is a player's post.
LEMMA StoryTold ==
    ASSUME NEW s \in Sessions, Story(s), NEW t, NEW e \in Entries,
           SameLedger(s, t), t.count = s.count, t.audit = s.audit, t.overlay = s.overlay,
           t.history = Append(s.history, e), e.kind # "committed_turn",
           t.memory = IF e.kind = "user" THEN Append(s.memory, e) ELSE s.memory,
           e.kind = "presentation" => e.ref \in ToSet(s.ids)
    PROVE  Story(t)
<1> DEFINE n == Len(s.history)
<1>1. /\ s.history \in Seq(Entries) /\ s.memory \in Seq(Entries) /\ s.ids \in Seq(Ids)
      /\ n \in Nat /\ Len(t.history) = n + 1
      /\ \A i \in 1..n : t.history[i] = s.history[i]
      /\ t.history[n + 1] = e
  BY AppendProperties, LenProperties DEF Sessions
<1>2. Picks(t.history, PositionsOf(t, {"committed_turn"}), Moves(t))
  <2>1. /\ PositionsOf(t, {"committed_turn"}) = PositionsOf(s, {"committed_turn"})
        /\ PositionsOf(s, {"committed_turn"}) \in SUBSET (1..Len(s.history))
    BY PositionsAppended
  <2>2. Moves(t) = Moves(s) /\ Picks(s.history, PositionsOf(s, {"committed_turn"}), Moves(s))
    BY DEF Moves, SameLedger, Story, CoupledSession
  <2>3. QED
    BY <1>1, <2>1, <2>2, PicksKept
<1>3. Picks(t.history, PositionsOf(t, {"user", "committed_turn"}), t.memory)
  <2> DEFINE P == PositionsOf(s, {"user", "committed_turn"})
  <2>1. Picks(s.history, P, s.memory)
    BY DEF Story, CoupledSession
  <2>2. /\ P \in SUBSET (1..Len(s.history))
        /\ e.kind = "user" => PositionsOf(t, {"user", "committed_turn"}) = P \cup {Len(s.history) + 1}
        /\ e.kind # "user" => PositionsOf(t, {"user", "committed_turn"}) = P
    <3> DEFINE K == {"user", "committed_turn"}
    <3>1. e.kind \in K <=> e.kind = "user"
      OBVIOUS
    <3> HIDE DEF K
    <3>2. /\ PositionsOf(s, K) \in SUBSET (1..Len(s.history))
          /\ e.kind \in K => PositionsOf(t, K) = PositionsOf(s, K) \cup {Len(s.history) + 1}
          /\ e.kind \notin K => PositionsOf(t, K) = PositionsOf(s, K)
      BY PositionsAppended
    <3>3. QED
      BY <3>1, <3>2 DEF K
  <2> HIDE DEF P
  <2>3. CASE e.kind = "user"
    <3>1. Picks(Append(s.history, e), P \cup {Len(s.history) + 1}, Append(s.memory, e))
      BY <1>1, <2>1, <2>2, PicksMore
    <3>2. QED
      BY <2>2, <2>3, <3>1
  <2>4. CASE e.kind # "user"
    <3>1. Picks(Append(s.history, e), P, s.memory)
      BY <1>1, <2>1, <2>2, PicksKept
    <3>2. QED
      BY <2>2, <2>4, <3>1
  <2>5. QED
    BY <2>3, <2>4
<1> HIDE DEF n
<1>4. \A i \in 1..Len(t.history) : t.history[i].kind = "presentation" =>
         \E j \in 1..(i - 1) : t.history[j] = Entry("committed_turn", t.history[i].ref)
  <2>1. SUFFICES ASSUME NEW i \in 1..(n + 1), t.history[i].kind = "presentation"
                 PROVE  \E j \in 1..(i - 1) : t.history[j] = Entry("committed_turn", t.history[i].ref)
    BY <1>1
  <2>2. CASE i \in 1..n
    <3>1. PICK j \in 1..(i - 1) : s.history[j] = Entry("committed_turn", s.history[i].ref)
      BY <1>1, <2>1, <2>2 DEF Story, CoupledSession, n
    <3>2. j \in 1..n
      BY <1>1, <2>2
    <3>3. QED
      BY <1>1, <2>2, <3>1, <3>2
  <2>3. CASE i = n + 1
    <3>1. e.ref \in ToSet(s.ids)
      BY <1>1, <2>1, <2>3
    <3>2. PICK k \in 1..Len(s.ids) : s.ids[k] = e.ref
      BY <1>1, <3>1, LenProperties DEF ToSet
    <3>3. PICK j \in 1..Len(s.history) : s.history[j] = Entry("committed_turn", s.ids[k])
      BY <3>2 DEF Story, Shown
    <3>4. j \in 1..((n + 1) - 1) /\ t.history[j] = s.history[j]
      BY <1>1, <3>3 DEF n
    <3>5. QED
      BY <1>1, <2>3, <3>2, <3>3, <3>4
  <2>4. QED
    BY <1>1, <2>1, <2>2, <2>3
<1>5. Shown(t)
  <2>1. SUFFICES ASSUME NEW i \in 1..Len(s.ids)
                 PROVE  \E j \in 1..Len(t.history) : t.history[j] = Entry("committed_turn", s.ids[i])
    BY DEF Shown, SameLedger
  <2>2. PICK j \in 1..Len(s.history) : s.history[j] = Entry("committed_turn", s.ids[i])
    BY DEF Story, Shown
  <2>3. QED
    BY <1>1, <2>2 DEF n
<1>6. QED
  BY <1>2, <1>3, <1>4, <1>5 DEF Story, CoupledSession, SameLedger, TurnCounter, Moves

\* A move that is applied is told in every place.
LEMMA StoryMoves ==
    ASSUME NEW s \in Sessions, Story(s), NEW r \in Requests, NEW id \in Ids,
           s.index[r] = NoAnswer
    PROVE  Story(MoveApplied(s, r, id))
<1> DEFINE t == MoveApplied(s, r, id)
           e == Entry("committed_turn", id)
           n == Len(s.turns)
           h == Len(s.history)
<1>1. /\ t.turns = Append(s.turns, r) /\ t.memory = Append(s.memory, e)
      /\ t.count = s.count + 1 /\ t.ids = Append(s.ids, id)
      /\ t.history = Append(s.history, e) /\ t.audit = s.audit /\ t.overlay = s.overlay
      /\ t.index = [s.index EXCEPT ![r] = [id |-> id, turn |-> n + 1]]
  BY DEF MoveApplied, Sessions, TurnCounter
<1>2. e \in Entries /\ e.kind = "committed_turn" /\ e = Entry("committed_turn", id)
  <2>1. id \in 0..MaxIds
    BY BoundsAssumption DEF Ids
  <2>2. e.kind = "committed_turn"
    BY DEF Entry
  <2>3. QED
    BY <2>1, <2>2, EntryType DEF Kinds
<1> HIDE DEF t, e
<1>3. /\ s.turns \in Seq(Requests) /\ s.ids \in Seq(Ids) /\ s.history \in Seq(Entries)
      /\ s.memory \in Seq(Entries) /\ s.index \in [Requests -> Answers]
      /\ s.count = n /\ Len(s.ids) = n /\ n \in Nat /\ h \in Nat
  BY LenProperties DEF Sessions, Story, CoupledSession, TurnCounter
<1>4. /\ Len(t.turns) = n + 1 /\ t.turns[n + 1] = r
      /\ \A i \in 1..n : t.turns[i] = s.turns[i] /\ s.turns[i] \in Requests
  BY <1>1, <1>3, AppendProperties, ElementOfSeq
<1>5. /\ Len(t.ids) = n + 1 /\ t.ids[n + 1] = id
      /\ \A i \in 1..n : t.ids[i] = s.ids[i]
  BY <1>1, <1>3, AppendProperties
<1>6. /\ Len(t.history) = h + 1 /\ t.history[h + 1] = e
      /\ \A i \in 1..h : t.history[i] = s.history[i]
  BY <1>1, <1>2, <1>3, AppendProperties
<1>7. ToSet(t.ids) = ToSet(s.ids) \cup {id} /\ ToSet(t.turns) = ToSet(s.turns) \cup {r}
  BY <1>1, <1>3, ToSetOfAppend
<1>8. Picks(t.history, PositionsOf(t, {"committed_turn"}), Moves(t))
  <2> DEFINE P == PositionsOf(s, {"committed_turn"})
             m == Moves(s)
  <2>1. Picks(s.history, P, m)
    BY DEF Story, CoupledSession, Moves
  <2>2. /\ P \in SUBSET (1..h)
        /\ PositionsOf(t, {"committed_turn"}) = P \cup {h + 1}
    <3> DEFINE K == {"committed_turn"}
    <3>1. e.kind \in K
      BY <1>2
    <3> HIDE DEF K
    <3>2. t.history = Append(s.history, e) /\ e \in Entries
      BY <1>1, <1>2
    <3>3. /\ PositionsOf(s, K) \in SUBSET (1..Len(s.history))
          /\ e.kind \in K => PositionsOf(t, K) = PositionsOf(s, K) \cup {Len(s.history) + 1}
      BY <3>2, PositionsAppended
    <3>4. QED
      BY <3>1, <3>3 DEF K
  <2>3. /\ m \in Seq(Entries) /\ Len(m) = n
        /\ \A i \in 1..n : m[i] = Entry("committed_turn", s.ids[i])
    <3>1. ASSUME NEW i \in 1..n PROVE Entry("committed_turn", s.ids[i]) \in Entries
      <4>1. s.ids[i] \in Ids
        BY <1>3, ElementOfSeq
      <4>2. s.ids[i] \in 0..MaxIds
        BY <4>1, BoundsAssumption DEF Ids
      <4>3. QED
        BY <4>2, EntryType DEF Kinds
    <3>2. m = [i \in 1..n |-> Entry("committed_turn", s.ids[i])]
      BY <1>3 DEF Moves
    <3>3. QED
      BY <1>3, <3>1, <3>2, SeqDef
  <2> HIDE DEF P, m
  <2>4. Append(m, e) = Moves(t)
    <3>1. /\ Len(Append(m, e)) = n + 1 /\ Append(m, e)[n + 1] = e
          /\ \A i \in 1..n : Append(m, e)[i] = m[i]
          /\ Append(m, e) = [i \in 1..(n + 1) |-> Append(m, e)[i]]
      <4> DEFINE a == Append(m, e)
      <4>1. /\ a \in Seq(Entries) /\ Len(a) = n + 1 /\ a[n + 1] = e
            /\ \A i \in 1..n : a[i] = m[i]
        BY <1>2, <2>3, AppendProperties
      <4> HIDE DEF a
      <4>2. a \in [1..(n + 1) -> Entries]
        BY <4>1, LenProperties
      <4>3. a = [i \in 1..(n + 1) |-> a[i]]
        BY <4>2
      <4>4. QED
        BY <4>1, <4>3 DEF a
    <3>2. Moves(t) = [i \in 1..(n + 1) |-> Entry("committed_turn", t.ids[i])]
      BY <1>1, <1>3 DEF Moves
    <3>3. \A i \in 1..(n + 1) : Append(m, e)[i] = Entry("committed_turn", t.ids[i])
      <4>1. SUFFICES ASSUME NEW i \in 1..(n + 1)
                     PROVE  Append(m, e)[i] = Entry("committed_turn", t.ids[i])
        OBVIOUS
      <4>2. CASE i \in 1..n
        BY <1>5, <2>3, <3>1, <4>2
      <4>3. CASE i = n + 1
        BY <1>2, <1>5, <3>1, <4>3
      <4>4. i \in 1..n \/ i = n + 1
        BY <1>3, <4>1
      <4>5. QED
        BY <4>2, <4>3, <4>4
    <3>4. QED
      BY <3>1, <3>2, <3>3
  <2>5. Picks(Append(s.history, e), P \cup {h + 1}, Append(m, e))
    BY <1>2, <1>3, <2>1, <2>2, <2>3, PicksMore
  <2>6. QED
    BY <1>1, <2>2, <2>4, <2>5
<1>9. Picks(t.history, PositionsOf(t, {"user", "committed_turn"}), t.memory)
  <2> DEFINE P == PositionsOf(s, {"user", "committed_turn"})
  <2>1. Picks(s.history, P, s.memory)
    BY DEF Story, CoupledSession
  <2>2. /\ P \in SUBSET (1..h)
        /\ PositionsOf(t, {"user", "committed_turn"}) = P \cup {h + 1}
    <3> DEFINE K == {"user", "committed_turn"}
    <3>1. e.kind \in K
      BY <1>2
    <3> HIDE DEF K
    <3>2. t.history = Append(s.history, e) /\ e \in Entries
      BY <1>1, <1>2
    <3>3. /\ PositionsOf(s, K) \in SUBSET (1..Len(s.history))
          /\ e.kind \in K => PositionsOf(t, K) = PositionsOf(s, K) \cup {Len(s.history) + 1}
      BY <3>2, PositionsAppended
    <3>4. QED
      BY <3>1, <3>3 DEF K
  <2> HIDE DEF P
  <2>3. Picks(Append(s.history, e), P \cup {h + 1}, Append(s.memory, e))
    BY <1>2, <1>3, <2>1, <2>2, PicksMore
  <2>4. QED
    BY <1>1, <2>2, <2>3
<1> HIDE DEF n, h
<1>10. \A i \in 1..t.count : t.index[t.turns[i]] = [id |-> t.ids[i], turn |-> i]
  <2>1. SUFFICES ASSUME NEW i \in 1..(n + 1)
                 PROVE  t.index[t.turns[i]] = [id |-> t.ids[i], turn |-> i]
    BY <1>1, <1>3
  <2>2. CASE i \in 1..n
    <3>1. s.index[s.turns[i]] = [id |-> s.ids[i], turn |-> i]
      BY <1>3, <2>2 DEF Story, CoupledSession
    <3>2. s.turns[i] # r
      BY <2>2, <1>3, <3>1 DEF NoAnswer
    <3>3. QED
      BY <1>1, <1>3, <1>4, <1>5, <2>2, <3>1, <3>2
  <2>3. CASE i = n + 1
    BY <1>1, <1>3, <1>4, <1>5, <2>3
  <2>4. QED
    BY <1>3, <2>2, <2>3
<1>11. \A q \in Requests : t.index[q] = NoAnswer \/ q \in ToSet(t.turns)
  BY <1>1, <1>3, <1>7 DEF Story, CoupledSession
<1>12. \A i \in 1..Len(t.history) : t.history[i].kind = "presentation" =>
         \E j \in 1..(i - 1) : t.history[j] = Entry("committed_turn", t.history[i].ref)
  <2>1. SUFFICES ASSUME NEW i \in 1..(h + 1), t.history[i].kind = "presentation"
                 PROVE  \E j \in 1..(i - 1) : t.history[j] = Entry("committed_turn", t.history[i].ref)
    BY <1>6
  <2>2. i \in 1..h
    BY <1>2, <1>3, <1>6, <2>1
  <2>3. PICK j \in 1..(i - 1) : s.history[j] = Entry("committed_turn", s.history[i].ref)
    BY <1>6, <2>1, <2>2 DEF Story, CoupledSession, h
  <2>4. j \in 1..h
    BY <1>3, <2>2
  <2>5. QED
    BY <1>6, <2>2, <2>3, <2>4
<1>13. Shown(t)
  <2>1. SUFFICES ASSUME NEW i \in 1..(n + 1)
                 PROVE  \E j \in 1..(h + 1) : t.history[j] = Entry("committed_turn", t.ids[i])
    BY <1>5, <1>6 DEF Shown
  <2>2. CASE i \in 1..n
    <3>1. PICK j \in 1..h : s.history[j] = Entry("committed_turn", s.ids[i])
      BY <1>3, <2>2 DEF Story, Shown, h
    <3>2. QED
      BY <1>3, <1>5, <1>6, <2>2, <3>1
  <2>3. CASE i = n + 1
    <3>1. h + 1 \in 1..(h + 1)
      BY <1>3
    <3>2. QED
      BY <1>2, <1>5, <1>6, <2>3, <3>1
  <2>4. QED
    BY <1>3, <2>2, <2>3
<1>14. ToSet(t.audit) \cup {t.overlay.from} \subseteq ToSet(t.ids) \cup {0}
  BY <1>1, <1>7 DEF Story, CoupledSession
<1>15. t.count = Len(t.ids) /\ t.count = TurnCounter(t)
  BY <1>1, <1>3, <1>4, <1>5 DEF TurnCounter
<1>16. CoupledSession(t)
  BY <1>8, <1>9, <1>10, <1>11, <1>12, <1>14, <1>15 DEF CoupledSession, Moves
<1>17. QED
  BY <1>13, <1>16 DEF Story, t

StoryInv ==
    /\ live # NoSession => Story(live)
    /\ Story(disk.session)
    /\ undo.live # NoSession => Story(undo.live)

\* What the client was told is committed is a move of the cached session.
LEMMA ToldAreHeld ==
    ASSUME TypeInv, DurabilityInv, live # NoSession, NEW id \in ToldIds
    PROVE  id \in ToSet(live.ids) /\ id \in 0..MaxIds
<1>1. PICK a \in acked : id = a.id
  BY DEF ToldIds
<1>2. a.req \in Requests /\ a.id \in 0..MaxIds
  BY DEF TypeInv, TypeOK
<1>3. /\ live.index[a.req] = AnswerOf(a) /\ AnswerOf(a) # NoAnswer
      /\ Sound(live)
  BY DEF DurabilityInv, IndexesAgree, SoundSessions
<1>4. /\ AnswerOf(a).turn \in 1..Len(live.turns) /\ live.ids[AnswerOf(a).turn] = AnswerOf(a).id
      /\ Len(live.ids) = Len(live.turns)
  BY <1>2, <1>3 DEF Sound, Holds
<1>5. live.ids \in Seq(Ids)
  BY SessionAssumption DEF TypeInv, TypeOK, Sessions
<1>6. AnswerOf(a).turn \in DOMAIN live.ids /\ live.ids[AnswerOf(a).turn] = id
  BY <1>1, <1>4, <1>5, LenProperties DEF AnswerOf
<1>7. QED
  BY <1>1, <1>2, <1>6 DEF ToSet

\* No handler, no undo code and no restart pulls the session apart.
LEMMA LiveStoryStep ==
    ASSUME HostInv, DurabilityInv, StoryInv, Next, live' # NoSession
    PROVE  Story(live')
<1> USE DEF HostInv
<1>1. live # NoSession => live \in Sessions
  BY DEF TypeInv, TypeOK
<1>2. CASE UNCHANGED live /\ live # NoSession
  BY <1>2 DEF StoryInv
<1>3. CASE CommitArrives
  <2>1. PICK r \in Requests, k \in Rounds :
           \/ CommitUnknownRound(r, k) \/ CommitReplayed(r, k)
           \/ CommitMismatched(r, k) \/ CommitRefused(r, k) \/ CommitApplied(r, k)
    BY <1>3 DEF CommitArrives
  <2>2. live \in Sessions /\ live # NoSession
    BY <1>1, <2>1 DEF CommitUnknownRound, CommitReplayed, CommitMismatched, CommitRefused,
                      CommitApplied, Ready
  <2>3. CASE CommitApplied(r, k)
    <3>1. minted' \in Ids /\ dedup[r] = NoAnswer /\ live' = MoveApplied(live, r, minted')
      BY <2>3, BoundsAssumption DEF CommitApplied, Begin, TypeInv, TypeOK, Ids
    <3>2. live.index[r] = NoAnswer
      BY <2>2, <3>1 DEF CachesAgree
    <3>3. Story(live)
      BY <2>2 DEF StoryInv
    <3>4. \A id \in Ids : Story(MoveApplied(live, r, id))
      BY <2>2, <3>2, <3>3, StoryMoves
    <3>5. QED
      BY <3>1, <3>4
  <2>4. CASE ~CommitApplied(r, k)
    BY <1>2, <2>1, <2>2, <2>4 DEF CommitUnknownRound, CommitReplayed, CommitMismatched,
                                  CommitRefused, Begin
  <2>5. QED
    BY <2>3, <2>4
<1>4. CASE OtherArrives
  <2>1. CASE Create
    BY <2>1, FreshStory DEF Create, Begin
  <2>2. CASE \/ OpeningKept \/ AttachOpeningVisibility \/ UpdateProvenance \/ FinalizeAgain
             \/ \E k \in Rounds : StartRound(k) \/ BindPackage(k)
    BY <1>2, <2>2 DEF OpeningKept, AttachOpeningVisibility, UpdateProvenance, FinalizeAgain,
                      StartRound, BindPackage, Begin, Ready
  <2>3. CASE UserTurn \/ PlayerSkip \/ RecordPresentation \/ OpeningRecorded
    <3>1. live \in Sessions /\ live # NoSession /\ Story(live)
      BY <1>1, <2>3 DEF UserTurn, PlayerSkip, RecordPresentation, OpeningRecorded, Ready, StoryInv
    <3>2. PICK kind \in Kinds, ref \in 0..MaxIds :
             /\ kind # "committed_turn" /\ (kind = "presentation" => ref \in ToSet(live.ids))
             /\ \/ kind = "user" /\ ref = 0 /\ live' = UserTurnApplied(live)
                \/ kind # "user" /\ live' = EntryAppended(live, kind, ref)
      <4>1. 0 \in 0..MaxIds
        BY BoundsAssumption
      <4>2. CASE UserTurn
        BY <2>3, <4>1, <4>2 DEF UserTurn, Begin, Kinds
      <4>3. CASE PlayerSkip
        BY <4>1, <4>3 DEF PlayerSkip, Begin, Kinds
      <4>4. CASE OpeningRecorded
        BY <4>1, <4>4 DEF OpeningRecorded, Begin, Kinds
      <4>5. CASE RecordPresentation
        <5>1. PICK id \in ToldIds : live' = EntryAppended(live, "presentation", id)
          BY <4>5 DEF RecordPresentation, Begin
        <5>2. id \in ToSet(live.ids) /\ id \in 0..MaxIds
          BY <3>1, ToldAreHeld
        <5>3. QED
          BY <5>1, <5>2 DEF Kinds
      <4>6. QED
        BY <2>3, <4>2, <4>3, <4>4, <4>5
    <3> DEFINE e == Entry(kind, ref)
    <3>3. e \in Entries /\ e.kind = kind /\ e.ref = ref
      BY EntryType DEF Entry
    <3>4. /\ SameLedger(live, live') /\ live'.count = live.count /\ live'.audit = live.audit
          /\ live'.overlay = live.overlay /\ live'.history = Append(live.history, e)
          /\ live'.memory = IF kind = "user" THEN Append(live.memory, e) ELSE live.memory
      <4>1. CASE kind = "user"
        <5>1. live' = UserTurnApplied(live) /\ e = Entry("user", 0)
          BY <3>2, <4>1
        <5>2. SameLedger(live, live')
          BY <3>1, <5>1, LedgerKept
        <5> HIDE DEF e
        <5>3. QED
          BY <3>1, <4>1, <5>1, <5>2 DEF UserTurnApplied, Sessions
      <4>2. CASE kind # "user"
        <5>1. live' = EntryAppended(live, kind, ref) /\ e = Entry(kind, ref)
          BY <3>2, <4>2
        <5>2. SameLedger(live, live')
          BY <3>1, <5>1, LedgerKept
        <5> HIDE DEF e
        <5>3. QED
          BY <3>1, <4>2, <5>1, <5>2 DEF EntryAppended, Sessions
      <4>3. QED
        BY <4>1, <4>2
    <3> HIDE DEF e
    <3>5. QED
      BY <3>1, <3>2, <3>3, <3>4, StoryTold
  <2>4. CASE FinalizeProposals
    <3>1. PICK id \in ToldIds, b \in BOOLEAN : live' = ProposalsFinalized(live, id, b)
      BY <2>4 DEF FinalizeProposals, Begin
    <3>2. live \in Sessions /\ live # NoSession /\ Story(live)
      BY <1>1, <2>4 DEF FinalizeProposals, Ready, StoryInv
    <3>3. id \in ToSet(live.ids) /\ id \in 0..MaxIds
      BY <3>2, ToldAreHeld
    <3>4. /\ SameLedger(live, live') /\ live'.count = live.count
          /\ live'.history = live.history /\ live'.memory = live.memory
          /\ live'.overlay.from \in {id, live.overlay.from}
      BY <3>1, <3>2, LedgerKept DEF ProposalsFinalized, OverlayApplied, Sessions
    <3>5. ToSet(live'.audit) = ToSet(live.audit) \cup {id}
      BY <3>1, <3>2, <3>3, AuditOfFinalized
    <3>6. ToSet(live'.audit) \cup {live'.overlay.from} \subseteq ToSet(live'.ids) \cup {0}
      BY <3>2, <3>3, <3>4, <3>5 DEF SameLedger, Story, CoupledSession
    <3>7. QED
      BY <3>2, <3>4, <3>6 DEF Story, Shown, CoupledSession, PositionsOf, SameLedger, TurnCounter
  <2>5. QED
    BY <1>4, <2>1, <2>2, <2>3, <2>4 DEF OtherArrives
<1>5. CASE Persist
  BY <1>2, <1>5, PersistMoves, CallHasSession DEF Pending
<1>6. CASE HandlerEnds
  <2>1. CASE CommitRollsBack \/ FinalizeFails
    <3>1. undo.live \in Sessions /\ live' = Saved(undo.live) /\ Story(undo.live)
      BY <2>1, CommitUndone, FinalizeUndone, SessionAssumption
         DEF CommitRollsBack, FinalizeFails, TypeInv, CallOK, StoryInv
    <3>2. /\ live'.count = undo.live.count /\ live'.history = undo.live.history
          /\ live'.memory = undo.live.memory /\ live'.audit = undo.live.audit
          /\ live'.overlay = undo.live.overlay
      BY <3>1 DEF Saved, Sessions
    <3>3. QED
      BY <3>1, <3>2, LedgerKept, SameStory
  <2>2. CASE UserTurnFails
    <3>1. undo.live # NoSession /\ live' = undo.live
      BY <2>2, UserTurnTakenBack, SessionAssumption DEF UserTurnFails, TypeInv, CallOK
    <3>2. QED
      BY <3>1 DEF StoryInv
  <2>3. CASE UserTurnSaved
    <3>1. live \in Sessions /\ live # NoSession /\ Story(live)
      BY <2>3, CallHasSession DEF UserTurnSaved, StoryInv
    <3>2. PICK n : live' = PlayerContributionNoted(live, n)
      BY <2>3 DEF UserTurnSaved
    <3>3. /\ live'.count = live.count /\ live'.history = live.history
          /\ live'.memory = live.memory /\ live'.audit = live.audit
          /\ live'.overlay = live.overlay
      BY <3>1, <3>2 DEF PlayerContributionNoted, Sessions
    <3>4. QED
      BY <3>1, <3>2, <3>3, LedgerKept, SameStory
  <2>4. CASE \/ SaveFails \/ CommitSaved \/ CommitRecorded \/ SaveSucceeds \/ Reply
    <3>1. UNCHANGED live
      BY <2>4 DEF SaveFails, CommitSaved, CommitRecorded, SaveSucceeds, Reply, hostVars
    <3>2. QED
      BY <1>2, <3>1
  <2>5. QED
    BY <1>6, <2>1, <2>2, <2>3, <2>4 DEF HandlerEnds
<1>7. CASE Open
  BY <1>7 DEF Open, StoryInv
<1>8. CASE Crash
  BY <1>8 DEF Crash
<1>9. QED
  BY <1>3, <1>4, <1>5, <1>6, <1>7, <1>8 DEF Next

\* Nor does the file, nor what a handler in flight would put back.
LEMMA StoryStep == ASSUME HostInv, DurabilityInv, StoryInv, Next PROVE StoryInv'
<1>1. live' # NoSession => Story(live')
  BY LiveStoryStep
<1>2. Story(disk'.session)
  <2>1. CASE UNCHANGED disk
    BY <2>1 DEF StoryInv
  <2>2. CASE disk' = Torn
    BY <2>2, FreshStory DEF Torn
  <2>3. CASE WriteSession /\ disk' = [state |-> "whole", session |-> Saved(live)]
    <3>1. live \in Sessions /\ Story(live)
      BY <2>3, CallHasSession DEF WriteSession, HostInv, StoryInv
    <3>2. /\ Saved(live).count = live.count /\ Saved(live).history = live.history
          /\ Saved(live).memory = live.memory /\ Saved(live).audit = live.audit
          /\ Saved(live).overlay = live.overlay
      BY <3>1 DEF Saved, Sessions
    <3>3. Story(Saved(live))
      BY <3>1, <3>2, LedgerKept, SameStory
    <3>4. QED
      BY <2>3, <3>3
  <2>4. QED
    BY <2>1, <2>2, <2>3, FileAndUndoMove
<1>3. undo'.live # NoSession => Story(undo'.live)
  BY FileAndUndoMove DEF StoryInv, NothingToUndo
<1>4. QED
  BY <1>1, <1>2, <1>3 DEF StoryInv

\* The turn, the ids and their count, the dedup index, the history and the memory
\* that one commit writes tell one story, in the cache and in the file, at every
\* instant, unless a save can tear the file.
THEOREM SessionsStayCoupled ==
    ASSUME "tear" \notin Faults
    PROVE  Spec => []Coupled
<1>1. Init => StoryInv
  BY FreshStory DEF Init, StoryInv, Absent, NothingToUndo
<1>2. HostInv /\ DurabilityInv /\ StoryInv /\ [Next]_vars => StoryInv'
  <2>1. SUFFICES ASSUME HostInv, DurabilityInv, StoryInv, [Next]_vars PROVE StoryInv'
    OBVIOUS
  <2>2. CASE UNCHANGED vars
    BY <2>1, <2>2 DEF vars, StoryInv
  <2>3. QED
    BY <2>1, <2>2, StoryStep
<1>3. StoryInv => Coupled
  BY DEF StoryInv, Coupled, Story
<1>4. QED
  BY <1>1, <1>2, <1>3, HandlersInFlight, LedgerIsDurable, PTL DEF Spec

-----------------------------------------------------------------------------
(* Promotion and decisions happen once, and not too early *)

PromotedInv == promoted \subseteq ToSet(Authority.ids)

\* What is promoted is in the file, which never trails the ledger.
LEMMA FileHoldsLedger ==
    ASSUME HostInv, FileLeads
    PROVE  ToSet(Authority.ids) \subseteq ToSet(disk.session.ids)
<1>1. CASE live = NoSession
  BY <1>1 DEF Authority
<1>2. CASE live # NoSession /\ SameMoves(Authority, disk.session)
  BY <1>2 DEF SameMoves
<1>3. CASE live # NoSession /\ OneMoreMove(Authority, disk.session)
  <2>1. PICK id \in Ids : disk.session.ids = Append(Authority.ids, id)
    BY <1>3 DEF OneMoreMove
  <2>2. Authority \in Sessions
    BY <1>3, SessionAssumption DEF Authority, Unsaved, HostInv, TypeInv, TypeOK, CallOK
  <2>3. Authority.ids \in Seq(Ids)
    BY <2>2 DEF Sessions
  <2>4. QED
    BY <2>1, <2>3, ToSetOfAppend
<1>4. QED
  BY <1>1, <1>2, <1>3 DEF FileLeads

\* A move is projected to the knowledge stores only when a restart will still know
\* it, unless a save can tear the file.
THEOREM PromotedStays ==
    ASSUME "tear" \notin Faults
    PROVE  Spec => []PromotedIsDurable
<1>1. Init => PromotedInv
  BY DEF Init, PromotedInv
<1>2. HostInv /\ DurabilityInv /\ LedgerInv /\ PromotedInv /\ [Next]_vars => PromotedInv'
  <2>1. SUFFICES ASSUME HostInv, DurabilityInv, LedgerInv, PromotedInv, [Next]_vars
                 PROVE  PromotedInv'
    OBVIOUS
  <2>2. CASE UNCHANGED vars
    BY <2>1, <2>2 DEF vars, PromotedInv, Authority, Unsaved
  <2>3. CASE CommitSaved
    <3>1. UNCHANGED live /\ live # NoSession /\ ~Unsaved /\ ~Unsaved'
      <4>1. UNCHANGED live /\ call.step = "saved"
        BY <2>3 DEF CommitSaved, PhaseF
      <4>2. call'.step \in {"record", "answer"}
        BY <2>1, <2>3, CallMoves DEF CommitSaved, Step, Answer, HostInv
      <4>3. live # NoSession
        BY <2>1, <4>1, CallHasSession DEF HostInv
      <4>4. QED
        BY <4>1, <4>2, <4>3 DEF Unsaved
    <3>2. Authority = live /\ Authority' = live
      BY <3>1 DEF Authority
    <3>3. QED
      BY <2>1, <2>3, <3>2 DEF CommitSaved, PromotedInv
  <2>4. CASE Next /\ ~CommitSaved
    <3>1. UNCHANGED promoted
      <4>1. CASE CommitArrives
        BY <4>1 DEF CommitArrives, CommitUnknownRound, CommitReplayed, CommitMismatched,
                    CommitRefused, CommitApplied
      <4>2. CASE OtherArrives
        BY <4>2 DEF OtherArrives, Create, UserTurn, PlayerSkip, RecordPresentation, OpeningKept,
                    OpeningRecorded, AttachOpeningVisibility, UpdateProvenance, FinalizeAgain,
                    FinalizeProposals, StartRound, BindPackage
      <4>3. CASE Persist
        BY <2>1, <4>3, PersistMoves DEF HostInv
      <4>4. CASE HandlerEnds
        BY <2>4, <4>4 DEF HandlerEnds, CommitRollsBack, UserTurnFails, FinalizeFails, SaveFails,
                          CommitRecorded, UserTurnSaved, SaveSucceeds, Reply
      <4>5. CASE Open \/ Crash
        BY <4>5 DEF Open, Crash
      <4>6. QED
        BY <2>4, <4>1, <4>2, <4>3, <4>4, <4>5 DEF Next
    <3>2. CASE SameMoves(Authority, Authority')
      BY <2>1, <3>1, <3>2 DEF PromotedInv, SameMoves
    <3>3. CASE SameMoves(disk.session, Authority')
      BY <2>1, <3>1, <3>3, FileHoldsLedger DEF PromotedInv, SameMoves, LedgerInv
    <3>4. QED
      BY <2>1, <2>4, <3>2, <3>3, AuthorityMoves DEF DurabilityInv, LedgerInv
  <2>5. QED
    BY <2>1, <2>2, <2>3, <2>4
<1>3. HostInv /\ LedgerInv /\ PromotedInv => PromotedIsDurable
  <2>1. SUFFICES ASSUME HostInv, LedgerInv, PromotedInv, promoted # {}
                 PROVE  disk.state = "whole" /\ promoted \subseteq ToSet(disk.session.ids)
    BY DEF PromotedIsDurable
  <2>2. promoted \subseteq ToSet(disk.session.ids)
    BY <2>1, FileHoldsLedger DEF PromotedInv, LedgerInv
  <2>3. Fresh.ids = <<>> /\ ToSet(<<>>) = {}
    BY DEF Fresh, ToSet
  <2>4. QED
    BY <2>1, <2>2, <2>3 DEF LedgerInv, WholeOrFresh
<1>4. QED
  BY <1>1, <1>2, <1>3, HandlersInFlight, LedgerIsDurable, LedgerInvariant, PTL DEF Spec

AuditOnce(s) == IsInjective(s.audit)

AuditInv ==
    /\ live # NoSession => AuditOnce(live)
    /\ AuditOnce(disk.session)
    /\ undo.live # NoSession => AuditOnce(undo.live)

\* A list of distinct elements stays one when a new element is appended.
LEMMA InjectiveAppend ==
    ASSUME NEW S, NEW s \in Seq(S), NEW e \in S, IsInjective(s), e \notin ToSet(s)
    PROVE  IsInjective(Append(s, e))
<1> DEFINE t == Append(s, e)
<1>1. /\ t \in Seq(S) /\ Len(t) = Len(s) + 1 /\ Len(s) \in Nat
      /\ \A i \in 1..Len(s) : t[i] = s[i]
      /\ t[Len(s) + 1] = e
  BY AppendProperties
<1>2. DOMAIN t = 1..Len(t) /\ DOMAIN s = 1..Len(s)
  BY <1>1, LenProperties
<1> HIDE DEF t
<1>3. \A i \in 1..Len(s) : t[i] # e
  BY <1>1, <1>2 DEF ToSet
<1>4. ASSUME NEW i \in DOMAIN t, NEW j \in DOMAIN t, t[i] = t[j] PROVE i = j
  <2>1. i \in 1..Len(s) \/ i = Len(s) + 1
    BY <1>1, <1>2
  <2>2. j \in 1..Len(s) \/ j = Len(s) + 1
    BY <1>1, <1>2
  <2>3. QED
    BY <1>1, <1>2, <1>3, <1>4, <2>1, <2>2 DEF IsInjective
<1>5. QED
  BY <1>4 DEF IsInjective, t

\* The librarian decides at most once for a commit, in memory and in the file.
THEOREM AuditsOnce == Spec => []AuditedOnce
<1>1. Init => AuditInv
  <2>1. IsInjective(<<>>)
    BY DEF IsInjective
  <2>2. QED
    BY <2>1 DEF Init, AuditInv, AuditOnce, Absent, Fresh, NothingToUndo
<1>2. HostInv /\ AuditInv /\ [Next]_vars => AuditInv'
  <2>1. SUFFICES ASSUME HostInv, AuditInv, Next PROVE AuditInv'
    BY DEF vars, AuditInv
  <2>2. live' # NoSession => AuditOnce(live')
    <3>1. SUFFICES ASSUME live' # NoSession PROVE AuditOnce(live')
      OBVIOUS
    <3>2. CASE FinalizeProposals
      <4>1. PICK id \in ToldIds, b \in BOOLEAN :
               ~Terminal(live, id) /\ live' = ProposalsFinalized(live, id, b)
        BY <3>2 DEF FinalizeProposals, Begin
      <4>2. live \in Sessions /\ live # NoSession /\ id \in 0..MaxIds
        BY <2>1, <3>2 DEF FinalizeProposals, Ready, HostInv, TypeInv, TypeOK, ToldIds
      <4>3. live'.audit = Append(live.audit, id) /\ live.audit \in Seq(0..MaxIds)
        BY <4>1, <4>2 DEF ProposalsFinalized, Sessions
      <4> DEFINE S == 0..MaxIds
      <4>4. live.audit \in Seq(S) /\ id \in S
        BY <4>2, <4>3
      <4> HIDE DEF S
      <4>5. IsInjective(live.audit) /\ id \notin ToSet(live.audit)
        BY <2>1, <4>1, <4>2 DEF AuditInv, AuditOnce, Terminal
      <4>6. IsInjective(Append(live.audit, id))
        BY <4>4, <4>5, InjectiveAppend
      <4>7. QED
        BY <4>3, <4>6 DEF AuditOnce
    <3>3. CASE FinalizeFails
      <4>1. undo.live \in Sessions /\ live' = Saved(undo.live)
        BY <2>1, <3>3, FinalizeUndone DEF FinalizeFails, HostInv, TypeInv, CallOK
      <4>2. live'.audit = undo.live.audit
        BY <4>1 DEF Saved, Sessions
      <4>3. QED
        BY <2>1, <4>1, <4>2, SessionAssumption DEF AuditInv, AuditOnce
    <3>4. CASE ~FinalizeProposals /\ ~FinalizeFails /\ live # NoSession
      <4>1. ~Crash
        BY <3>1 DEF Crash
      <4>2. live'.audit = live.audit
        BY <2>1, <3>4, <4>1, OldAudits
      <4>3. QED
        BY <2>1, <3>4, <4>2 DEF AuditInv, AuditOnce
    <3>5. CASE live = NoSession
      <4>1. ~CommitRollsBack
        BY <2>1, <3>5, CallHasSession DEF CommitRollsBack, HostInv
      <4>2. \A r \in Requests, k \in Rounds : ~CommitApplied(r, k)
        BY <3>5 DEF CommitApplied, Ready
      <4>3. live' = disk.session \/ live' = Fresh
        BY <2>1, <3>1, <3>5, <4>1, <4>2, OldMoves
      <4>4. IsInjective(<<>>)
        BY DEF IsInjective
      <4>5. QED
        BY <2>1, <4>3, <4>4 DEF AuditInv, AuditOnce, Fresh
    <3>6. QED
      BY <3>2, <3>3, <3>4, <3>5
  <2>3. AuditOnce(disk'.session)
    <3>1. CASE WriteSession /\ disk' = [state |-> "whole", session |-> Saved(live)]
      <4>1. live \in Sessions /\ live # NoSession
        BY <2>1, <3>1, CallHasSession DEF WriteSession, HostInv
      <4>2. disk'.session.audit = live.audit
        BY <3>1, <4>1 DEF Saved, Sessions
      <4>3. QED
        BY <2>1, <4>1, <4>2 DEF AuditInv, AuditOnce
    <3>2. CASE disk' = Torn
      <4>1. IsInjective(<<>>)
        BY DEF IsInjective
      <4>2. QED
        BY <3>2, <4>1 DEF Torn, Fresh, AuditOnce
    <3>3. QED
      BY <2>1, <3>1, <3>2, FileAndUndoMove DEF AuditInv
  <2>4. undo'.live # NoSession => AuditOnce(undo'.live)
    BY <2>1, FileAndUndoMove DEF AuditInv, NothingToUndo
  <2>5. QED
    BY <2>2, <2>3, <2>4 DEF AuditInv
<1>3. AuditInv => AuditedOnce
  BY DEF AuditInv, AuditOnce, AuditedOnce
<1>4. QED
  BY <1>1, <1>2, <1>3, HandlersInFlight, PTL DEF Spec

=============================================================================

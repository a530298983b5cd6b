--------------------------- MODULE ContinuityTurn ---------------------------
(***************************************************************************)
(* A committed turn, as continuity processes it: ContinuityManager's       *)
(* process_turn, whole, on the state it keeps.  The kernel lets a          *)
(* character act that is eligible in a fresh round; the move's proposals   *)
(* are judged, its excursions applied, the pacing and the stage updated,   *)
(* the event recorded, the issues opened and updated, outcomes settled,    *)
(* knowledge passed on, the turn counted and a summary block made.  A move *)
(* continuity refuses raises before anything is written and is no step.    *)
(*                                                                         *)
(* Out: wording, the canon anchors, interpretations, the audit log, and    *)
(* the director's and session's mutation candidates, which the round       *)
(* protocol never supplies.                                                *)
(***************************************************************************)
EXTENDS Naturals, Sequences, FiniteSets, SequencesExt

CONSTANTS
    CastOrder, PressureKinds, NoKind, MaxActive, StallThreshold,
    Subjects, NoSubject, Slots, SummaryInterval, RecentWindow,
    Setups,   \* who the player plays, who must remain, the anchor, the seeded issues,
              \* the theme of the moves considered and, a bound, the turns of a run
    Moves     \* the moves considered, by theme

Scene == INSTANCE ScenePresence

Cast == Scene!Cast

Book == INSTANCE IssueBook WITH People <- Cast, Kinds <- PressureKinds
Flow == INSTANCE KnowledgeFlow WITH Knowers <- Cast

ASSUME TurnAssumption ==
    /\ IsInjective(CastOrder)
    /\ NoKind \notin PressureKinds
    /\ NoSubject \notin Subjects
    /\ {MaxActive, StallThreshold, SummaryInterval} \subseteq Nat \ {0}
    /\ RecentWindow \in Nat
    /\ \A s \in Setups : s.turns \in Nat /\ s.theme \in DOMAIN Moves
                         /\ s.seeded \in Seq(Book!Issues)

Levels == << "low", "moderate", "high", "extreme" >>

ScenePhases == {"opening", "rising", "climax", "falling"}

VARIABLES
    setup,      \* fixed at session setup
    stage,      \* presence lists and excursions
    tension,    \* position in Levels
    phase,      \* SceneState.phase
    book,       \* issues and active_issue_ids
    events,     \* public_events
    outcomes,   \* resolved_outcomes
    blocks,     \* summary_blocks
    turn,       \* turn_counter
    last        \* of the last turn: who acted, the speech, whether it was material

continuityVars == << setup, stage, tension, phase, book, events, outcomes, blocks, turn, last >>

NoTurn == [who |-> {}, beats |-> {}, material |-> FALSE]

\* Seeded issues are put in the book, and not in the list of the active ones.
Init ==
    /\ setup \in Setups
    /\ stage = Scene!OpeningStage
    /\ tension = 1
    /\ phase = "opening"
    /\ book = [issues |-> setup.seeded, listed |-> << >>]
    /\ events = << >>
    /\ outcomes = << >>
    /\ blocks = << >>
    /\ turn = 0
    /\ last = NoTurn

-----------------------------------------------------------------------------
(* Pacing: the director's shift, else what the turn's consequences recommend,  *)
(* which cannot push past the top of the ladder.                               *)

Pace(move) ==
    CASE move.shift = "escalate" -> "up"
      [] move.shift = "soften" -> "down"
      [] OTHER -> IF move.tags = {"up"} /\ tension < Len(Levels) THEN "up"
                  ELSE IF move.tags = {"down"} THEN "down"
                  ELSE "hold"

Paced(pace) ==
    CASE pace = "up" /\ tension < Len(Levels) -> tension + 1
      [] pace = "down" /\ tension > 1 -> tension - 1
      [] OTHER -> tension

NextPhase(level) ==
    CASE phase = "opening" /\ Levels[level] \in {"moderate", "high"} -> "rising"
      [] phase = "rising" /\ Levels[level] = "extreme" -> "climax"
      [] phase = "climax" /\ Levels[level] \in {"low", "moderate"} -> "falling"
      [] OTHER -> phase

-----------------------------------------------------------------------------
(* The people a pressure concerns: the actor and the present it names, else    *)
(* all the present while they are few, else the actor.                         *)

Concerned(move, present) ==
    LET others == (move.named \cap present) \ {move.who}
    IN IF present = {} THEN {move.who}
       ELSE IF others # {} THEN {move.who} \cup others
       ELSE IF Cardinality(present) <= 3 THEN present
       ELSE {move.who}

ProfileOf(move, present) ==
    [kind |-> move.kind, people |-> Concerned(move, present), stock |-> move.stock,
     resolves |-> move.resolves, escalates |-> move.escalates,
     effect |-> move.effect, material |-> move.material,
     shifts |-> move.shift = "escalate"]

\* The kernel gives continuity the whole cast as the other characters.
Others(move) == Cast \ {move.who}

MayAct(c) == c \in Scene!Eligible(stage, setup.player)

Accepted(move) ==
    /\ Scene!AsksAccepted(stage, setup.mustRemain, move.who, move.asks)
    /\ Scene!MutationsCompose(setup.anchor, move.who, move.asks)

ProcessTurn(move) ==
    LET pace == Paced(Pace(move))
        excursed == Scene!ExcursionsApplied(stage, move.who, move.asks)
        after == Scene!StageUpdated(excursed, setup.mustRemain, move.who, move.asks)
        present == Scene!Present(after)
        heard == Flow!Heard(move.beats, move.who)
        recorded == IF move.notable
                    THEN Append(events,
                            Flow!NewEvent(heard, move.who, move.subject, present))
                    ELSE events
        shared == Flow!Propagated(recorded, heard, move.who, move.subject,
                                  move.named, Others(move))
    IN /\ turn < setup.turns
       /\ MayAct(move.who)
       /\ Accepted(move)
       /\ stage' = after
       /\ tension' = pace
       /\ phase' = NextPhase(pace)
       /\ book' = Book!Pressures(book, ProfileOf(move, present), turn + 1)
       /\ outcomes' = Flow!AllSettled(outcomes, move.outcomes)
       /\ events' = shared
       /\ blocks' = Flow!Summarized(blocks, shared, turn + 1)
       /\ turn' = turn + 1
       /\ last' = [who |-> {move.who}, beats |-> heard, material |-> move.material]
       /\ UNCHANGED setup

Next == \E move \in Moves[setup.theme] : ProcessTurn(move)

Spec == Init /\ [][Next]_continuityVars

-----------------------------------------------------------------------------
TypeOK ==
    /\ setup \in Setups
    /\ stage \in Scene!Stages
    /\ IsInjective(stage.present) /\ IsInjective(stage.offstage)
    /\ tension \in DOMAIN Levels
    /\ phase \in ScenePhases
    /\ book \in Book!Books
    /\ ToSet(book.listed) \subseteq DOMAIN book.issues
    /\ events \in Seq(Flow!Events)
    /\ outcomes \in Seq(Flow!Outcomes)
    /\ turn \in 0..setup.turns

\* A resolved issue is never reopened, and no issue leaves the book.
ResolvedStays ==
    [][\A i \in DOMAIN book.issues :
          /\ i \in DOMAIN book'.issues
          /\ book.issues[i].status = "resolved" => book'.issues[i] = book.issues[i]]_continuityVars

\* Nobody comes to know an older event but from one who knew it, and by speech
\* they could perceive.
KnowledgeHasATeller ==
    [][\A i \in DOMAIN events : \A c \in events'[i].knownBy \ events[i].knownBy :
          /\ last'.who \subseteq events[i].knownBy
          /\ \E b \in last'.beats : b.audibility = "public" \/ c \in b.audience]_continuityVars

\* A turn that is only whispered teaches nothing to those outside its audience.
WhispersAreKept ==
    [][(last'.beats # {} /\ \A b \in last'.beats : b.audibility # "public")
       => \A i \in DOMAIN events' :
             LET knew == IF i \in DOMAIN events THEN events[i].knownBy ELSE {}
             IN events'[i].knownBy \ knew
                  \subseteq last'.who \cup UNION {b.audience : b \in last'.beats}]_continuityVars

=============================================================================

---------------------------- MODULE KnowledgeFlow ----------------------------
(***************************************************************************)
(* What a committed turn leaves behind: the public event it is promoted    *)
(* to, who knows it, what the speech of the turn tells of older events,    *)
(* the outcomes its fields settle and the summary blocks that cover the    *)
(* events that left the recent window.                                     *)
(*                                                                         *)
(* A turn's speech is a set of beats, each said to everyone or to an       *)
(* audience.  Words are abstracted to a subject: a turn shares words with  *)
(* the events of its own subject.                                          *)
(***************************************************************************)
EXTENDS Naturals, Sequences, FiniteSets, SequencesExt

CONSTANTS
    Knowers,           \* the cast
    Subjects,          \* what turns and events can be about
    NoSubject,         \* too few words to share anything
    Slots,             \* what an outcome can settle (who sleeps where, ...)
    SummaryInterval,   \* turns between two summary blocks
    RecentWindow       \* the newest events are left out of the blocks

Audibilities == {"public", "directed", "private"}

Beats == [audibility : Audibilities, audience : SUBSET Knowers]

\* normalize_speech_beat_audibility: a public beat has no audience, and the
\* speaker is in none.
Normalized(beat, speaker) ==
    [beat EXCEPT !.audience =
        IF beat.audibility = "public" THEN {} ELSE @ \ {speaker}]

Heard(beats, speaker) == {Normalized(b, speaker) : b \in beats}

BeatPerceived(beat, speaker, viewer) ==
    beat.audibility = "public" \/ viewer = speaker \/ viewer \in beat.audience

\* Mutant: a directed beat is heard by all.
SpeechPerceived_Directed(beats, speaker, viewer) ==
    \/ beats = {}
    \/ \E b \in beats : b.audibility \in {"public", "directed"} \/ viewer \in b.audience

\* viewer_may_perceive_dialogue: any beat is enough.
SpeechPerceived(beats, speaker, viewer) ==
    beats = {} \/ \E b \in beats : BeatPerceived(b, speaker, viewer)

\* event_knowledge_recipients: those present when the event is written, or
\* the audiences of speech that was not public; when that leaves nobody, the
\* speaker.
Recipients(beats, speaker, present) ==
    LET reached == UNION {IF b.audibility = "public" THEN present
                          ELSE {speaker} \cup b.audience : b \in beats}
        known == IF reached = {} THEN present ELSE reached \cap (present \cup {speaker})
    IN IF known = {} THEN {speaker} ELSE known

\* PublicEvent: by whom, about what, and the live gate known_by.
Events == [by : Knowers, subject : Subjects \cup {NoSubject}, knownBy : SUBSET Knowers]

NewEvent(beats, speaker, subject, present) ==
    [by |-> speaker, subject |-> subject,
     knownBy |-> Recipients(beats, speaker, present)]

\* Mutant: a speaker tells what the words recall, known to it or not.
Propagated_ByAnyone(events, beats, speaker, subject, named, others) ==
    [i \in DOMAIN events |->
        IF beats # {} /\ subject # NoSubject /\ events[i].subject = subject
        THEN [events[i] EXCEPT !.knownBy =
                @ \cup {c \in others : SpeechPerceived(beats, speaker, c)}]
        ELSE events[i]]

\* propagate_knowledge_from_turn: the speaker's words tell those who hear them
\* of every event the speaker knows and the words recall.  The listeners are
\* the cast members the words name, else everyone the turn was given.
Propagated(events, beats, speaker, subject, named, others) ==
    LET listeners == IF named \cap others # {} THEN named \cap others ELSE others
        recalled(e) == /\ beats # {}
                       /\ subject # NoSubject
                       /\ e.subject = subject
                       /\ speaker \in e.knownBy
        told(e) == {c \in listeners : SpeechPerceived(beats, speaker, c)}
    IN [i \in DOMAIN events |->
          IF recalled(events[i])
          THEN [events[i] EXCEPT !.knownBy = @ \cup told(events[i])]
          ELSE events[i]]

-----------------------------------------------------------------------------
(* Settled outcomes: at most one holds for a slot, an older one stays as      *)
(* superseded or revoked.                                                     *)

OutcomeStatuses == {"active", "superseded", "revoked"}

Outcomes == [slot : Slots, value : Nat, status : OutcomeStatuses]

ActiveFor(outcomes, slot) ==
    {i \in DOMAIN outcomes : outcomes[i].slot = slot /\ outcomes[i].status = "active"}

\* _find_active_outcome_for_slot searches from the newest.
Newest(found) == CHOOSE i \in found : \A j \in found : j <= i

\* One candidate; "value" 0 revokes.  A weak signal is not promoted.
Settled(outcomes, candidate) ==
    LET found == ActiveFor(outcomes, candidate.slot)
        fresh == [slot |-> candidate.slot, value |-> candidate.value,
                  status |-> "active"]
        ended(status) == [outcomes EXCEPT ![Newest(found)].status = status]
    IN CASE candidate.value = 0 -> IF found = {} THEN outcomes ELSE ended("revoked")
         [] found # {} /\ outcomes[Newest(found)].value = candidate.value -> outcomes
         [] ~candidate.promoted -> outcomes
         [] OTHER -> IF found = {} THEN Append(outcomes, fresh)
                     ELSE Append(ended("superseded"), fresh)

\* All the candidates of a move; two for one slot cancel each other.
AllSettled(outcomes, candidates) ==
    LET clash == \E i, j \in DOMAIN candidates :
                     i # j /\ candidates[i].slot = candidates[j].slot
    IN IF clash THEN outcomes ELSE FoldLeft(Settled, outcomes, candidates)

-----------------------------------------------------------------------------
(* Summary blocks: [first, last] positions of the events they cover.          *)

CoveredTo(blocks) == IF blocks = << >> THEN 0 ELSE Last(blocks).last

Summarized(blocks, events, turn) ==
    LET cutoff == IF Len(events) > RecentWindow THEN Len(events) - RecentWindow ELSE 0
    IN IF turn % SummaryInterval = 0 /\ cutoff > CoveredTo(blocks)
       THEN Append(blocks, [first |-> CoveredTo(blocks) + 1, last |-> cutoff])
       ELSE blocks

=============================================================================

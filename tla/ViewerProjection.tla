--------------------------- MODULE ViewerProjection ---------------------------
(***************************************************************************)
(* Who perceives what of the history.  Every entry of rp_history carries,  *)
(* or is given when it is read, a record of perceptual units; a unit says  *)
(* who it is for, and a character is shown the units it is entitled to.    *)
(* Texts are left out: a fragment is an entry and the place of a unit in   *)
(* that entry's record.                                                    *)
(***************************************************************************)
EXTENDS Naturals, Sequences, FiniteSets

CONSTANTS
    Cast,       \* the characters of the session
    Player,     \* the one the human plays
    Zones,      \* the zones of a stage that has any
    Nowhere,    \* the zone of a character whose place is not known
    NoPortal,   \* two zones with nothing between them
    NoVoice     \* a unit no one speaks

OpenScopes == {"public", "present", "environmental"}

NarrowScopes == {"directed", "private"}

Reach(scope, names) == [scope |-> scope, names |-> names]

Reaches == [scope : OpenScopes \cup NarrowScopes, names : SUBSET Cast]

Voice(by, audibility, audience) ==
    [by |-> by, audibility |-> audibility, audience |-> audience]

Voices == [by : Cast, audibility : {"public"} \cup NarrowScopes, audience : SUBSET Cast]

ASSUME ProjectionAssumption ==
    /\ Player \in Cast
    /\ Nowhere \notin Zones
    /\ NoVoice \notin Voices

UnitKinds ==
    {"observable_scene", "observable_event", "speech", "internal", "presentation_only",
     "uniform"}

\* `tells` is the beat the unit names as the one it conveys, 0 for none;
\* `quotes` is what the text of a narrator's unit holds of the beats' lines: the
\* "whole" of one, no more than a stretch of it ("within"), or a stretch of it
\* among other words ("partly"); `sense` is how a unit of kind "uniform" reads.
Unit(kind, to, voice, tells, quotes, sense) ==
    [kind |-> kind, to |-> to, voice |-> voice, tells |-> tells, quotes |-> quotes,
     sense |-> sense]

Observable == {"observable_scene", "observable_event"}

NoLines == << >>

\* character_in_recipient_scope.  The names of a unit are of the cast.
InScope(to, v, present) ==
    IF to.scope \in OpenScopes THEN v \in present ELSE v \in to.names

\* speech_authority_allows_viewer, speech_beat_viewer_may_perceive
Audible(voice, v) ==
    \/ voice = NoVoice
    \/ voice.audibility = "public"
    \/ v = voice.by
    \/ v \in voice.audience

-----------------------------------------------------------------------------
(* The stage: zones, what is between them, and who watches whom from afar. *)

Portals == [open : BOOLEAN, clear : BOOLEAN, sound : {"ordinary", "soundproof", "unknown"}]

\* evaluate_portal_perception, for what the player's character does.
Perceives(context, v, sense) ==
    LET here == context.zone[v]
        there == context.zone[Player]
        between == context.portal
    IN /\ here # Nowhere
       /\ there # Nowhere
       /\ \/ here = there
          \/ /\ between = NoPortal
             /\ sense = "visual"
             /\ <<here, there>> \in context.watched
          \/ /\ between # NoPortal
             /\ \/ between.open
                \/ sense = "visual" /\ between.clear
                \/ sense = "auditory" /\ between.sound = "ordinary"

\* resolve_unit_perception_channel_with_authority
SenseOf(unit) ==
    CASE unit.kind = "internal" -> "none"
      [] unit.kind \in Observable -> "visual"
      [] unit.kind = "speech" -> "auditory"
      [] unit.kind = "uniform" -> unit.sense

\* evaluate_viewer_perceptual_entitlement: what cannot be decided is withheld.
Entitled(unit, v, context) ==
    \/ unit.to.scope = "private" /\ unit.kind # "uniform"
    \/ /\ SenseOf(unit) \in {"visual", "auditory"}
       /\ v = Player \/ Perceives(context, v, SenseOf(unit))

-----------------------------------------------------------------------------
(* A unit and a viewer.                                                    *)

\* speech_authority_from_player_recipients
PlayerVoice(to) ==
    Voice(Player, IF to.scope \in OpenScopes THEN "public" ELSE to.scope, to.names)

PlayerUnitSeen(unit, v, present, context) ==
    /\ unit.kind # "internal"
    /\ InScope(unit.to, v, present)
    /\ unit.kind = "speech" => Audible(unit.voice, v)
    /\ Entitled(unit, v, context)

NarratedUnitSeen(unit, v, present) ==
    InScope(unit.to, v, present) /\ (unit.kind = "speech" => Audible(unit.voice, v))

\* The actor always perceives what it did.
CharacterUnitSeen(unit, actor, v, present) ==
    v = actor \/ NarratedUnitSeen(unit, v, present)

-----------------------------------------------------------------------------
(* The records a committed move gives.  A beat is an action, meant for     *)
(* some, or a line of speech, with who may hear it.                        *)

Deeds == [type : {"action", "speech"}, to : Reaches]

\* normalize_action_recipients refuses these.
IllFormed(beat) ==
    beat.type = "action" /\ ((beat.to.scope \in NarrowScopes) # (beat.to.names # {}))

SpeechReach(beat) ==
    IF beat.to.scope \in OpenScopes THEN Reach("present", {}) ELSE beat.to

\* speech_authority_from_beat
BeatVoice(beat, actor) ==
    Voice(actor, IF beat.to.scope \in OpenScopes THEN "public" ELSE beat.to.scope,
          beat.to.names)

ActionUnit(to, k) == Unit("observable_event", to, NoVoice, k, NoLines, "none")

SpeechUnit(to, beat, k, actor) ==
    Unit("speech", to, BeatVoice(beat, actor), k, NoLines, "none")

\* derive_character_perceptual_record
CharacterUnits(beats, actor) ==
    [k \in DOMAIN beats |->
        IF beats[k].type = "action" THEN ActionUnit(beats[k].to, k)
        ELSE SpeechUnit(SpeechReach(beats[k]), beats[k], k, actor)]

\* build_historical_partial_character_record: an entry older than the records.
HistoricalUnits(beats, actor) ==
    [k \in DOMAIN beats |->
        IF beats[k].type = "action" THEN ActionUnit(Reach("private", {actor}), k)
        ELSE SpeechUnit(SpeechReach(beats[k]), beats[k], k, actor)]

\* Mutant: the recovery forgets who may hear a line.
RecoveredUnits_Aloud(beats, actor) ==
    [k \in DOMAIN beats |-> ActionUnit(Reach("public", {}), k)]

\* build_degraded_perceptual_record_from_structured_move
RecoveredUnits(beats, actor) ==
    [k \in DOMAIN beats |->
        IF beats[k].type = "action" THEN ActionUnit(Reach("public", {}), k)
        ELSE SpeechUnit(Reach("public", {}), beats[k], k, actor)]

SpokenLines(beats) == {b \in DOMAIN beats : beats[b].type = "speech"}

\* Whether a unit holds a line in one of some manners.
Holds(unit, b, manners) == b \in DOMAIN unit.quotes /\ unit.quotes[b] \in manners

\* validate_perceptual_visibility_record refuses all the units for one of
\* these: a thought for everyone, or speech that neither holds the line it names
\* nor lies within it.  It may hold another line beside.
Rejects(unit, beats) ==
    \/ unit.kind = "internal" /\ unit.to.scope = "public"
    \/ unit.kind = "uniform"
    \/ /\ unit.kind = "speech"
       /\ unit.tells \notin SpokenLines(beats) \/ ~ Holds(unit, unit.tells, {"whole", "within"})

\* It drops what is for the player's eyes only, and observations that quote the
\* whole of a line.  What a thought quotes is not looked at.
Keeps(unit, beats) ==
    /\ unit.kind # "presentation_only"
    /\ unit.kind \in Observable => \A b \in SpokenLines(beats) : ~ Holds(unit, b, {"whole"})

\* Speech takes its authority from the line it names.
Attached(unit, beats, actor) ==
    Unit(unit.kind, unit.to, BeatVoice(beats[unit.tells], actor), unit.tells, unit.quotes,
         unit.sense)

\* The units a presentation or an opening keeps; none when it is refused.
\* A unit keeps the name its place among those given gave it.
ValidatedUnits(units, beats, actor) ==
    IF \E k \in DOMAIN units : Rejects(units[k], beats) THEN << >>
    ELSE [k \in {k \in DOMAIN units : Keeps(units[k], beats)} |->
             IF units[k].kind = "speech"
                 THEN Attached(units[k], beats, actor)
                 ELSE units[k]]

-----------------------------------------------------------------------------
(* The history.  An entry of kind "commit" has the beats of the move; one  *)
(* of kind "shown" presents the commit at `of`.                            *)

Entry(kind, by, status, units, beats, of) ==
    [kind |-> kind, by |-> by, status |-> status, units |-> units, beats |-> beats, of |-> of]

\* Speech has the audience of the line it names, and an observation holds the
\* whole of no line.
OwnsItsLine(unit, beats, actor) ==
    /\ unit.kind \in {"speech", "internal"} \cup Observable
    /\ unit.kind = "speech" =>
           unit.tells \in SpokenLines(beats) /\ unit.voice = BeatVoice(beats[unit.tells], actor)
    /\ unit.kind \in Observable => \A b \in SpokenLines(beats) : ~ Holds(unit, b, {"whole"})

\* A history as the kernel writes it: a presentation comes after the commit it
\* presents, and the units it kept answer for the lines they name.
Recorded(history) ==
    /\ history \in Seq({history[i] : i \in DOMAIN history})
    /\ \A i \in DOMAIN history : history[i].kind = "commit" =>
           history[i].by \in Cast /\ history[i].beats \in Seq(Deeds)
    /\ \A i \in DOMAIN history : history[i].kind = "shown" =>
           LET told == history[i].of
           IN /\ told \in DOMAIN history /\ history[told].kind = "commit"
              /\ history[i].status = "valid" =>
                     \A k \in DOMAIN history[i].units :
                         OwnsItsLine(history[i].units[k], history[told].beats, history[told].by)

\* What projecting the record of an entry shows.  Unit 0 is the notice that
\* a turn of the player could not be broken up.
SeenOf(history, i, v, present, context) ==
    LET e == history[i]
        told(units, Sees(_)) == {k \in DOMAIN units : Sees(units[k])}
    IN CASE e.kind = "opening" ->
                told(e.units, LAMBDA u : NarratedUnitSeen(u, v, present))
         [] e.kind = "user" ->
                IF e.status = "failed" THEN {0}
                ELSE told(e.units, LAMBDA u : PlayerUnitSeen(u, v, present, context))
         [] e.kind = "commit" ->
                told(IF e.status = "valid" THEN CharacterUnits(e.beats, e.by)
                     ELSE HistoricalUnits(e.beats, e.by),
                     LAMBDA u : CharacterUnitSeen(u, e.by, v, present))
         [] e.kind = "shown" ->
                told(IF e.status = "valid" THEN e.units
                     ELSE RecoveredUnits(history[e.of].beats, history[e.of].by),
                     LAMBDA u : NarratedUnitSeen(u, v, present))
         [] OTHER -> {}

Presented(history, i) == \E j \in DOMAIN history : history[j].kind = "shown" /\ history[j].of = i

\* project_history_to_character_context_chat: at which entries something is
\* projected, and the record of which entry.  A presentation takes the place
\* of its commit; one that failed gives it back.
Read(history) ==
    {i \in DOMAIN history : ~ (history[i].kind = "commit" /\ Presented(history, i))}

RecordAt(history, i) ==
    IF history[i].kind = "shown" /\ history[i].status = "failed" THEN history[i].of ELSE i

Fragments(entries, SeenAt(_)) ==
    UNION {{[entry |-> i, unit |-> k] : k \in SeenAt(i)} : i \in entries}

Transcript(history, v, present, context) ==
    Fragments({RecordAt(history, i) : i \in Read(history)},
              LAMBDA i : SeenOf(history, i, v, present, context))

\* The last turn of the player, unless the player passed since.
TriggerEntry(history) ==
    LET turns == {i \in DOMAIN history : history[i].kind \in {"user", "skip"}}
        last == CHOOSE i \in turns : \A j \in turns : j <= i
    IN IF turns # {} /\ history[last].kind = "user" THEN {last} ELSE {}

\* project_character_conversation_for_manifest: what a character answers to.
Trigger(history, v, present, context) ==
    IF v \notin present THEN {}
    ELSE Fragments({i \in TriggerEntry(history) : history[i].status # "failed"},
                   LAMBDA i : SeenOf(history, i, v, present, context))

\* Entries whose own record can be cited; what a reader recovers cannot.
Citable(history) ==
    {i \in {RecordAt(history, j) : j \in Read(history)} :
        history[i].kind # "skip" /\ history[i].status = "valid"}

\* build_character_perceptual_inventory_refs: what a character may cite.
Inventory(history, v, present, context) ==
    {f \in Fragments(Citable(history), LAMBDA i : SeenOf(history, i, v, present, context)) :
        LET e == history[f.entry]
        IN f.unit \in DOMAIN e.units => e.units[f.unit].kind \notin {"internal", "uniform"}}

=============================================================================

---------------------------- MODULE PerceptionLanes ----------------------------
(***************************************************************************)
(* From what the player types, and from what the characters do, to what    *)
(* each character reads of it: its transcript, the trigger it answers, the *)
(* inventory it may cite, and its memory.  A turn of the player is looked  *)
(* at first for whether everyone may perceive all of it; otherwise a model *)
(* quotes it in excerpts and the Host places them.  Every call to a model  *)
(* may fail.                                                               *)
(***************************************************************************)
EXTENDS ViewerProjection, ExcerptMatching

CONSTANTS
    Setups,         \* the sessions to look at: theme, context, and past
    Turns,          \* Turns[theme]: what the player may type
    Answers,        \* Answers[theme]: what the model may quote
    Moves,          \* Moves[theme]: what a character may do, with who then leaves or enters
    Tales,          \* Tales[theme]: the units a narrator may give
    MaxEntries      \* MaxEntries[theme]: bound on the history

ASSUME LanesAssumption ==
    \A s \in Setups :
        /\ Recorded(s.past)
        /\ Moves[s.theme] \subseteq
               [who : Cast, beats : Seq(Deeds), leaves : SUBSET Cast, enters : SUBSET Cast]
        /\ \A units \in Tales[s.theme] : \A k \in DOMAIN units : units[k].kind \in UnitKinds

VARIABLES
    setup,      \* the session, fixed at the start
    history,    \* rp_history
    present,    \* scene_state.present_characters
    memory,     \* what the characters remember: who, of which entry, which unit
    intake      \* the turn of the player being taken in

lanesVars == <<setup, history, present, memory, intake>>

NoIntake == [at |-> "idle"]

\* resolve_present_characters: with no one listed, the cast.
Here == IF present = {} THEN Cast ELSE present

Kept(who, i, ks) == {[who |-> who, entry |-> i, unit |-> k] : k \in ks}

LanesInit ==
    /\ setup \in Setups
    /\ history = setup.past
    /\ present = setup.present
    /\ memory = {}
    /\ intake = NoIntake

-----------------------------------------------------------------------------
(* A turn of the player.                                                   *)

\* submitUserTurn
Submit ==
    /\ intake = NoIntake
    /\ Len(history) < MaxEntries[setup.theme]
    /\ \E turn \in Turns[setup.theme] :
           intake' = [at |-> "triage", turn |-> turn, attempt |-> 0]
    /\ UNCHANGED <<setup, history, present, memory>>

Taking(stage) == intake # NoIntake /\ intake.at = stage

\* runPlayerVisibilityTriagePhase: only a clear yes goes on to verification;
\* no, an unreadable answer and a failure all fall to the full treatment.
TriageNotSafe ==
    /\ Taking("triage")
    /\ intake' = [intake EXCEPT !.at = "decompose"]
    /\ UNCHANGED <<setup, history, present, memory>>

TriageSafe ==
    /\ Taking("triage")
    /\ intake' = [intake EXCEPT !.at = "verify"]
    /\ UNCHANGED <<setup, history, present, memory>>

\* runPlayerUniformEligibilityVerification: anything but clear.
VerificationBlocks ==
    /\ Taking("verify")
    /\ intake' = [intake EXCEPT !.at = "decompose"]
    /\ UNCHANGED <<setup, history, present, memory>>

Failed == [ok |-> FALSE, route |-> "", units |-> << >>, quoted |-> << >>, absorbed |-> FALSE]

Broken(units, quoted, absorbed) ==
    [ok |-> TRUE, route |-> "full_pvr", units |-> units, quoted |-> quoted, absorbed |-> absorbed]

\* buildUniformProjectionDecomposition counts UTF-16 units where the Host
\* counts characters, so a turn with a wide character has the wrong length.
Uniform(turn) ==
    IF turn.wide THEN Failed
    ELSE [ok |-> TRUE, route |-> "uniform_projection", quoted |-> << >>, absorbed |-> FALSE,
          units |-> << [kind |-> "uniform", to |-> Reach("present", {}), first |-> 1,
                        last |-> Len(turn.source)] >>]

ToRecord(verdict) ==
    intake' = [at |-> "record", turn |-> intake.turn, verdict |-> verdict]

VerificationClears ==
    /\ Taking("verify")
    /\ ToRecord(Uniform(intake.turn))
    /\ UNCHANGED <<setup, history, present, memory>>

\* runPlayerDecompositionPhase: one more attempt, if that may help.
TryAgain(verdict, again) ==
    IF again /\ intake.attempt = 0
        THEN intake' = [intake EXCEPT !.attempt = 1]
        ELSE ToRecord(verdict)

\* The model fails, or its answer cannot be read.
AttemptFails ==
    /\ Taking("decompose")
    /\ TryAgain(Failed, TRUE)
    /\ UNCHANGED <<setup, history, present, memory>>

\* The context cannot be prepared, or the Host cannot be asked to normalize.
AttemptAbandoned ==
    /\ Taking("decompose")
    /\ ToRecord(Failed)
    /\ UNCHANGED <<setup, history, present, memory>>

\* `enough`: the work budget of the search holds out.
AttemptAnswered ==
    /\ Taking("decompose")
    /\ \E quoted \in Answers[setup.theme], enough \in BOOLEAN :
           LET found == Normalized(intake.turn.source, quoted, intake.attempt, enough)
           IN IF found.ok THEN ToRecord(Broken(found.units, quoted, found.absorbed))
              ELSE TryAgain(Failed, found.again)
    /\ UNCHANGED <<setup, history, present, memory>>

\* The unit of the record for a stretch of the turn, in source order.
PlayerUnit(placed, sense) ==
    Unit(placed.kind, placed.to,
         IF placed.kind = "speech" THEN PlayerVoice(placed.to) ELSE NoVoice, 0, NoLines, sense)

UserEntry(taken) ==
    [kind |-> "user", by |-> Player, beats |-> << >>, of |-> 0,
     status |-> IF taken.verdict.ok THEN "valid" ELSE "failed",
     units |-> [k \in DOMAIN taken.verdict.units |->
                    PlayerUnit(taken.verdict.units[k], taken.turn.sense)],
     turn |-> taken.turn, verdict |-> taken.verdict]

\* apply_user_turn_memory leaves a failed decomposition out.
Remembers(entry) == entry.status # "failed"

\* kernel.record_user_turn: appended, remembered by those present, saved.
RecordTurn ==
    /\ Taking("record")
    /\ LET entry == UserEntry(intake)
           grown == Append(history, entry)
       IN /\ history' = grown
          /\ memory' = memory \cup
                 (IF ~ Remembers(entry) THEN {}
                  ELSE UNION {Kept(v, Len(grown),
                                  SeenOf(grown, Len(grown), v, Here, setup.context)) :
                              v \in Here})
    /\ intake' = NoIntake
    /\ UNCHANGED <<setup, present>>

Unsaved == UNCHANGED memory

\* The save fails: character states are restored, the entry is taken back,
\* and the player is told.
RecordTurnUnsaved ==
    /\ Taking("record")
    /\ Unsaved
    /\ intake' = NoIntake
    /\ UNCHANGED <<setup, history, present>>

\* kernel.record_player_skip
Skip ==
    /\ intake = NoIntake
    /\ Len(history) < MaxEntries[setup.theme]
    /\ history # << >> /\ history[Len(history)].kind # "skip"
    /\ history' = Append(history, Entry("skip", Player, "valid", << >>, << >>, 0))
    /\ UNCHANGED <<setup, present, memory, intake>>

-----------------------------------------------------------------------------
(* A character acts, and a narrator tells it.                              *)

\* Mutant: observers remember the whole move.
Observed_Whole(grown, v, who, now) == DOMAIN grown[Len(grown)].beats

\* commit_character_turn_memory: an observer keeps what it perceived.
Observed(grown, v, who, now) ==
    SeenOf(grown, Len(grown), v, IF now = {} THEN Cast ELSE now, setup.context)

\* execute_commit_move: the turn is processed, so the stage is the one after
\* it, when memories are written.
CommitMove ==
    /\ Len(history) < MaxEntries[setup.theme]
    /\ \E move \in Moves[setup.theme] :
           LET now == (present \ move.leaves) \cup move.enters
               grown == Append(history, Entry("commit", move.who, "valid", << >>, move.beats, 0))
           IN /\ move.who \in Here \ {Player}
              /\ \A k \in DOMAIN move.beats : ~ IllFormed(move.beats[k])
              /\ present' = now
              /\ history' = grown
              /\ memory' = memory
                     \cup Kept(move.who, Len(grown), DOMAIN move.beats)
                     \cup UNION {Kept(v, Len(grown), Observed(grown, v, move.who, now)) :
                                 v \in Cast \ {move.who}}
    /\ UNCHANGED <<setup, intake>>

\* kernel.record_presentation: units that are refused leave no record, and a
\* presentation that failed shows the move as it was committed.
Present ==
    /\ Len(history) < MaxEntries[setup.theme]
    /\ \E i \in DOMAIN history, units \in Tales[setup.theme], failed \in BOOLEAN :
           /\ history[i].kind = "commit" /\ ~ Presented(history, i)
           /\ LET kept == ValidatedUnits(units, history[i].beats, history[i].by)
                  status == IF failed THEN "failed"
                            ELSE IF DOMAIN kept = {} THEN "none" ELSE "valid"
              IN history' = Append(history,
                                Entry("shown", history[i].by, status, kept, << >>, i))
    /\ UNCHANGED <<setup, present, memory, intake>>

Intake ==
    \/ TriageNotSafe \/ TriageSafe \/ VerificationBlocks \/ VerificationClears
    \/ AttemptFails \/ AttemptAbandoned \/ AttemptAnswered
    \/ RecordTurn \/ RecordTurnUnsaved

LanesNext == Submit \/ Intake \/ Skip \/ CommitMove \/ Present

LanesSpec == LanesInit /\ [][LanesNext]_lanesVars

-----------------------------------------------------------------------------
(* Correctness.                                                            *)

Of(v, Lane(_, _, _, _)) == Lane(history, v, Here, setup.context)

\* What v has in any of its lanes.
Reached(v) ==
    Of(v, Transcript) \cup Of(v, Trigger) \cup Of(v, Inventory)
        \cup {[entry |-> m.entry, unit |-> m.unit] : m \in {x \in memory : x.who = v}}

\* The state of the lanes is well formed.
LanesTypeOK ==
    /\ setup \in Setups
    /\ present \subseteq Cast
    /\ memory \subseteq [who : Cast, entry : Nat, unit : Nat]
    /\ intake.at \in {"idle", "triage", "verify", "decompose", "record"}
    /\ intake.at = "decompose" => intake.attempt \in {0, 1}

\* The beats a fragment conveys, as the commit and the beat: its own one, or
\* every one whose line the text of a narrator's unit holds some of.
LinesOf(past, f) ==
    LET e == past[f.entry]
    IN CASE e.kind = "commit" -> {<< f.entry, f.unit >>}
         [] e.kind = "shown" /\ e.status = "valid" ->
                {<< e.of, b >> : b \in DOMAIN e.units[f.unit].quotes}
         [] e.kind = "shown" /\ e.status # "valid" -> {<< e.of, f.unit >>}
         [] OTHER -> {}

\* A narrator's unit holds a line nothing compares it with: a thought, speech
\* that names another line, or an observation with a stretch of the line only.
Unscreened(past, f, line) ==
    LET e == past[f.entry]
        unit == e.units[f.unit]
    IN /\ e.kind = "shown" /\ e.status = "valid"
       /\ \/ unit.kind = "internal"
          \/ unit.kind = "speech" /\ unit.tells # line[2]
          \/ unit.kind \in Observable /\ ~ Holds(unit, line[2], {"whole"})

\* Whoever may hear a line, if it was said to some.
MayHear(past, v, line) ==
    LET commit == past[line[1]]
        beat == commit.beats[line[2]]
    IN (/\ line[2] \in DOMAIN commit.beats
        /\ beat.type = "speech" /\ beat.to.scope \in NarrowScopes)
           => v \in beat.to.names \cup {commit.by}

WithinEarshot(past, v, f) ==
    \A line \in LinesOf(past, f) : Unscreened(past, f, line) \/ MayHear(past, v, line)

\* A line a character said to some reaches them and its speaker and no one else,
\* whether it is read from the commit, from a narrator's units, from the
\* recovery of a presentation without any, from an entry older than the records,
\* cited, or remembered.  Of a narrator's units this holds only for what the Host
\* compares with the line, which is less than docs/audit-workflows.md:430 asks.
WhispersStayWithinEarshot ==
    \A v \in Cast : \A f \in Reached(v) : WithinEarshot(history, v, f)

\* Whether a quote lets a character have the words at a place.
Grants(quote, v) ==
    quote.kind # "internal" /\ (quote.to.scope \in OpenScopes \/ v \in quote.to.names)

\* A character has a word of the player's turn only by a quote that lets it:
\* however the quotes the model gave can be laid over the turn, the word falls
\* to one for everyone or for that character and to no thought.  A turn that
\* could not be broken up gives its words to no one.  Left out are a turn that
\* was cleared to be perceived as a whole, and one whose closing punctuation was
\* absorbed: of its placements the first is taken, though they may disagree.
PlayerHeardAsQuoted ==
    \A v \in Cast : \A f \in {g \in Reached(v) : g.entry \notin DOMAIN setup.past} :
        LET e == history[f.entry]
            quoted == e.verdict.quoted
        IN /\ e.kind = "user" /\ e.status = "failed" => f.unit = 0
           /\ (/\ e.kind = "user" /\ e.status = "valid"
               /\ e.verdict.route = "full_pvr" /\ ~ e.verdict.absorbed)
              => \A at \in Complete(e.turn.source, quoted) :
                     \A i \in Substantive(e.turn.source)
                               \cap (e.verdict.units[f.unit].first .. e.verdict.units[f.unit].last) :
                         \E u \in DOMAIN quoted :
                             i \in SpanAt(quoted[u], at[u]) /\ Grants(quoted[u], v)

\* What a character starts to remember it is shown at that moment, its own
\* moves apart: memory and transcript are filtered at different times by
\* different code and must agree when the memory is written.
RememberedIsShown ==
    [][\A m \in memory' \ memory :
           [entry |-> m.entry, unit |-> m.unit]
               \in Transcript(history', m.who, IF present' = {} THEN Cast ELSE present',
                              setup'.context)]_lanesVars

=============================================================================

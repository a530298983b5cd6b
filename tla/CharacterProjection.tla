------------------------ MODULE CharacterProjection ------------------------
(***************************************************************************)
(* How the Storyteller's plans become advice in a character's prompt.      *)
(*                                                                         *)
(* The Domain Host prepares a batch: it collects candidates from the plot  *)
(* overlay and from the round's Storyteller package, keeps those whose     *)
(* basis the character may know something of (layer A), and binds the      *)
(* batch to the round, the character and what the character knows.  The    *)
(* runtime then asks an evaluator of each text whether it gives anything   *)
(* away (layer B), reusing an earlier verdict where the Host remembers one *)
(* of the same identity; a text that must be rewritten is rewritten once   *)
(* and judged again.  Every verdict is registered with the Host, which     *)
(* finalizes the batch once: what passed becomes advice.  Between any two  *)
(* of these calls another request may change what the character knows or   *)
(* the overlay, and the Host may die with every batch and verdict it held. *)
(***************************************************************************)
EXTENDS Integers, FiniteSets

CONSTANTS
    Characters,
    Events,         \* what has happened; a basis may refer to it
    Strange,        \* references of a kind no resolver knows
    Candidates,     \* the Storyteller's candidates, numbered as their ids sort
    OfTheRound,     \* those of the round's package; the overlay holds the rest
    Applies,        \* Applies[c]: the characters candidate c is about
    Basis,          \* Basis[c]: the references candidate c rests on
    MaxGenerated, MaxEvaluated, MaxProjected,
    Rewrites,       \* the texts a rewriting model may answer with
    MaxRounds, MaxPhases, MaxChanges, MaxFaults

ASSUME CandidatesAssumption ==
    /\ Candidates \subseteq Nat /\ IsFiniteSet(Candidates) /\ OfTheRound \subseteq Candidates
    /\ Applies \in [Candidates -> SUBSET Characters]
    /\ Basis \in [Candidates -> SUBSET (Events \cup Strange)] /\ Events \cap Strange = {}
ASSUME BudgetsAssumption ==
    /\ {MaxGenerated, MaxEvaluated, MaxProjected, MaxRounds, MaxPhases,
        MaxChanges, MaxFaults} \subseteq Nat
    /\ Rewrites \subseteq Nat \ {0}

VARIABLES
    known,      \* known[ch]: the events whose known_by list names ch
    overlay,    \* the plot cognition of the session's scope
    round,      \* the round now played
    batch,      \* the prepared batch and the verdicts registered for it
    cache,      \* the Host's memory of first verdicts
    life,       \* where the runtime is in the character phase
    advice,     \* the finalized projection the runtime holds
    passed,     \* history: what an evaluator passed in this phase, or before
                \* and the Host remembers, and for what knowledge
    phases, changes, faults   \* counters that bound the model

vars == <<known, overlay, round, batch, cache, life, advice, passed, phases, changes, faults>>

Verdicts == {"pass", "withhold", "rewrite", "vague", "unavailable"}
Texts == [of : Candidates, version : Nat, rewrite : {0} \cup Rewrites]
Modes == {"full", "prospective"}
Lines == [text : Texts, mode : Modes]
Places == {"idle", "resolve", "judge", "register", "regenerate", "rewrite", "rewritten",
           "judge_again", "register_again", "finalize", "move"}
NoBatch == [who |-> "nobody"]
NoAdvice == [who |-> "nobody"]
Idle == [at |-> "idle", who |-> "nobody", item |-> 0, verdict |-> "pass", rewrite |-> 0, lost |-> FALSE]

------------------------------------------------------------------------------
(* What may be said to whom.                                                *)

\* Of the references a candidate rests on, those the character knows and those
\* it does not; a reference nobody can resolve spoils the candidate.
Exposable(c, who) == Basis[c] \cap known[who]
Withheld(c, who) == Basis[c] \ known[who]
Resolved(c) == Basis[c] \cap Strange = {}

\* Layer A: about this character, resolvable, and not wholly unknown to it.
Eligible(c, who) ==
    /\ who \in Applies[c]
    /\ Resolved(c)
    /\ Exposable(c, who) # {} \/ Withheld(c, who) = {}


\* The first n of a set in some order.
FirstOf(n, S, Before(_, _)) == {c \in S : Cardinality({d \in S : Before(d, c)}) < n}

\* Candidates arrive with the overlay's first; budgets sort by kind, then id,
\* and the kinds of the round's package sort first.
Arrives(c, d) == IF (c \in OfTheRound) = (d \in OfTheRound) THEN c < d ELSE d \in OfTheRound
Sorts(c, d) == IF (c \in OfTheRound) = (d \in OfTheRound) THEN c < d ELSE c \in OfTheRound

Collected(who) == {c \in Candidates \ OfTheRound : who \in Applies[c]} \cup OfTheRound
Offered(who) == FirstOf(MaxGenerated, Collected(who), Arrives)
Admissible(who) == {c \in Offered(who) : Eligible(c, who)}
Evaluated(who) == FirstOf(MaxEvaluated, Admissible(who), Sorts)

------------------------------------------------------------------------------
TypeOK ==
    /\ known \in [Characters -> SUBSET Events]
    /\ overlay \in [revision : Nat, authority : Nat, goals : Nat]
    /\ round \in 1..MaxRounds
    /\ batch = NoBatch \/
       /\ batch.items \subseteq Candidates
       /\ batch.first \in [batch.items -> Verdicts \cup {"none"}]
       /\ batch.second \in [batch.items -> Verdicts \cup {"none"}]
       /\ batch.rewrites \in [batch.items -> {0} \cup Rewrites]
       /\ batch.asked \subseteq batch.items
    /\ life.at \in Places /\ life.verdict \in Verdicts
    /\ advice = NoAdvice \/ advice.lines \subseteq Lines
    /\ phases \in 0..MaxPhases /\ changes \in 0..MaxChanges /\ faults \in 0..MaxFaults

Init ==
    /\ known \in [Characters -> SUBSET Events]
    /\ overlay = [revision |-> 1, authority |-> 1, goals |-> 1]
    /\ round = 1
    /\ batch = NoBatch /\ cache = {}
    /\ life = Idle /\ advice = NoAdvice
    /\ passed = {}
    /\ phases = 0 /\ changes = 0 /\ faults = 0

------------------------------------------------------------------------------
(* The Domain Host.                                                         *)

Bound == batch # NoBatch /\ batch.known = known[batch.who] /\ batch.round = round

BatchText(c) ==
    [of |-> c, version |-> IF c \in OfTheRound THEN batch.round ELSE batch.goals, rewrite |-> 0]
Rewritten(c, n) == [BatchText(c) EXCEPT !.rewrite = n]

Prepared(who) ==
    [who |-> who, round |-> round, known |-> known[who],
     revision |-> overlay.revision, authority |-> overlay.authority, goals |-> overlay.goals,
     offered |-> Offered(who), admissible |-> Admissible(who), items |-> Evaluated(who),
     first |-> [c \in Evaluated(who) |-> "none"], second |-> [c \in Evaluated(who) |-> "none"],
     rewrites |-> [c \in Evaluated(who) |-> 0], asked |-> {}]

\* The identity under which a verdict is remembered: scope, character, text as
\* the evaluator would see it, what the character knows and what is withheld
\* from it, the overlay's revision and its authority's fingerprint.
\* Mutant: what the character knows is left out of the identity.
ReuseKey_OfTheText(c, authority) ==
    [who |-> batch.who, text |-> BatchText(c), known |-> {}, revision |-> batch.revision, authority |-> authority]
ReuseKey(c, authority) ==
    [who |-> batch.who, text |-> BatchText(c), known |-> batch.known,
     revision |-> batch.revision, authority |-> authority]

Remembered(key) == {entry \in cache : entry.key = key}

\* What the Host makes of a first verdict and, where there was one, of the
\* second, when it finalizes the batch.
Outcome(c) ==
    CASE batch.first[c] \in {"none", "unavailable"} -> "unavailable"
      [] batch.first[c] = "withhold" -> "withheld"
      [] batch.first[c] = "pass" -> "passed"
      [] OTHER -> IF batch.rewrites[c] # 0 /\ batch.second[c] = "pass"
                  THEN "regenerated_passed" ELSE "regeneration_failed"

\* A text that rests on something hidden is offered as a prospect only.  What was
\* hidden is what was when the batch was prepared.
FinalMode(c) == IF Basis[c] \subseteq batch.known THEN "full" ELSE "prospective"
FinalText(c) == IF Outcome(c) = "passed" THEN BatchText(c) ELSE Rewritten(c, batch.rewrites[c])
Approved == {c \in batch.items : Outcome(c) \in {"passed", "regenerated_passed"}}
Included == FirstOf(MaxProjected, Approved, Sorts)

\* The forensic account of a batch: what became of each candidate.  One that
\* passed and found no room is recorded both times.
\* Mutant: the candidates left out by the evaluation budget are forgotten.
Account_OfTheItems ==
    {<<c, "structurally_ineligible">> : c \in batch.offered \ batch.admissible}
        \cup {<<c, Outcome(c)>> : c \in batch.items}
        \cup {<<c, "projection_excluded">> : c \in Approved \ Included}
Account ==
    {<<c, "structurally_ineligible">> : c \in batch.offered \ batch.admissible}
        \cup {<<c, "evaluation_excluded">> : c \in batch.admissible \ batch.items}
        \cup {<<c, Outcome(c)>> : c \in batch.items}
        \cup {<<c, "projection_excluded">> : c \in Approved \ Included}

Finalized ==
    [who |-> batch.who, round |-> batch.round, known |-> known[batch.who], goals |-> batch.goals,
     lines |-> {[text |-> FinalText(c), mode |-> FinalMode(c)] : c \in Included},
     offered |-> batch.offered, records |-> Account]

------------------------------------------------------------------------------
(* The runtime's walk through the batch.                                    *)

Session == <<known, overlay, round, phases, changes>>

GoesTo(place) == life' = [life EXCEPT !.at = place]

\* A call the Host refuses ends the walk: the move is made without advice.
GivesUp == GoesTo("move")

\* Of the evaluators' passes, those a later phase may still be given.
RememberedPasses ==
    {p \in passed : \E entry \in cache :
        entry.verdict = "pass" /\ entry.key.who = p.who /\ entry.key.text = p.text}

\* A call about a round the Host has forgotten throws, and the phase with it.
PhaseFails ==
    /\ life.lost /\ life.at \notin {"idle", "judge", "judge_again", "rewrite"}
    /\ life' = Idle /\ advice' = NoAdvice
    /\ passed' = RememberedPasses
    /\ UNCHANGED <<Session, batch, cache, faults>>

HostKnows == ~life.lost

\* The next item in the order of candidate ids, or the end of the walk.
\* Mutant: the next item may be the one just done.
Later_OrThis == {c \in batch.items : c >= life.item}
Later == {c \in batch.items : c > life.item}
Proceeds ==
    IF Later = {} THEN GoesTo("finalize")
    ELSE life' = [life EXCEPT !.at = "resolve", !.item = CHOOSE c \in Later : \A d \in Later : c <= d]

\* A batch is prepared from the overlay as it is, fresh or not.
Prepare(who) ==
    /\ life.at = "idle"
    /\ phases < MaxPhases /\ phases' = phases + 1
    /\ batch' = Prepared(who)
    /\ LET items == Evaluated(who)
       IN life' = [Idle EXCEPT !.who = who,
                     !.at = IF items = {} THEN "finalize" ELSE "resolve",
                     !.item = IF items = {} THEN 0 ELSE CHOOSE c \in items : \A d \in items : c <= d]
    /\ UNCHANGED <<known, overlay, round, changes, cache, advice, passed, faults>>

\* The Host looks for a verdict under the overlay's present fingerprint.
Resolve ==
    /\ life.at = "resolve" /\ HostKnows
    /\ LET found == Remembered(ReuseKey(life.item, overlay.authority))
       IN \/ /\ found = {}
             /\ GoesTo("judge")
          \/ \E entry \in found : life' = [life EXCEPT !.at = "register", !.verdict = entry.verdict]
    /\ UNCHANGED <<Session, batch, cache, advice, passed, faults>>

\* The evaluator sees the text and what the batch says the character knows; a
\* reply that breaks its contract twice counts as no evaluator at all.
Judges(text, next) ==
    \E v \in Verdicts :
        /\ life' = [life EXCEPT !.at = next, !.verdict = v]
        /\ passed' = IF v = "pass"
                     THEN passed \cup {[who |-> life.who, text |-> text, known |-> batch.known]} ELSE passed
        /\ UNCHANGED <<Session, batch, cache, advice, faults>>

\* The reply of an evaluator whose round the Host has forgotten goes nowhere.
JudgesForNobody ==
    /\ life.lost /\ life.at \in {"judge", "judge_again", "rewrite"}
    /\ life' = [life EXCEPT !.at = "register"]
    /\ UNCHANGED <<Session, batch, cache, advice, passed, faults>>

Judge == life.at = "judge" /\ HostKnows /\ Judges(BatchText(life.item), "register")

\* The first verdict: kept for the batch and remembered for later ones.  A
\* demand to rewrite without guidance is refused.
Register ==
    /\ life.at = "register" /\ HostKnows
    /\ IF Bound /\ life.verdict # "vague"
       THEN /\ batch' = [batch EXCEPT !.first[life.item] = life.verdict]
            /\ cache' = (cache \ Remembered(ReuseKey(life.item, batch.authority)))
                            \cup {[key |-> ReuseKey(life.item, batch.authority), verdict |-> life.verdict]}
            /\ IF life.verdict = "rewrite" THEN GoesTo("regenerate") ELSE Proceeds
       ELSE GivesUp /\ UNCHANGED <<batch, cache>>
    /\ UNCHANGED <<Session, advice, passed, faults>>

\* One rewriting per candidate, and only of a text that must be rewritten.
PrepareRegeneration ==
    /\ life.at = "regenerate" /\ HostKnows
    /\ IF Bound /\ life.item \notin batch.asked /\ batch.first[life.item] = "rewrite"
       THEN batch' = [batch EXCEPT !.asked = @ \cup {life.item}] /\ GoesTo("rewrite")
       ELSE GivesUp /\ UNCHANGED batch
    /\ UNCHANGED <<Session, cache, advice, passed, faults>>

\* The model answers with a text, or with none.
Rewrite ==
    /\ life.at = "rewrite" /\ HostKnows
    /\ \/ \E n \in Rewrites : life' = [life EXCEPT !.at = "rewritten", !.rewrite = n]
       \/ GivesUp
    /\ UNCHANGED <<Session, batch, cache, advice, passed, faults>>

FinalizeRegeneration ==
    /\ life.at = "rewritten" /\ HostKnows
    /\ IF Bound
       THEN batch' = [batch EXCEPT !.rewrites[life.item] = life.rewrite] /\ GoesTo("judge_again")
       ELSE GivesUp /\ UNCHANGED batch
    /\ UNCHANGED <<Session, cache, advice, passed, faults>>

JudgeAgain ==
    life.at = "judge_again" /\ HostKnows /\ Judges(Rewritten(life.item, life.rewrite), "register_again")

\* The second verdict, of a rewritten text only; it is not remembered.
RegisterAgain ==
    /\ life.at = "register_again" /\ HostKnows
    /\ IF Bound /\ life.verdict # "vague" /\ batch.rewrites[life.item] # 0
       THEN batch' = [batch EXCEPT !.second[life.item] = life.verdict] /\ Proceeds
       ELSE GivesUp /\ UNCHANGED batch
    /\ UNCHANGED <<Session, cache, advice, passed, faults>>

\* The batch is taken out before it is compared, so a refusal, or a forensic
\* record that cannot be written, loses it with every verdict in it.
Finalize ==
    /\ life.at = "finalize" /\ HostKnows
    /\ batch' = NoBatch
    /\ GoesTo("move")
    /\ \/ Bound /\ advice' = Finalized /\ UNCHANGED faults
       \/ Bound /\ faults < MaxFaults /\ faults' = faults + 1 /\ UNCHANGED advice
       \/ ~Bound /\ UNCHANGED <<advice, faults>>
    /\ UNCHANGED <<Session, cache, passed>>

\* The move is accepted or given up; an abandoned batch stays with the Host but
\* nothing names it again.
EndPhase ==
    /\ life.at = "move" /\ HostKnows
    /\ life' = Idle /\ batch' = NoBatch /\ advice' = NoAdvice
    /\ passed' = RememberedPasses
    /\ UNCHANGED <<Session, cache, faults>>

------------------------------------------------------------------------------
(* What happens meanwhile.                                                  *)

Changes == changes < MaxChanges /\ changes' = changes + 1
Undisturbed == UNCHANGED <<phases, batch, cache, life, advice, passed, faults>>

\* Another request's commit tells a character of an event, or is undone.
Learn(who, e) ==
    /\ e \notin known[who] /\ Changes
    /\ known' = [known EXCEPT ![who] = @ \cup {e}]
    /\ UNCHANGED <<overlay, round>> /\ Undisturbed

Unlearn(who, e) ==
    /\ e \in known[who] /\ Changes
    /\ known' = [known EXCEPT ![who] = @ \ {e}]
    /\ UNCHANGED <<overlay, round>> /\ Undisturbed

\* A commit leaves plot work pending, which rewrites the overlay; a lane brings
\* it up to date, by new goals or by a new fingerprint alone.
FallBehind ==
    /\ Changes
    /\ overlay' = [overlay EXCEPT !.revision = @ + 1]
    /\ UNCHANGED <<known, round>> /\ Undisturbed

CatchUp ==
    /\ Changes
    /\ \E changed \in {0, 1} :
         overlay' = [revision |-> overlay.revision + 1, authority |-> overlay.authority + 1,
                     goals |-> overlay.goals + changed]
    /\ UNCHANGED <<known, round>> /\ Undisturbed

NextRound ==
    /\ life.at = "idle" /\ round < MaxRounds
    /\ round' = round + 1
    /\ UNCHANGED <<known, overlay, changes>> /\ Undisturbed

\* The Host's batches, verdicts and rounds are in memory only.
Crash ==
    /\ faults < MaxFaults /\ faults' = faults + 1
    /\ batch' = NoBatch /\ cache' = {}
    /\ life' = [life EXCEPT !.lost = life.at # "idle"]
    /\ UNCHANGED <<Session, advice, passed>>

Walk ==
    \/ Resolve \/ Judge \/ Register
    \/ PrepareRegeneration \/ Rewrite \/ FinalizeRegeneration \/ JudgeAgain \/ RegisterAgain
    \/ Finalize \/ EndPhase \/ PhaseFails \/ JudgesForNobody

Next ==
    \/ \E who \in Characters : Prepare(who)
    \/ Walk
    \/ \E who \in Characters, e \in Events : Learn(who, e) \/ Unlearn(who, e)
    \/ FallBehind \/ CatchUp \/ NextRound \/ Crash

Spec == Init /\ [][Next]_vars

\* The phase awaits each call and goes on; every call is answered in the end.
FairSpec == Spec /\ WF_vars(Walk)

------------------------------------------------------------------------------
(* What the projection promises.                                            *)

\* Nothing becomes advice but a text an evaluator has passed, word for word,
\* for this character knowing what it knows when the batch is finalized: not by
\* a verdict remembered from when it knew something else, nor by one about the
\* text before it was rewritten (finalize_character_projection_batch,
\* plot_cognition_layer_b_reuse.py).
AdviceWasJudged ==
    advice # NoAdvice =>
        \A line \in advice.lines :
            [who |-> advice.who, text |-> line.text, known |-> advice.known] \in passed

\* Advice given in full rests on nothing hidden from the character, and a
\* prospect on something it knows, at the moment the batch is finalized
\* (_projection_mode_for, assess_structural_eligibility).
AdviceIsKnowable ==
    advice # NoAdvice =>
        \A line \in advice.lines :
            IF line.mode = "full" THEN Basis[line.text.of] \subseteq advice.known
            ELSE Basis[line.text.of] \cap advice.known # {}

\* The forensic record accounts for every candidate the Host looked at, and
\* says "passed" of one only if it became advice or found no room
\* (ProjectionForensicHandoff).
AllAccountedFor ==
    advice # NoAdvice =>
        LET SaidToPass == {r[1] : r \in {q \in advice.records : q[2] \in {"passed", "regenerated_passed"}}}
            Shown == {line.text.of : line \in advice.lines}
            Excluded == {r[1] : r \in {q \in advice.records : q[2] = "projection_excluded"}}
        IN /\ {r[1] : r \in advice.records} = advice.offered
           /\ SaidToPass = Shown \cup Excluded /\ Shown \cap Excluded = {}

\* A character phase always gets past its projection: refusals, lost replies
\* and a dead Host end it, no candidate holds it up (runCharacterProjectionLifecycle).
PhasesEnd == life.at # "idle" ~> life.at = "idle"
=============================================================================

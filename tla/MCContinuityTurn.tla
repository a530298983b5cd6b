-------------------------- MODULE MCContinuityTurn --------------------------
(***************************************************************************)
(* ContinuityTurn on small casts.  A move has many independent parts, so   *)
(* the moves are grouped by theme, each varying the parts that bear on one *)
(* another, and a setup picks the theme and the cast that theme needs.     *)
(***************************************************************************)
EXTENDS ContinuityTurn

CONSTANTS alice, bob, carol, control, access, safety, NoPressure, NoWords, here

MCCast == << alice, bob, carol >>

Plain == [c \in {control, access, safety} |-> "advanced"]

\* A move that changes nothing but the counter.
Quiet ==
    {[who |-> c, asks |-> << >>, kind |-> NoPressure, named |-> {}, stock |-> TRUE,
      resolves |-> {}, escalates |-> {}, effect |-> Plain, material |-> FALSE,
      shift |-> "steady", tags |-> {}, beats |-> {}, subject |-> NoWords,
      notable |-> FALSE, outcomes |-> << >>] : c \in ToSet(MCCast)}

PresenceMoves ==
    {[m EXCEPT !.asks = asks] : m \in Quiet,
        asks \in {<< >>, << "off_focal", "open" >>, << "open", "open" >>,
                  << "reentry", "open" >>} \cup {<< ask >> : ask \in Scene!Asks}}

PaceMoves ==
    {[m EXCEPT !.shift = shift, !.tags = tags] : m \in {q \in Quiet : q.who = alice},
        shift \in {"steady", "escalate", "soften"}, tags \in SUBSET {"up", "down"}}

PressureMoves ==
    {[m EXCEPT !.kind = kind, !.named = named, !.stock = stock, !.resolves = over,
               !.escalates = worse, !.material = material] :
        m \in {q \in Quiet : q.who \in {alice, bob}},
        kind \in {NoPressure, control, access}, named \in {{}, {carol}},
        stock \in BOOLEAN, material \in BOOLEAN,
        << over, worse >> \in {<< {}, {} >>, << {control}, {} >>, << {}, {access} >>}}
    \cup {[m EXCEPT !.kind = safety, !.stock = FALSE] : m \in {q \in Quiet : q.who = alice}}

TalkMoves ==
    {[m EXCEPT !.asks = asks, !.beats = beats, !.subject = subject, !.named = named,
               !.notable = notable] :
        m \in Quiet, asks \in {<< >>, << "off_focal" >>},
        beats \in {{}, {[audibility |-> "public", audience |-> {}]}} \cup
                  {{[audibility |-> "directed", audience |-> {c}]} : c \in {bob, carol}},
        subject \in {NoWords, here}, named \in {{}, {carol}}, notable \in BOOLEAN}

OutcomeMoves ==
    {[m EXCEPT !.outcomes = settled, !.notable = notable] :
        m \in {q \in Quiet : q.who = alice}, notable \in BOOLEAN,
        settled \in {<< >>} \cup
            {<< [slot |-> s, value |-> v, promoted |-> p] >> :
                s \in {1, 2}, v \in 0..2, p \in BOOLEAN} \cup
            {<< [slot |-> 1, value |-> 1, promoted |-> TRUE],
                [slot |-> s, value |-> 2, promoted |-> TRUE] >> : s \in {1, 2}}}

MCMoves ==
    [presence |-> PresenceMoves, pace |-> PaceMoves, pressure |-> PressureMoves,
     talk |-> TalkMoves, settling |-> OutcomeMoves]

Seed == [status |-> "active", kind |-> control, people |-> {alice, carol},
         stock |-> TRUE, last |-> 0]

Setup(theme, turns, player, mustRemain, anchor, seeded) ==
    [theme |-> theme, turns |-> turns, player |-> player, mustRemain |-> mustRemain,
     anchor |-> anchor, seeded |-> seeded]

MCSetups ==
    {Setup("presence", 7, player, stays, anchor, << >>) :
        player \in {{}, {carol}}, stays \in {{}, {bob}}, anchor \in {{}, {alice}}}
    \cup {Setup("pressure", 4, {carol}, {}, {}, seeded) : seeded \in {<< >>, << Seed >>}}
    \cup {Setup("pace", 6, {}, {}, {}, << >>), Setup("talk", 3, {}, {}, {}, << >>),
          Setup("settling", 4, {}, {}, {}, << >>)}

=============================================================================

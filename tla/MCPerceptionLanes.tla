-------------------------- MODULE MCPerceptionLanes --------------------------
(***************************************************************************)
(* PerceptionLanes on a cast of three.  A setup picks a theme: a turn of   *)
(* the player broken up in front of everyone; one seen across two zones;   *)
(* what the characters do and a narrator tells.                            *)
(***************************************************************************)
EXTENDS PerceptionLanes

CONSTANTS alice, bob, player, hall, yard, a, b

MCCast == {alice, bob, player}

InHall == [zone |-> [c \in Cast |-> hall], portal |-> NoPortal, watched |-> {}]

\* The player is in the hall; the others anywhere, the zones joined anyhow.
Stages ==
    {[zone |-> (alice :> za @@ bob :> zb @@ player :> zp), portal |-> portal,
      watched |-> watched] :
        za \in {yard, Nowhere}, zb \in {hall, Nowhere}, zp \in {hall, Nowhere},
        portal \in {NoPortal} \cup Portals, watched \in {{}, {<< yard, hall >>}}}

Setup(theme, context, past) ==
    [theme |-> theme, context |-> context, past |-> past, present |-> Cast]

\* An opening for everyone and for alice, and a move made before the records.
Past ==
    << Entry("opening", Player, "valid",
             << Unit("observable_scene", Reach("public", {}), NoVoice, 0, NoLines, "none"),
                Unit("observable_event", Reach("directed", {alice}), NoVoice, 0, NoLines, "none") >>,
             << >>, 0),
       Entry("commit", alice, "historical", << >>,
             << [type |-> "action", to |-> Reach("present", {})],
                [type |-> "speech", to |-> Reach("private", {player})] >>, 0) >>

MCSetups ==
    {Setup("turn", InHall, << >>), Setup("deeds", InHall, << >>), Setup("past", InHall, Past)}
        \cup {Setup("afar", stage, << >>) : stage \in Stages}

Aloud == Reach("public", {})
ToAlice(scope) == Reach(scope, {alice})

Typed(source, sense, wide) == [source |-> source, sense |-> sense, wide |-> wide]

MCTurns ==
    [turn |-> {Typed(source, "auditory", FALSE) :
                   source \in {<< a, b >>, << a, Space, a >>, << a, Space, b, Mark >>,
                               << a, Space, b, Space, a, Space, b, Mark >>}}
              \cup {Typed(<< a >>, "visual", TRUE)},
     afar |-> {Typed(<< a, b >>, sense, FALSE) :
                   sense \in {"visual", "auditory", "none", "unclear", "mixed"}},
     deeds |-> {}, past |-> {}]

Quote(kind, text, to) == [kind |-> kind, text |-> text, to |-> to]

Quotes ==
    {Quote(kind, text, to) :
        kind \in {"speech", "internal"},
        text \in {<< a >>, << b >>, << a, Space, b >>},
        to \in {Aloud, ToAlice("private")}} \ {Quote("internal", << b >>, Aloud)}

MCAnswers ==
    [turn |-> {<< >>} \cup {<< q >> : q \in Quotes} \cup {<< q, r >> : q, r \in Quotes},
     afar |-> {<< Quote(k, << a >>, to), Quote("speech", << b >>, Aloud) >> :
                   k \in {"speech", "observable_scene", "internal"},
                   to \in {ToAlice("private"), ToAlice("directed"), Reach("environmental", {})}},
     deeds |-> {}, past |-> {}]

Act(to) == [type |-> "action", to |-> to]
Say(to) == [type |-> "speech", to |-> to]

Beats == {Act(Reach("present", {})), Act(Reach("private", {bob})), Act(Reach("private", {})),
          Say(Aloud), Say(Reach("private", {player})), Say(Reach("directed", {bob}))}

Move(who, beats, leaves, enters) ==
    [who |-> who, beats |-> beats, leaves |-> leaves, enters |-> enters]

MCMoves ==
    [turn |-> {Move(bob, << Act(Reach("present", {})) >>, {bob}, {})},
     afar |-> {},
     deeds |-> {Move(who, beats, leaves, {}) :
                    who \in {alice, bob}, leaves \in {{}, {alice}},
                    beats \in {<< x >> : x \in Beats} \cup {<< x, y >> : x, y \in Beats}},
     past |-> {Move(bob, << Say(Aloud) >>, {alice}, {}), Move(bob, << Say(Aloud) >>, {}, {alice})}]

Line(k, manner) == [beat \in {k} |-> manner]

\* A narrator who quotes the wrong thing, or thinks aloud, is refused; one
\* whose speech, thought or observation holds a line beside is not looked at.
Told ==
    {Unit("observable_scene", Aloud, NoVoice, 0, NoLines, "none"),
     Unit("observable_event", Reach("present", {}), NoVoice, 1, Line(1, "whole"), "none"),
     Unit("observable_event", Reach("present", {}), NoVoice, 0, Line(2, "partly"), "none"),
     Unit("speech", Aloud, NoVoice, 1, Line(1, "whole"), "none"),
     Unit("speech", Aloud, NoVoice, 1, [beat \in {1, 2} |-> "whole"], "none"),
     Unit("speech", Reach("directed", {bob}), NoVoice, 2, Line(2, "within"), "none"),
     Unit("speech", Aloud, NoVoice, 2, Line(1, "whole"), "none"),
     Unit("internal", Aloud, NoVoice, 0, NoLines, "none"),
     Unit("internal", Reach("present", {}), NoVoice, 0, Line(2, "whole"), "none"),
     Unit("presentation_only", Aloud, NoVoice, 2, Line(2, "whole"), "none")}

MCTales ==
    [turn |-> {<< >>}, afar |-> {},
     deeds |-> {<< >>} \cup {<< u >> : u \in Told} \cup {<< u, w >> : u, w \in Told},
     past |-> {<< >>, << Unit("speech", Aloud, NoVoice, 2, Line(2, "whole"), "none") >>}]

MCMaxEntries == [turn |-> 2, afar |-> 1, deeds |-> 2, past |-> 5]

=============================================================================

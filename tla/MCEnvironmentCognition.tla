------------------------ MODULE MCEnvironmentCognition ------------------------
(***************************************************************************)
(* Instances of EnvironmentCognition for TLC.                              *)
(***************************************************************************)
EXTENDS EnvironmentCognition

CONSTANTS hall, yard, lamp, door, lit, dark, ada, bo, left_out, nobody, scene

MCSessions == {scene}
MCPlaces == {hall, yard}
MCKeys == {lamp, door}
MCAuthored == [p \in MCPlaces |-> IF p = hall THEN {[key |-> lamp, value |-> dark]} ELSE {}]
MCCast == {ada, bo}

Need(id) == [id |-> id, asked |-> TRUE]
Blank(id) == [id |-> id, asked |-> FALSE]

Res(need, category, key, value) ==
    [need |-> need, category |-> category, key |-> key, value |-> value,
     said |-> left_out, claims |-> left_out, replaces |-> FALSE]

Given(sufficient, needs, resolutions) ==
    [shape |-> "given", sufficient |-> sufficient, needs |-> needs, resolutions |-> resolutions]

Enough == Given(TRUE, <<>>, <<>>)
Lit == Res("n1", "B2", lamp, lit)
Dark == [Res("n1", "B2", lamp, dark) EXCEPT !.replaces = TRUE]
Establish == Given(FALSE, <<Need("n1")>>, <<Lit>>)
Replace == Given(FALSE, <<Need("n1")>>, <<Dark>>)
Contradict == Given(FALSE, <<Need("n1")>>, <<[Dark EXCEPT !.replaces = FALSE]>>)
TwoNeeds == Given(FALSE, <<Need("n1"), Need("n2")>>, <<Lit, Res("n2", "B2", door, dark)>>)
Mixed == Given(FALSE, <<Need("n1"), Need("n2")>>,
               <<Res("n2", "B1", left_out, left_out), Res("n1", "C", lamp, lit)>>)
NoKey == Given(FALSE, <<Need("n1")>>, <<Res("n1", "B2", left_out, lit)>>)
SaidYes == Given(FALSE, <<Need("n1")>>, <<[Lit EXCEPT !.said = "yes"]>>)
Shifted == Given(FALSE, <<Blank("n0"), Need("n1")>>, <<[Lit EXCEPT !.claims = "match"]>>)
OnItsWord == Given(TRUE, <<>>, <<[Lit EXCEPT !.claims = "match"]>>)
Invalid == [OnItsWord EXCEPT !.needs = <<Need("n1")>>]
Silent == [Establish EXCEPT !.shape = "silent"]
Broken == [Establish EXCEPT !.shape = "broken"]

MCAnswers == {Enough, Establish, Replace, Contradict, TwoNeeds, Mixed, NoKey, SaidYes, Shifted,
              OnItsWord, Invalid, Silent, Broken}

MCAccess == {[throws |-> FALSE, indexed |-> TRUE, fits |-> TRUE],
             [throws |-> FALSE, indexed |-> TRUE, fits |-> FALSE],
             [throws |-> FALSE, indexed |-> FALSE, fits |-> FALSE],
             [throws |-> TRUE, indexed |-> TRUE, fits |-> FALSE]}

MCKnowers == {{ada, bo}, {ada}, {}}

MCSkips == BOOLEAN
===============================================================================

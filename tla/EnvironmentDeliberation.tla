------------------------ MODULE EnvironmentDeliberation ------------------------
(***************************************************************************)
(* How the Host reads the Narrator's answer about the environment of a     *)
(* turn: whether it determines anything, what it asks the Librarian, how   *)
(* the answers of the Librarian are reconciled with it, and what the       *)
(* narration is then obliged to say.  (narrator_environment_cognition.py,  *)
(* narrator_environment_sufficiency.py, narrator_environment_authority.py) *)
(*                                                                         *)
(* An answer is [shape, sufficient, needs, resolutions].  A need is        *)
(* [id, asked]: one without a question is not a need.  A resolution is     *)
(* [need, category, key, value, said, claims, replaces]: said is what it   *)
(* says of its sufficiency, claims the mediation outcome it claims for     *)
(* itself, and replaces whether it supersedes what the property stands on. *)
(***************************************************************************)
EXTENDS LibrarianAccess, SequencesExt

CONSTANT Missing    \* a field the answer left out

Absent(x) == x = Missing

Asked(answer) == SelectSeq(answer.needs, LAMBDA need : need.asked)

\* A sufficient answer asks nothing and an insufficient one asks something.
\* Whatever else comes back leaves the sufficiency undetermined.
Determined(answer) == answer.shape = "given" /\ answer.sufficient = (Asked(answer) = <<>>)

Categories(answer) == {answer.resolutions[n].category : n \in DOMAIN answer.resolutions}

\* A constrained assessment that turns out to be about more than one bounded
\* property is asked for again, in depth.
Escalates(answer) ==
    \/ answer.shape # "given"
    \/ Len(answer.needs) # 1
    \/ Categories(answer) # {"B2"}
    \/ \E n \in DOMAIN answer.resolutions : answer.resolutions[n].claims \notin {Missing, "no_match"}

Requests(answer) == IF Determined(answer) THEN Asked(answer) ELSE <<>>

(***************************************************************************)
(* Reconciliation.  The host of the inference labels the n-th outcome with *)
(* the n-th need the model wrote, while the n-th request was made for the  *)
(* n-th need that has a question.                                          *)
(***************************************************************************)
Labelled(answer, outcomes, need) ==
    LET places == {n \in DOMAIN outcomes : answer.needs[n].id = need}
    IN IF places = {} THEN Missing ELSE outcomes[Min(places)]

Unresolved(need) ==
    [need |-> need, category |-> "cannot", key |-> Missing, value |-> Missing,
     said |-> Missing, claims |-> Missing, replaces |-> FALSE]

\* The last resolution of a need is the one that counts, the first one says
\* whether it is sufficient.
Resolution(answer, need) ==
    LET mine == {n \in DOMAIN answer.resolutions : answer.resolutions[n].need = need}
    IN IF mine = {} THEN Unresolved(need)
       ELSE [answer.resolutions[Max(mine)] EXCEPT !.said = answer.resolutions[Min(mine)].said]

Safe(outcome) == outcome \in {"match", "no_match"}

Sufficient(resolution) ==
    \/ resolution.said = "yes"
    \/ Absent(resolution.said) /\ resolution.category \in {"A", "B1", "C"}

Reconciled(answer, outcomes, need) ==
    LET resolution == Resolution(answer, need)
        labelled == Labelled(answer, outcomes, need)
        mediation == IF Absent(labelled) THEN resolution.claims ELSE labelled
    IN [resolution EXCEPT
          !.claims = mediation,
          !.category =
            IF ~Safe(mediation) THEN "cannot"
            ELSE IF Sufficient(resolution) /\ (mediation = "match" \/ @ \in {"A", "B1", "cannot"})
            THEN "A" ELSE @]

Resolutions(answer, outcomes) ==
    IF answer.sufficient
    THEN answer.resolutions
    ELSE [n \in DOMAIN Asked(answer) |-> Reconciled(answer, outcomes, Asked(answer)[n].id)]

(***************************************************************************)
(* What the narration is obliged to do about each need.                    *)
(***************************************************************************)
State(answer, resolution) ==
    IF ~Safe(resolution.claims) THEN "failure"
    ELSE IF Sufficient(Resolution(answer, resolution.need)) THEN "sufficient"
    ELSE IF resolution.category = "cannot" THEN "unresolved"
    ELSE "insufficient"

Obligation(answer, resolution) ==
    LET state == State(answer, resolution)
    IN [need |-> resolution.need, state |-> state, category |-> resolution.category,
        key |-> IF state = "failure" THEN Missing ELSE resolution.key,
        value |-> IF state = "failure" THEN Missing ELSE resolution.value,
        behavior |->
          IF \/ state = "sufficient"
             \/ state = "insufficient" /\ resolution.category \in {"A", "B1", "B2"}
          THEN "communicate_grounded" ELSE "bounded_refusal"]

Alone(behavior) ==
    [need |-> Missing, state |-> behavior, category |-> Missing, key |-> Missing,
     value |-> Missing, behavior |-> behavior]

Obligations(answer, outcomes) ==
    IF answer.sufficient
    THEN <<Alone("no_material_obligation")>>
    ELSE [n \in DOMAIN Asked(answer) |-> Obligation(answer, Reconciled(answer, outcomes, Asked(answer)[n].id))]

(***************************************************************************)
(* The Host's verdict on a property the Narrator would establish, given    *)
(* the effective value of the property at the place, if any.               *)
(***************************************************************************)
Authorized(resolution, effective) ==
    /\ resolution.category = "B2"
    /\ Safe(resolution.claims)
    /\ ~Absent(resolution.key) /\ ~Absent(resolution.value)
    /\ resolution.value \notin effective \/ resolution.replaces

\* After the verdicts an insufficient property that was not accepted is not told.
Refreshed(obligation, acceptedNeeds) ==
    IF obligation.behavior # "communicate_grounded" \/ obligation.category # "B2"
    THEN obligation
    ELSE IF obligation.need \in acceptedNeeds
    THEN [obligation EXCEPT !.state = "sufficient"]
    ELSE IF obligation.state = "insufficient"
    THEN [obligation EXCEPT !.state = "unresolved", !.behavior = "bounded_refusal"]
    ELSE obligation
===============================================================================

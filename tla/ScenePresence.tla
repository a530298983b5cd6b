---------------------------- MODULE ScenePresence ----------------------------
(***************************************************************************)
(* Who is on stage.  Continuity keeps the scene's presence lists (present, *)
(* offstage, the status of each character) and the excursions that take a  *)
(* character out of the scene.  A committed move may carry semantic        *)
(* proposals of the acting character about itself: leave the focus, come   *)
(* back, open, update or close an excursion.  This module has the legality *)
(* of the proposals, the excursion mutations they compile to and the       *)
(* presence pipeline every change goes through: reconcile the lists, hold  *)
(* somebody on stage, strip the excursions.  It has no variables: a stage  *)
(* is a record, and an operator maps a stage to the next one.              *)
(***************************************************************************)
EXTENDS Naturals, Sequences, FiniteSets, SequencesExt

CONSTANT
    CastOrder   \* the cast, in the order of the role assignments

Cast == ToSet(CastOrder)

\* "departed" is read by the pipeline and written by none of its callers.
Statuses == {"", "onstage", "temporary_offstage"}

Asks == {"off_focal", "reentry", "open", "update", "close"}

Excursions == [who : SUBSET Cast, active : BOOLEAN]

Stages ==
    [present : SeqOf(Cast, Len(CastOrder)),
     offstage : SeqOf(Cast, Len(CastOrder)),
     status : [Cast -> Statuses],
     excursions : Seq(Excursions)]

OpeningStage ==
    [present |-> CastOrder, offstage |-> << >>,
     status |-> [c \in Cast |-> ""], excursions |-> << >>]

Present(stage) == ToSet(stage.present)

Offstage(stage) == ToSet(stage.offstage)

\* The participants of the active excursions: E_active.
Away(stage) ==
    UNION {stage.excursions[i].who : i \in
             {j \in DOMAIN stage.excursions : stage.excursions[j].active}}

ExcursionOf(stage, c) ==
    {i \in DOMAIN stage.excursions :
        stage.excursions[i].active /\ c \in stage.excursions[i].who}

Without(list, people) == SelectSeq(list, LAMBDA c : c \notin people)

-----------------------------------------------------------------------------
(* The pipeline. *)

Stripped(stage) == [stage EXCEPT !.present = Without(@, Away(stage))]

Purged(stage) ==
    [stage EXCEPT !.offstage = Without(@, Away(stage)),
                  !.status = [c \in Cast |-> IF c \in Away(stage) THEN "" ELSE @[c]]]

Synced(stage) == Purged(Stripped(stage))

Reconciled(stage) == [stage EXCEPT !.offstage = Without(@, Present(stage))]

Reentered(stage, c) ==
    [stage EXCEPT !.offstage = Without(@, {c}),
                  !.present = IF c \in Present(stage) THEN @ ELSE Append(@, c),
                  !.status[c] = "onstage"]

\* ensure_at_least_one_present_character: the first character that left, else
\* the first of the cast, comes back to an empty stage.
Held(stage, leaving) ==
    LET may(c) == c \notin Away(stage) /\ c \notin leaving
        soft(c) == may(c) /\ stage.status[c] # "onstage"
        tiers == << SelectSeq(stage.offstage, soft),
                    SelectSeq(stage.offstage, may),
                    SelectSeq(CastOrder, may) >>
        called == FlattenSeq(tiers)
    IN IF stage.present # << >> \/ called = << >>
       THEN stage
       ELSE Reentered(stage, Head(called))

Resynced(stage) == Synced(Held(Reconciled(stage), {}))

RestoredAfterClose(stage, people) ==
    LET back == SelectSeq(CastOrder, LAMBDA c : c \in people \ Away(stage))
        reentered[i \in 0..Len(back)] ==
            IF i = 0 THEN stage ELSE Reentered(reentered[i - 1], back[i])
    IN Synced(Held(Reconciled(reentered[Len(back)]), {}))

-----------------------------------------------------------------------------
(* Proposals: all of them are judged against the stage before the turn. *)

LegalAsk(stage, mustRemain, c, ask) ==
    CASE ask = "off_focal" -> /\ c \notin mustRemain
                              /\ c \in Present(stage)
                              /\ c \notin Away(stage)
      [] ask = "reentry" -> /\ c \notin Present(stage)
                            /\ c \notin Away(stage)
      [] ask = "open" -> ExcursionOf(stage, c) = {}
      [] ask \in {"update", "close"} -> ExcursionOf(stage, c) # {}

AsksAccepted(stage, mustRemain, c, asks) ==
    \A i \in DOMAIN asks : LegalAsk(stage, mustRemain, c, asks[i])

\* One mutation for each excursion and source: two openings, or two changes of
\* one excursion, are refused; the anchor character takes part in none, and
\* closing asks nothing of it.
MutationsCompose(anchor, c, asks) ==
    LET of(ops) == Cardinality({i \in DOMAIN asks : asks[i] \in ops})
    IN /\ of({"open"}) <= 1
       /\ of({"update", "close"}) <= 1
       /\ c \in anchor => of({"open", "update"}) = 0

ExcursionsApplied(stage, c, asks) ==
    LET mine == CHOOSE i \in ExcursionOf(stage, c) :
                   \A j \in ExcursionOf(stage, c) : i <= j
        closed == [stage EXCEPT !.excursions[mine].active = FALSE]
        moved == [stage EXCEPT !.excursions[mine].who = {c}]
    IN CASE "open" \in ToSet(asks) ->
              Resynced([stage EXCEPT !.excursions =
                            Append(@, [who |-> {c}, active |-> TRUE])])
         [] "update" \in ToSet(asks) ->
              IF stage.excursions[mine].who = {c} THEN stage ELSE Resynced(moved)
         [] "close" \in ToSet(asks) ->
              RestoredAfterClose(Resynced(closed), stage.excursions[mine].who)
         [] OTHER -> stage

AsksApplied(stage, c, asks) ==
    LET left == [stage EXCEPT
                    !.present = Without(@, {c}),
                    !.offstage = IF c \in ToSet(@) THEN @ ELSE Append(@, c),
                    !.status[c] = "temporary_offstage"]
    IN IF "off_focal" \in ToSet(asks) THEN left
       ELSE IF "reentry" \in ToSet(asks) THEN Reentered(stage, c) ELSE stage

\* The presence part of a committed turn, after its excursions were applied.  A
\* character bound to remain that is off stage is not the one called back.
StageUpdated(stage, mustRemain, c, asks) ==
    LET asked == Reconciled(AsksApplied(stage, c, asks))
        leaving == {x \in {c} \cap mustRemain :
                       /\ asked.status[x] = "temporary_offstage"
                       /\ x \notin Present(asked)}
    IN Synced(Held(asked, leaving))

-----------------------------------------------------------------------------
(* Whom the kernel lets act: present, not off stage, not the player's.  When   *)
(* nobody is listed as present the whole cast stands in for the list.          *)

Eligible(stage, player) ==
    ((IF stage.present = << >> THEN Cast ELSE Present(stage)) \ Offstage(stage)) \ player

=============================================================================

------------------------ MODULE MCRoundOrchestration ------------------------
(* Two characters who may speak, and the scenes they may be in. *)
EXTENDS RoundOrchestration, TLC

CONSTANTS ayame, bob

MCCharacters == {ayame, bob}
MCScenes ==
    {[present |-> {ayame, bob}, offstage |-> {}],
     [present |-> {}, offstage |-> {bob}]}
MCFaults == {"host", "save", "lost", "evidence", "others", "exit"}
=============================================================================

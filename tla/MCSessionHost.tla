--------------------------- MODULE MCSessionHost ---------------------------
(***************************************************************************)
(* Instances of SessionHost for TLC.  Two requests race for the first      *)
(* continuity turn (a move and its regenerated candidate), a third is      *)
(* computed for the second turn.                                           *)
(***************************************************************************)
EXTENDS SessionHost, TLC

CONSTANTS r1, r2, r3, k1, k2

MCRequests == {r1, r2, r3}
MCExpected == (r1 :> 0) @@ (r2 :> 0) @@ (r3 :> 1)
TwoRounds == {k1, k2}
OneRound == {k1}

RoundSymmetry == Permutations(TwoRounds)

WholeFileFaults == {"refuse", "index", "promote", "plot", "crash"}
TornFaults == {"tear", "crash"}

AllCalls == Handlers
CommitCalls == {"create", "commit", "provenance"}
============================================================================

----------------------- MODULE MCCharacterProjection -----------------------
(***************************************************************************)
(* A goal of the overlay that rests on two events, a pressure that rests   *)
(* on one of them, and two thoughts of the round's package: one that rests *)
(* on nothing and one whose basis nobody can resolve.                      *)
(***************************************************************************)
EXTENDS CharacterProjection, TLC

CONSTANTS ann, heard, seen, rumour

MCApplies == [c \in Candidates |-> {ann}]
MCBasis == 1 :> {heard, seen} @@ 2 :> {seen} @@ 3 :> {} @@ 4 :> {rumour}
=============================================================================

------------------------------ MODULE MCTurns -------------------------------
(* Every text of up to MaxLength characters. *)
EXTENDS Turns

CONSTANT MaxLength

SomeTexts == UNION {[1..n -> Characters] : n \in 0..MaxLength}
=============================================================================

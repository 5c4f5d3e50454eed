------------------------------ MODULE MCHistory ------------------------------
(* MatchHistory with small constants: a millisecond of three units, so that *)
(* a pause can fall between two of them and a float be off by one.          *)
EXTENDS MatchHistory

MCIndeterminate == {0}
=============================================================================

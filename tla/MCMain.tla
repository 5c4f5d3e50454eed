------------------------------- MODULE MCMain -------------------------------
(* MainLoop with small constants.                                           *)
EXTENDS MainLoop

\* An uninitialised int that is no time of this match.
MCIndeterminate == {4800}
=============================================================================

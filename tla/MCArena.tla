------------------------------- MODULE MCArena -------------------------------
(* The arena with the code's own times, in half seconds.                    *)
EXTENDS Animations

\* An uninitialised int: zero, a plausible time, and one that is no time.
MCIndeterminate == {0, 7, 4800}
=============================================================================

------------------------------- MODULE MCLink -------------------------------
(* SegmentLink with a ring smaller than a frame.                            *)
EXTENDS SegmentLink

\* A display that is off (PreStaging, End) and a clock, in which a digit in the
\* wrong place shows.
MCTexts == { <<0, 0, 0>>, <<49, 48, 50>> }

\* What an uninitialised _remTime of 4800 seconds is formatted as.
UninitialisedTexts == { <<49, 48, 50>>, <<128, 48, 48>> }

MCErased == {255}
NoMessages == {}
=============================================================================

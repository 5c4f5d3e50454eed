---------------------------- MODULE MCLedSegment ----------------------------
(* LedSegment with two LEDs and colours that tell the channels and the ends *)
(* of their bytes apart.                                                    *)
EXTENDS LedSegment

MCColours == { [r |-> 0, g |-> 0, b |-> 0], [r |-> 255, g |-> 255, b |-> 255],
               [r |-> 128, g |-> 1, b |-> 90], [r |-> 1, g |-> 120, b |-> 128] }
=============================================================================

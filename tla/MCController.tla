---------------------------- MODULE MCController ----------------------------
(* LargeSegmentController with a small ring and a handful of messages.      *)
EXTENDS LargeSegmentController

\* The host's frame in its two writes, and one message per special command.
MCMessages == { <<CURSOR_CMD, 0>>, <<48, 49, 50>>,
                <<CURSOR_CMD, 3, 51>>, <<RESET_CMD>>, <<DECIMAL_CMD, 1>>,
                <<DIGIT_CMD[1], 5>>, <<DIGIT_CMD[3], 133>>,
                <<TWI_ADDRESS_CMD, 0>>, <<TWI_ADDRESS_CMD, 98>>, <<129, 7>> }

MCErased == {0, 97, 255}
=============================================================================

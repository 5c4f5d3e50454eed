------------------------------ MODULE ByteQueue ------------------------------
(***************************************************************************)
(* What the big display's receive buffer promises: bytes come out in the   *)
(* order they came in over the wire, a byte is dropped only when Capacity  *)
(* bytes are waiting, and only a loss of power empties the queue.          *)
(***************************************************************************)
EXTENDS Naturals, Sequences

CONSTANTS Byte, Capacity

VARIABLES
  wire,     \* what is left of the message that is being received
  queue     \* the bytes that wait to be acted upon

qvars == <<wire, queue>>

Init == wire = <<>> /\ queue = <<>>

Arrive == wire = <<>> /\ wire' \in Seq(Byte) /\ UNCHANGED queue

Put == /\ wire # <<>>
       /\ wire' = Tail(wire)
       /\ queue' = IF Len(queue) < Capacity THEN Append(queue, Head(wire)) ELSE queue

Take == queue # <<>> /\ queue' = Tail(queue) /\ UNCHANGED wire

PowerLoss == wire' = <<>> /\ queue' = <<>>

Next == Arrive \/ Put \/ Take \/ PowerLoss

Spec == Init /\ [][Next]_qvars
=============================================================================

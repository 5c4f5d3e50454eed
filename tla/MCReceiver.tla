------------------------------ MODULE MCReceiver ------------------------------
(* Two senders; the socket holds two datagrams. *)
EXTENDS ReceiverComms
=============================================================================

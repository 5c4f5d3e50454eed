--------------------------- MODULE ReceiverComms ---------------------------
(***************************************************************************)
(* The UDP side of the controller: one asynchronous receive after another  *)
(* into one buffer and one remote endpoint, and telemetry sent to that     *)
(* endpoint.  main polls the io_service and calls SendTelemetry on one     *)
(* thread; datagrams arrive at any time.  A datagram is its sender and     *)
(* whether it has a payload.  handled is what _handlerFunc was given.      *)
(***************************************************************************)
EXTENDS Integers, Sequences

CONSTANTS
  Senders,
  SocketQueue,   \* what the socket holds until it is read; the rest is dropped
  MaxDatagrams,  \* bound: datagrams that the socket accepts
  MaxErrors      \* bound: receives that complete with an error

ASSUME CommsAssumption ==
  Senders # {} /\ SocketQueue \in Nat \ {0} /\ MaxDatagrams \in Nat /\ MaxErrors \in Nat

VARIABLES
  queue,             \* datagrams in the socket
  op,                \* "armed", "done": its handler is due, "failed": with an error
  buffer,            \* _buffer, _remoteEndpoint and bytesRecv of the last receive
  receivedEndpoint,  \* _receivedEndpoint
  handled,           \* history: what _handlerFunc was called with
  accepted,          \* history: what the socket accepted
  telemetryTo,       \* history: where telemetry went
  errors

vars == <<queue, op, buffer, receivedEndpoint, handled, accepted, telemetryTo, errors>>

Nobody == "nobody"
Datagram == [from : Senders, id : 1 .. MaxDatagrams, empty : BOOLEAN]
Nothing == [from |-> Nobody, id |-> 0, empty |-> TRUE]

TypeOK ==
  /\ queue \in Seq(Datagram) /\ Len(queue) <= SocketQueue
  /\ op \in {"armed", "done", "failed"}
  /\ buffer \in Datagram \cup {Nothing} /\ (op = "done" => buffer # Nothing)
  /\ receivedEndpoint \in BOOLEAN
  /\ handled \in Seq(Datagram) /\ accepted \in Seq(Datagram)
  /\ telemetryTo \subseteq Senders \cup {Nobody}
  /\ errors \in 0 .. MaxErrors

Init ==
  /\ queue = <<>> /\ op = "armed" /\ buffer = Nothing
  /\ receivedEndpoint = FALSE
  /\ handled = <<>> /\ accepted = <<>> /\ telemetryTo = {} /\ errors = 0

\* A datagram arrives; a full socket drops it.
Arrive ==
  /\ Len(accepted) < MaxDatagrams /\ Len(queue) < SocketQueue
  /\ \E d \in Datagram :
       /\ d.id = Len(accepted) + 1
       /\ queue' = Append(queue, d) /\ accepted' = Append(accepted, d)
  /\ UNCHANGED <<op, buffer, receivedEndpoint, handled, telemetryTo, errors>>

\* The socket is read into the buffer and the endpoint; the handler is due.
ReadSocket ==
  /\ queue # <<>>
  /\ buffer' = Head(queue) /\ queue' = Tail(queue)
  /\ op' = "done"

\* async_receive_from: asio reads at once if it can.
Receive == ReadSocket \/ (queue = <<>> /\ op' = "armed" /\ UNCHANGED <<queue, buffer>>)

\* ioService.poll() finds the socket readable, or in error.
Ready ==
  /\ op = "armed" /\ ReadSocket
  /\ UNCHANGED <<receivedEndpoint, handled, accepted, telemetryTo, errors>>

Fails ==
  /\ op = "armed" /\ errors < MaxErrors
  /\ op' = "failed" /\ errors' = errors + 1
  /\ UNCHANGED <<queue, buffer, receivedEndpoint, handled, accepted, telemetryTo>>

\* !ec && bytesRecv > 0
Usable == op = "done" /\ ~buffer.empty

\* Mutants: the next receive is started first, into the same buffer; it is only
\* started after a usable one.
HandleRearmed ==
  /\ op \in {"done", "failed"} /\ Receive
  /\ IF Usable
     THEN receivedEndpoint' = TRUE /\ handled' = Append(handled, buffer')
     ELSE UNCHANGED <<receivedEndpoint, handled>>
  /\ UNCHANGED <<accepted, telemetryTo, errors>>
HandleOnlyUsable ==
  /\ op \in {"done", "failed"} /\ Usable
  /\ receivedEndpoint' = TRUE /\ handled' = Append(handled, buffer)
  /\ Receive
  /\ UNCHANGED <<accepted, telemetryTo, errors>>

\* The completion handler.  The handler function returns: main's catches all.
Handle ==
  /\ op \in {"done", "failed"}
  /\ IF Usable
     THEN receivedEndpoint' = TRUE /\ handled' = Append(handled, buffer)
     ELSE UNCHANGED <<receivedEndpoint, handled>>
  /\ Receive
  /\ UNCHANGED <<accepted, telemetryTo, errors>>

\* Mutant: without the early return.
SendTelemetryAlways ==
  /\ telemetryTo' = telemetryTo \cup {buffer.from}
  /\ UNCHANGED <<queue, op, buffer, receivedEndpoint, handled, accepted, errors>>

SendTelemetry ==
  /\ receivedEndpoint
  /\ telemetryTo' = telemetryTo \cup {buffer.from}
  /\ UNCHANGED <<queue, op, buffer, receivedEndpoint, handled, accepted, errors>>

Next == Arrive \/ Ready \/ Fails \/ Handle \/ SendTelemetry

Spec == Init /\ [][Next]_vars

\* main polls in every iteration of its loop.
FairSpec == Spec /\ WF_vars(Ready) /\ WF_vars(Handle)

-----------------------------------------------------------------------------
(* Properties.                                                              *)

\* How many of the accepted datagrams have been read and are not in the buffer.
Past == Len(accepted) - Len(queue) - (IF op = "done" THEN 1 ELSE 0)

\* The handler function is given every datagram with a payload that the socket
\* accepted, once and in order, though one buffer serves all receives and each is
\* read into it as soon as the receive is started.
EachOnceInOrder ==
  /\ {handled[m] : m \in DOMAIN handled} = {accepted[n] : n \in {k \in 1 .. Past : ~accepted[k].empty}}
  /\ \A m, n \in DOMAIN handled : m < n => handled[m].id < handled[n].id

\* Telemetry is only sent when somebody has been heard, and never to an endpoint
\* that sent nothing: failed receives and empty datagrams may come in between.
TelemetryToSomebodyHeard ==
  telemetryTo # {} =>
    handled # <<>> /\ telemetryTo \subseteq {accepted[n].from : n \in DOMAIN accepted}

\* The socket is never left without a receive: what it accepted is read and, if it
\* has a payload, given to the handler function, whatever failed before.
NeverDeaf ==
  \A n \in 1 .. MaxDatagrams :
    (\E m \in DOMAIN accepted : accepted[m].id = n /\ ~accepted[m].empty)
      ~> (\E m \in DOMAIN handled : handled[m].id = n)
=============================================================================

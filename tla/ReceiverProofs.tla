--------------------------- MODULE ReceiverProofs ---------------------------
(***************************************************************************)
(* Theorems about ReceiverComms, for any senders, any depth of the socket  *)
(* and any number of datagrams and errors.                                 *)
(***************************************************************************)
EXTENDS ReceiverComms, TLAPS

\* Datagrams are numbered as they are accepted; the socket holds the last of them,
\* in order, and a receive that is done holds the one before those.
QueueInv ==
  /\ \A n \in 1 .. Len(accepted) : accepted[n].id = n
  /\ Past \in Nat
  /\ \A k \in 1 .. Len(queue) : queue[k] = accepted[Len(accepted) - Len(queue) + k]
  /\ op = "done" => buffer = accepted[Past + 1]

\* The handler function has been given those before, the ones with a payload.
HandledInv ==
  /\ \A m \in 1 .. Len(handled) :
       \E n \in 1 .. Past : ~accepted[n].empty /\ handled[m] = accepted[n]
  /\ \A n \in 1 .. Past : ~accepted[n].empty =>
       \E m \in 1 .. Len(handled) : handled[m] = accepted[n]
  /\ \A m, n \in 1 .. Len(handled) : m < n => handled[m].id < handled[n].id

\* _remoteEndpoint is somebody's once anything was received.
EndpointInv ==
  /\ buffer # Nothing => \E n \in 1 .. Len(accepted) : buffer = accepted[n]
  /\ receivedEndpoint => buffer # Nothing /\ handled # <<>>
  /\ telemetryTo # {} => handled # <<>>
  /\ \A e \in telemetryTo : \E n \in 1 .. Len(accepted) : e = accepted[n].from

CommsInv == TypeOK /\ QueueInv /\ HandledInv /\ EndpointInv

\* No datagram is the empty buffer that the program starts with.
LEMMA NothingIsNoDatagram == Nothing \notin Datagram
BY DEF Nothing, Datagram

\* Accepting one more datagram changes none of those before it.
LEMMA ArriveStep == CommsInv /\ Arrive => CommsInv'
<1> SUFFICES ASSUME CommsInv, Arrive PROVE CommsInv'
  OBVIOUS
<1>1. PICK d \in Datagram : /\ d.id = Len(accepted) + 1
                            /\ queue' = Append(queue, d) /\ accepted' = Append(accepted, d)
  BY DEF Arrive
<1>2. /\ Len(queue) < SocketQueue
      /\ UNCHANGED <<op, buffer, receivedEndpoint, handled, telemetryTo, errors>>
  BY DEF Arrive
<1>3. /\ queue \in Seq(Datagram) /\ accepted \in Seq(Datagram) /\ handled \in Seq(Datagram)
  BY DEF CommsInv, TypeOK
<1>4. /\ Len(accepted') = Len(accepted) + 1 /\ Len(queue') = Len(queue) + 1
      /\ \A n \in 1 .. Len(accepted) : accepted'[n] = accepted[n]
      /\ accepted'[Len(accepted) + 1] = d
      /\ \A n \in 1 .. Len(queue) : queue'[n] = queue[n]
      /\ queue'[Len(queue) + 1] = d
  BY <1>1, <1>3
<1>5. Past' = Past /\ Past \in Nat /\ Past <= Len(accepted)
      /\ (op = "done" => Past + 1 <= Len(accepted))
  BY <1>2, <1>3, <1>4 DEF CommsInv, QueueInv, Past
<1>6. TypeOK'
  BY <1>1, <1>2, <1>3, <1>4, CommsAssumption DEF CommsInv, TypeOK
<1>7. QueueInv'
  <2>1. \A n \in 1 .. Len(accepted') : accepted'[n].id = n
    BY <1>1, <1>3, <1>4 DEF CommsInv, QueueInv
  <2>2. \A k \in 1 .. Len(queue') : queue'[k] = accepted'[Len(accepted') - Len(queue') + k]
    <3> SUFFICES ASSUME NEW k \in 1 .. Len(queue')
                 PROVE  queue'[k] = accepted'[Len(accepted') - Len(queue') + k]
      OBVIOUS
    <3>1. CASE k = Len(queue) + 1
      BY <1>3, <1>4, <3>1
    <3>2. CASE k \in 1 .. Len(queue)
      <4> DEFINE n == Len(accepted) - Len(queue) + k
      <4>1. n \in 1 .. Len(accepted) /\ n = Len(accepted') - Len(queue') + k
        BY <1>3, <1>4, <1>5, <3>2 DEF Past
      <4>2. queue[k] = accepted[n]
        BY <3>2 DEF CommsInv, QueueInv
      <4> HIDE DEF n
      <4> QED BY <1>4, <3>2, <4>1, <4>2
    <3> QED BY <1>3, <1>4, <3>1, <3>2
  <2>3. op' = "done" => buffer' = accepted'[Past' + 1]
    BY <1>2, <1>3, <1>4, <1>5 DEF CommsInv, QueueInv
  <2> QED BY <1>5, <2>1, <2>2, <2>3 DEF QueueInv
<1>8. HandledInv'
  <2>1. \A n \in 1 .. Past : accepted'[n] = accepted[n]
    BY <1>3, <1>4, <1>5
  <2>2. \A m \in 1 .. Len(handled) :
          \E n \in 1 .. Past : ~accepted'[n].empty /\ handled[m] = accepted'[n]
    BY <2>1 DEF CommsInv, HandledInv
  <2>3. \A n \in 1 .. Past : ~accepted'[n].empty =>
          \E m \in 1 .. Len(handled) : handled[m] = accepted'[n]
    BY <2>1 DEF CommsInv, HandledInv
  <2>4. \A m, n \in 1 .. Len(handled) : m < n => handled[m].id < handled[n].id
    BY DEF CommsInv, HandledInv
  <2> HIDE DEF Past
  <2> QED BY <1>2, <1>5, <2>2, <2>3, <2>4 DEF HandledInv
<1>9. EndpointInv'
  BY <1>2, <1>3, <1>4 DEF CommsInv, EndpointInv
<1> QED BY <1>6, <1>7, <1>8, <1>9 DEF CommsInv

\* Reading the socket takes the oldest of the datagrams it holds.
LEMMA ReadSocketStep ==
  ASSUME CommsInv, ReadSocket, UNCHANGED accepted
  PROVE  /\ queue' \in Seq(Datagram) /\ Len(queue') = Len(queue) - 1
         /\ Len(accepted) - Len(queue') \in 1 .. Len(accepted)
         /\ buffer' \in Datagram /\ buffer' = accepted[Len(accepted) - Len(queue')]
         /\ \A k \in 1 .. Len(queue') : queue'[k] = accepted[Len(accepted) - Len(queue') + k]
         /\ op' = "done"
<1>1. queue \in Seq(Datagram) /\ accepted \in Seq(Datagram) /\ queue # <<>> /\ Len(queue) > 0
  BY DEF CommsInv, TypeOK, ReadSocket
<1>2. /\ queue' = Tail(queue) /\ buffer' = queue[1] /\ op' = "done"
      /\ queue' \in Seq(Datagram) /\ Len(queue') = Len(queue) - 1
      /\ \A k \in 1 .. Len(queue') : queue'[k] = queue[k + 1]
  BY <1>1 DEF ReadSocket
<1>3. Len(queue) <= Len(accepted)
  BY <1>1 DEF CommsInv, QueueInv, Past
<1>4. \A k \in 1 .. Len(queue) : queue[k] = accepted[Len(accepted) - Len(queue) + k]
  BY DEF CommsInv, QueueInv
<1>5. queue[1] = accepted[Len(accepted) - Len(queue) + 1] /\ queue[1] \in Datagram
  BY <1>1, <1>4
<1>6. Len(accepted) - Len(queue) + 1 = Len(accepted) - Len(queue')
  BY <1>1, <1>2
<1>7. \A k \in 1 .. Len(queue') : queue'[k] = accepted[Len(accepted) - Len(queue') + k]
  <2> SUFFICES ASSUME NEW k \in 1 .. Len(queue')
               PROVE  queue'[k] = accepted[Len(accepted) - Len(queue') + k]
    OBVIOUS
  <2>1. /\ k + 1 \in 1 .. Len(queue)
        /\ Len(accepted) - Len(queue) + (k + 1) = Len(accepted) - Len(queue') + k
    BY <1>1, <1>2
  <2> QED BY <1>2, <1>4, <2>1
<1> QED BY <1>1, <1>2, <1>3, <1>5, <1>6, <1>7

\* What a completed receive holds is handled, the next one in turn, if it has a
\* payload; a receive that failed holds nothing.
LEMMA HandleStep == CommsInv /\ Handle => CommsInv'
<1> SUFFICES ASSUME CommsInv, Handle PROVE CommsInv'
  OBVIOUS
<1>1. /\ op \in {"done", "failed"} /\ Receive /\ UNCHANGED <<accepted, telemetryTo, errors>>
      /\ IF Usable THEN receivedEndpoint' = TRUE /\ handled' = Append(handled, buffer)
                   ELSE UNCHANGED <<receivedEndpoint, handled>>
  BY DEF Handle
<1>2. /\ queue \in Seq(Datagram) /\ accepted \in Seq(Datagram) /\ handled \in Seq(Datagram)
      /\ Past \in Nat /\ Len(queue) \in Nat /\ Len(accepted) \in Nat /\ Len(handled) \in Nat
  BY DEF CommsInv, TypeOK, QueueInv
<1>3. op = "done" => /\ buffer \in Datagram /\ buffer = accepted[Past + 1]
                     /\ Past + 1 = Len(accepted) - Len(queue)
  BY <1>2, NothingIsNoDatagram DEF CommsInv, TypeOK, QueueInv, Past
<1>4. op = "failed" => Past = Len(accepted) - Len(queue)
  BY <1>2 DEF Past
<1>5. /\ Past' = Len(accepted) - Len(queue)
      /\ queue' \in Seq(Datagram) /\ Len(queue') <= SocketQueue
      /\ \A k \in 1 .. Len(queue') : queue'[k] = accepted[Len(accepted) - Len(queue') + k]
      /\ op' = "done" => buffer' \in Datagram /\ buffer' = accepted[Past' + 1]
      /\ op' = "done" => Past' + 1 \in 1 .. Len(accepted)
      /\ op' \in {"armed", "done"} /\ (op' = "armed" => buffer' = buffer)
  <2>1. CASE ReadSocket
    <3>1. /\ queue' \in Seq(Datagram) /\ Len(queue') = Len(queue) - 1
          /\ Len(accepted) - Len(queue') \in 1 .. Len(accepted)
          /\ buffer' \in Datagram /\ buffer' = accepted[Len(accepted) - Len(queue')]
          /\ \A k \in 1 .. Len(queue') : queue'[k] = accepted[Len(accepted) - Len(queue') + k]
          /\ op' = "done"
      BY <1>1, <2>1, ReadSocketStep
    <3>2. Past' = Len(accepted) - Len(queue)
      BY <1>1, <1>2, <3>1 DEF Past
    <3>3. Len(queue') <= SocketQueue
      BY <1>2, <3>1, CommsAssumption DEF CommsInv, TypeOK
    <3>4. Past' + 1 = Len(accepted) - Len(queue')
      BY <1>2, <3>1, <3>2
    <3> HIDE DEF Past
    <3> QED BY <3>1, <3>2, <3>3, <3>4
  <2>2. CASE queue = <<>> /\ op' = "armed" /\ UNCHANGED <<queue, buffer>>
    BY <1>1, <1>2, <2>2 DEF Past, CommsInv, TypeOK, QueueInv
  <2> QED BY <1>1, <2>1, <2>2 DEF Receive
<1>6. Past' \in Nat /\ Past' <= Len(accepted)
  BY <1>1, <1>2, <1>3, <1>4, <1>5
<1>7. handled' \in Seq(Datagram)
  <2>1. CASE Usable
    <3>1. buffer \in Datagram
      BY <1>3, <2>1 DEF Usable
    <3>2. handled' = Append(handled, buffer)
      BY <1>1, <2>1
    <3>3. handled \in Seq(Datagram)
      BY <1>2
    <3> QED BY <3>1, <3>2, <3>3
  <2>2. CASE ~Usable
    BY <1>1, <1>2, <2>2
  <2> QED BY <2>1, <2>2
<1>8. TypeOK'
  <2>1. receivedEndpoint' \in BOOLEAN
    BY <1>1 DEF CommsInv, TypeOK
  <2>2. buffer' \in Datagram \cup {Nothing} /\ (op' = "done" => buffer' # Nothing)
    BY <1>5, NothingIsNoDatagram DEF CommsInv, TypeOK
  <2> QED BY <1>1, <1>5, <1>7, <2>1, <2>2 DEF CommsInv, TypeOK
<1>9. QueueInv'
  <2>1. \A n \in 1 .. Len(accepted) : accepted[n].id = n
    BY DEF CommsInv, QueueInv
  <2> HIDE DEF Past
  <2> QED BY <1>1, <1>5, <1>6, <2>1 DEF QueueInv
<1>10. HandledInv'
  <2>1. /\ \A m \in 1 .. Len(handled) :
             \E n \in 1 .. Past : ~accepted[n].empty /\ handled[m] = accepted[n]
        /\ \A n \in 1 .. Past : ~accepted[n].empty =>
             \E m \in 1 .. Len(handled) : handled[m] = accepted[n]
        /\ \A m, n \in 1 .. Len(handled) : m < n => handled[m].id < handled[n].id
        /\ \A n \in 1 .. Len(accepted) : accepted[n].id = n
    BY DEF CommsInv, HandledInv, QueueInv
  <2> HIDE DEF Past
  <2>2. /\ op = "failed" => Past' = Past
        /\ op = "done" => Past' = Past + 1 /\ buffer = accepted[Past']
        /\ Past \in Nat /\ Past' <= Len(accepted) /\ Len(accepted) \in Nat
        /\ Len(handled) \in Nat /\ accepted' = accepted
    BY <1>1, <1>2, <1>3, <1>4, <1>5, <1>6
  <2>3. CASE ~Usable
    <3>1. UNCHANGED handled /\ (op = "failed" \/ (op = "done" /\ buffer.empty))
      BY <1>1, <2>3 DEF Usable
    <3>2. \A n \in 1 .. Past' : ~accepted[n].empty => n \in 1 .. Past
      BY <2>2, <3>1
    <3>3. \A n \in 1 .. Past : n \in 1 .. Past'
      BY <2>2, <3>1
    <3> QED BY <2>1, <2>2, <3>1, <3>2, <3>3 DEF HandledInv
  <2>4. CASE Usable
    <3> DEFINE l == Len(handled) + 1
    <3>1. /\ op = "done" /\ ~buffer.empty /\ buffer \in Datagram
          /\ handled' = Append(handled, buffer)
      BY <1>1, <1>3, <2>4 DEF Usable
    <3>2. /\ Len(handled') = l /\ handled'[l] = buffer
          /\ \A m \in 1 .. Len(handled) : handled'[m] = handled[m]
      BY <1>2, <3>1
    <3>3. l \in 1 .. l /\ \A m \in 1 .. l : m = l \/ m \in 1 .. Len(handled)
      BY <2>2
    <3>4. \A n \in 1 .. Past' : n = Past' \/ n \in 1 .. Past
      BY <2>2, <3>1
    <3>5. \A m \in 1 .. l : \E n \in 1 .. Past' :
            ~accepted[n].empty /\ handled'[m] = accepted[n]
      <4> SUFFICES ASSUME NEW m \in 1 .. l
                   PROVE  \E n \in 1 .. Past' : ~accepted[n].empty /\ handled'[m] = accepted[n]
        OBVIOUS
      <4>1. CASE m = l
        <5>1. Past' \in 1 .. Past' /\ ~accepted[Past'].empty /\ handled'[m] = accepted[Past']
          BY <2>2, <3>1, <3>2, <4>1
        <5> QED BY <5>1
      <4>2. CASE m \in 1 .. Len(handled)
        <5>1. PICK n \in 1 .. Past : ~accepted[n].empty /\ handled[m] = accepted[n]
          BY <2>1, <4>2
        <5>2. n \in 1 .. Past' /\ handled'[m] = accepted[n]
          BY <2>2, <3>1, <3>2, <4>2, <5>1
        <5> QED BY <5>1, <5>2
      <4> QED BY <3>3, <4>1, <4>2
    <3>6. \A n \in 1 .. Past' : ~accepted[n].empty => \E m \in 1 .. l : handled'[m] = accepted[n]
      <4> SUFFICES ASSUME NEW n \in 1 .. Past', ~accepted[n].empty
                   PROVE  \E m \in 1 .. l : handled'[m] = accepted[n]
        OBVIOUS
      <4>1. CASE n = Past'
        BY <2>2, <3>1, <3>2, <3>3, <4>1
      <4>2. CASE n \in 1 .. Past
        <5>1. PICK m \in 1 .. Len(handled) : handled[m] = accepted[n]
          BY <2>1, <4>2
        <5>2. m \in 1 .. l /\ handled'[m] = accepted[n]
          BY <2>2, <3>2, <5>1
        <5> QED BY <5>2
      <4> QED BY <3>4, <4>1, <4>2
    <3>7. \A m \in 1 .. Len(handled) : handled[m].id \in Int /\ handled[m].id < Past'
      <4> SUFFICES ASSUME NEW m \in 1 .. Len(handled)
                   PROVE  handled[m].id \in Int /\ handled[m].id < Past'
        OBVIOUS
      <4>1. PICK n \in 1 .. Past : handled[m] = accepted[n]
        BY <2>1
      <4>2. accepted[n].id = n
        <5>1. n \in 1 .. Len(accepted)
          BY <2>2, <3>1
        <5> QED BY <2>1, <5>1
      <4> QED BY <2>2, <3>1, <4>1, <4>2
    <3>8. buffer.id = Past'
      BY <2>1, <2>2, <3>1
    <3>9. \A m, n \in 1 .. l : m < n => handled'[m].id < handled'[n].id
      <4> SUFFICES ASSUME NEW m \in 1 .. l, NEW n \in 1 .. l, m < n
                   PROVE  handled'[m].id < handled'[n].id
        OBVIOUS
      <4>1. m \in 1 .. Len(handled)
        BY <2>2
      <4>2. CASE n = l
        BY <3>2, <3>7, <3>8, <4>1, <4>2
      <4>3. CASE n \in 1 .. Len(handled)
        BY <2>1, <3>2, <4>1, <4>3
      <4> QED BY <3>3, <4>2, <4>3
    <3> QED BY <2>2, <3>2, <3>5, <3>6, <3>9 DEF HandledInv
  <2> QED BY <2>3, <2>4
<1>11. EndpointInv'
  <2>1. buffer' # Nothing => \E n \in 1 .. Len(accepted) : buffer' = accepted[n]
    BY <1>5 DEF CommsInv, EndpointInv
  <2>2. receivedEndpoint' => buffer' # Nothing
    BY <1>1, <1>3, <1>5, NothingIsNoDatagram DEF CommsInv, EndpointInv, Usable
  <2>3. receivedEndpoint' \/ telemetryTo' # {} => handled' # <<>>
    BY <1>1, <1>2 DEF CommsInv, EndpointInv
  <2> QED BY <1>1, <2>1, <2>2, <2>3 DEF CommsInv, EndpointInv
<1> QED BY <1>8, <1>9, <1>10, <1>11 DEF CommsInv

\* The other steps leave the history of datagrams alone.
LEMMA CommsStep == CommsInv /\ [Next]_vars => CommsInv'
<1> SUFFICES ASSUME CommsInv, [Next]_vars PROVE CommsInv'
  OBVIOUS
<1>1. CASE Ready
  <2>1. /\ op = "armed" /\ ReadSocket
        /\ UNCHANGED <<receivedEndpoint, handled, accepted, telemetryTo, errors>>
    BY <1>1 DEF Ready
  <2>2. /\ queue' \in Seq(Datagram) /\ Len(queue') = Len(queue) - 1 /\ Len(queue) \in Nat
        /\ Len(accepted) - Len(queue') \in 1 .. Len(accepted)
        /\ buffer' \in Datagram /\ buffer' = accepted[Len(accepted) - Len(queue')]
        /\ \A k \in 1 .. Len(queue') : queue'[k] = accepted[Len(accepted) - Len(queue') + k]
        /\ op' = "done" /\ Len(accepted) \in Nat
    <3>1. Len(queue) \in Nat /\ Len(accepted) \in Nat
      BY DEF CommsInv, TypeOK
    <3> QED BY <2>1, <3>1, ReadSocketStep
  <2>3. Past' = Past /\ Past' + 1 = Len(accepted) - Len(queue')
    BY <2>1, <2>2 DEF Past
  <2>4. TypeOK'
    BY <2>1, <2>2, NothingIsNoDatagram, CommsAssumption DEF CommsInv, TypeOK
  <2>5. QueueInv'
    BY <2>1, <2>2, <2>3 DEF CommsInv, QueueInv
  <2>6. HandledInv'
    BY <2>1, <2>3 DEF CommsInv, HandledInv
  <2>7. EndpointInv'
    BY <2>1, <2>2, NothingIsNoDatagram DEF CommsInv, EndpointInv
  <2> QED BY <2>4, <2>5, <2>6, <2>7 DEF CommsInv
<1>2. CASE Fails
  <2>1. Past' = Past
    BY <1>2 DEF Fails, Past
  <2>2. TypeOK'
    BY <1>2, CommsAssumption DEF Fails, CommsInv, TypeOK
  <2> QED BY <1>2, <2>1, <2>2 DEF Fails, CommsInv, QueueInv, HandledInv, EndpointInv
<1>3. CASE SendTelemetry
  <2>1. /\ UNCHANGED <<queue, op, buffer, receivedEndpoint, handled, accepted, errors>>
        /\ receivedEndpoint /\ telemetryTo' = telemetryTo \cup {buffer.from}
    BY <1>3 DEF SendTelemetry
  <2>2. Past' = Past
    BY <2>1 DEF Past
  <2>3. PICK n \in 1 .. Len(accepted) : buffer = accepted[n] /\ accepted[n] \in Datagram
    BY <2>1 DEF CommsInv, EndpointInv, TypeOK
  <2>4. buffer.from \in Senders
    BY <2>3 DEF Datagram
  <2>5. TypeOK'
    BY <2>1, <2>4 DEF CommsInv, TypeOK
  <2>6. EndpointInv'
    BY <2>1, <2>3 DEF CommsInv, EndpointInv
  <2> QED BY <2>1, <2>2, <2>5, <2>6 DEF CommsInv, QueueInv, HandledInv
<1>4. CASE UNCHANGED vars
  <2>1. Past' = Past
    BY <1>4 DEF vars, Past
  <2> QED BY <1>4, <2>1 DEF vars, CommsInv, TypeOK, QueueInv, HandledInv, EndpointInv
<1> QED BY <1>1, <1>2, <1>3, <1>4, ArriveStep, HandleStep DEF Next

\* The invariant holds throughout.
LEMMA CommsInvariant == Spec => []CommsInv
<1>1. Init => CommsInv
  <2> SUFFICES ASSUME Init PROVE CommsInv
    OBVIOUS
  <2>1. Past = 0 /\ Len(accepted) = 0 /\ Len(queue) = 0 /\ Len(handled) = 0
    BY DEF Init, Past
  <2>2. TypeOK
    <3>1. /\ op \in {"armed", "done", "failed"} /\ op # "done"
          /\ buffer \in Datagram \cup {Nothing}
          /\ receivedEndpoint \in BOOLEAN /\ telemetryTo \subseteq Senders \cup {Nobody}
      BY DEF Init
    <3>2. /\ queue \in Seq(Datagram) /\ Len(queue) <= SocketQueue
          /\ handled \in Seq(Datagram) /\ accepted \in Seq(Datagram)
          /\ errors \in 0 .. MaxErrors
      BY <2>1, CommsAssumption DEF Init
    <3> QED BY <3>1, <3>2 DEF TypeOK
  <2> QED BY <2>1, <2>2 DEF Init, CommsInv, QueueInv, HandledInv, EndpointInv
<1> QED BY <1>1, CommsStep, PTL DEF Spec

\* One buffer and one endpoint serve all receives of ReceiverComms::Receive, and yet
\* the handler function is given each accepted payload once and in order.
THEOREM DatagramsHandledInOrder == Spec => []EachOnceInOrder
<1>1. CommsInv => EachOnceInOrder
  <2> SUFFICES ASSUME CommsInv PROVE EachOnceInOrder
    OBVIOUS
  <2>1. DOMAIN handled = 1 .. Len(handled)
    BY DEF CommsInv, TypeOK
  <2> HIDE DEF Past
  <2>2. {handled[m] : m \in 1 .. Len(handled)}
          = {accepted[n] : n \in {k \in 1 .. Past : ~accepted[k].empty}}
    BY DEF CommsInv, HandledInv
  <2> QED BY <2>1, <2>2 DEF CommsInv, HandledInv, EachOnceInOrder
<1> QED BY <1>1, CommsInvariant, PTL

\* ReceiverComms::SendTelemetry only ever sends to an endpoint that something was
\* received from, and to none before the handler function was first called.
THEOREM TelemetryHasAddressee == Spec => []TelemetryToSomebodyHeard
<1>1. CommsInv => TelemetryToSomebodyHeard
  BY DEF CommsInv, TypeOK, EndpointInv, TelemetryToSomebodyHeard
<1> QED BY <1>1, CommsInvariant, PTL
=============================================================================

------------------------- MODULE UserWsSession_proofs -------------------------
(***************************************************************************)
(* Machine-checked theorems about UserWsSession: the session uses the cell *)
(* only in ways the cell allows, it is well typed, it loses no frame, it   *)
(* stays down after its custodian has seen the shutdown, and a channel     *)
(* that is ready has nothing on its way.                                   *)
(***************************************************************************)
EXTENDS UserWsSession, ChannelAuthority_proofs

-----------------------------------------------------------------------------
(* What an operation of the cell does to the connection, when it neither   *)
(* opens a socket nor counts a PONG: nothing becomes connected or          *)
(* responsive, and no gap is cleared.                                      *)

Quiet(s, t) ==
    /\ t.connection \in {s.connection, "Disconnected"}
    /\ t.subscription = "ServerResponsive" => s.subscription = "ServerResponsive"
    /\ t.authority_poisoned = s.authority_poisoned
    /\ s.gaps \subseteq t.gaps

LEMMA FailCounterQuiet ==
  ASSUME NEW s \in UserWsStates, NEW which \in Exhaustions,
         NEW t, t = FailCounter(s, which)
  PROVE  /\ Quiet(s, t)
         /\ t.transport_sequence = s.transport_sequence
         /\ t.raw_frame_sequence = s.raw_frame_sequence
         /\ t.subscription = "Inactive"
         /\ Dead(t)
<1>1. s.gaps \subseteq GapKinds
  BY DEF UserWsStates, Gaps
<1> QED BY <1>1, FailCounterFacts DEF Quiet, Failed, SameFrontiers, Dead

LEMMA RaiseGapQuiet ==
  ASSUME NEW s \in UserWsStates, NEW r \in UserWsStates, NEW kinds \in Gaps,
         Quiet(s, r), NEW t, t = RaiseGap(r, kinds)
  PROVE  /\ Quiet(s, t)
         /\ t.connection \in {r.connection, "Disconnected"}
         /\ t.subscription \in {r.subscription, "Inactive"}
         /\ t.transport_sequence = r.transport_sequence
         /\ r.gaps \cup kinds \subseteq t.gaps
  BY RaiseGapFacts DEF Quiet, Failed, SameFrontiers

LEMMA DisconnectedQuiet ==
  ASSUME NEW s \in UserWsStates, NEW t, t = Disconnected(s)
  PROVE  /\ Quiet(s, t)
         /\ t.connection = "Disconnected"
         /\ t.subscription = "Inactive"
         /\ "evidence" \in t.gaps
         /\ t.transport_sequence = s.transport_sequence
<1> DEFINE u == Unproven(SocketDown(s))
<1>1. /\ u \in UserWsStates
      /\ Quiet(s, u)
      /\ u.connection = "Disconnected"
      /\ u.subscription = "Inactive"
      /\ u.transport_sequence = s.transport_sequence
  BY UnprovenFacts DEF Quiet, SameFrontiers
<1>2. {"evidence"} \in Gaps
  BY DEF Gaps, GapKinds
<1>3. t = RaiseGap(u, {"evidence"})
  BY DEF Disconnected
<1> QED BY <1>1, <1>2, <1>3, RaiseGapQuiet

LEMMA RevokeQuiet ==
  ASSUME NEW s \in UserWsStates, NEW c \in {s, [s EXCEPT !.consumer_closed = TRUE]},
         NEW kinds \in Gaps, NEW t, t = RaiseGapAndRevoke(c, kinds)
  PROVE  /\ Quiet(s, t)
         /\ t.subscription # "ServerResponsive"
         /\ t.transport_sequence = s.transport_sequence
<1> DEFINE r == [c EXCEPT !.subscription = "AwaitingServerProof", !.rest_proof = NoProof]
<1>1. /\ c \in UserWsStates
      /\ Quiet(s, c)
      /\ c.transport_sequence = s.transport_sequence
  BY DEF UserWsStates, Quiet
<1>2. /\ r \in UserWsStates
      /\ r.subscription = "AwaitingServerProof"
      /\ r.transport_sequence = c.transport_sequence
      /\ Quiet(c, r)
  BY <1>1, ValueTypes DEF UserWsStates, Quiet
<1>3. Quiet(s, r)
  BY <1>1, <1>2 DEF Quiet
<1>4. t = RaiseGap(r, kinds)
  BY DEF RaiseGapAndRevoke
<1> HIDE DEF r
<1> QED BY <1>1, <1>2, <1>3, <1>4, RaiseGapQuiet

LEMMA PoisonEffect ==
  ASSUME NEW s \in UserWsStates, NEW t, t = FailClosedAfterPoison(s)
  PROVE  /\ t.connection = "Disconnected"
         /\ t.subscription = "Inactive"
         /\ s.gaps \cup {"evidence"} \subseteq t.gaps
         /\ t.transport_sequence = s.transport_sequence
<1> DEFINE u == Unproven(SocketDown(s))
           r == [u EXCEPT !.consumer_closed = TRUE, !.authority_poisoned = TRUE]
<1>1. /\ u \in UserWsStates
      /\ u.connection = "Disconnected"
      /\ u.subscription = "Inactive"
      /\ u.transport_sequence = s.transport_sequence
      /\ u.gaps = s.gaps
  BY UnprovenFacts DEF SameFrontiers
<1> HIDE DEF u
<1>2. /\ r \in UserWsStates
      /\ r.connection = "Disconnected"
      /\ r.subscription = "Inactive"
      /\ r.transport_sequence = s.transport_sequence
      /\ r.gaps = s.gaps
  BY <1>1 DEF UserWsStates
<1>3. t = RaiseGap(r, GapKinds)
  BY DEF FailClosedAfterPoison, u
<1> HIDE DEF r
<1>4. Quiet(r, r) /\ GapKinds \in Gaps
  BY DEF Quiet, Gaps
<1> QED BY <1>2, <1>3, <1>4, RaiseGapQuiet DEF GapKinds

LEMMA ConnectedEffect ==
  ASSUME NEW s \in UserWsStates, NEW t, t = Connected(s)
  PROVE  /\ t.subscription = "Inactive"
         /\ t.authority_poisoned = s.authority_poisoned
         /\ t.transport_sequence = s.transport_sequence
         /\ s.gaps \subseteq t.gaps
<1> DEFINE u == Unproven(SocketDown(s))
           r == [u EXCEPT !.generation = @ + 1, !.connection = "Connected"]
<1>1. /\ u \in UserWsStates
      /\ u.generation = s.generation
      /\ u.subscription = "Inactive"
      /\ u.authority_poisoned = s.authority_poisoned
      /\ u.transport_sequence = s.transport_sequence
      /\ u.gaps = s.gaps
  BY UnprovenFacts DEF SameFrontiers
<1>2. CASE s.generation < GenerationMax
  <2>1. t = RaiseGap(r, {"evidence"})
    BY <1>2 DEF Connected
  <2> HIDE DEF u
  <2>2. u.generation + 1 \in Generations
    BY <1>1, <1>2, CounterTypes, CounterAssumption DEF Generations
  <2>3. /\ r \in UserWsStates
        /\ r.subscription = "Inactive"
        /\ r.authority_poisoned = s.authority_poisoned
        /\ r.transport_sequence = s.transport_sequence
        /\ r.gaps = s.gaps
    BY <1>1, <2>2, ValueTypes DEF UserWsStates
  <2> HIDE DEF r
  <2>4. Quiet(r, r) /\ {"evidence"} \in Gaps
    BY DEF Quiet, Gaps, GapKinds
  <2> QED BY <2>1, <2>3, <2>4, RaiseGapQuiet DEF Quiet
<1>3. CASE ~(s.generation < GenerationMax)
  <2>1. t = FailCounter(s, "Generation")
    BY <1>3 DEF Connected
  <2> QED BY <2>1, FailCounterQuiet DEF Exhaustions, Quiet
<1> QED BY <1>2, <1>3

-----------------------------------------------------------------------------
(* Types.  A batch is a frame and the sequences of its events; its frame   *)
(* sequence is set after its events have theirs.  A free slot of the       *)
(* channel is kept from the poll of the socket to the delivery.            *)

Batches == [first : 0 .. TransportMax + 1, last : 0 .. TransportMax + 1,
            frame : 0 .. FrameMax, decoded : BOOLEAN]

Engines == [at : {"idle", "reading", "proven", "prepared"},
            generation : Generations, gap_version : GapVersions]

SlotKept == {"Polling"} \cup Delivering

SessionTyped ==
    /\ loop \in Places
    /\ attempt \in 0 .. AttemptMax
    /\ ping \in BOOLEAN
    /\ server \in {"silent", "asked", "answered"}
    /\ receiver \in BOOLEAN
    /\ shutdown \in BOOLEAN
    /\ owner \in {"holding", "disconnected", "poisoned", "released"}
    /\ custodian \in {"watching", "grace", "closing", "terminal"}
    /\ engine \in Engines
    /\ batch \in Batches
    /\ queue \in Seq(Batches)
    /\ taken \subseteq Batches
    /\ Len(queue) <= EventCapacity
    /\ loop \in SlotKept => Len(queue) < EventCapacity
    /\ loop = "Sequenced" => batch.frame = 0
    /\ loop = "Framed" => batch.frame <= ws.raw_frame_sequence

(* Every call into the cell is an operation of the cell or nothing.        *)
LEMMA CallsAreSteps ==
  /\ CallConnecting => [Next]_vars
  /\ CallConnected => [Next]_vars
  /\ CallSubscriptionWritten => [Next]_vars
  /\ CallLivenessProven => [Next]_vars
  /\ CallDisconnected => [Next]_vars
  /\ \A kind \in GapKinds : CallGap(kind) => [Next]_vars
  /\ CallConsumerClosed => [Next]_vars
  /\ MarkAuthorityPoisoned => [Next]_vars
  /\ ReserveRawFrameSequence => [Next]_vars
  /\ PrepareCatchUpFinalization => [Next]_vars
  /\ \A finalization \in prepared :
        CommitCatchUpFinalization(finalization) => [Next]_vars
  /\ \A authority \in Authorities :
        MarkAuthenticatedRestProven(authority) => [Next]_vars
  /\ \A refused \in BOOLEAN : Skip(refused) => [Next]_vars
  BY DEF CallConnecting, CallConnected, CallSubscriptionWritten, CallLivenessProven,
     CallDisconnected, CallGap, CallConsumerClosed, Skip, Next

(* A frame wider than the counter exhausts it like one that is too wide    *)
(* by one.                                                                 *)
LEMMA ReservationIsStep ==
  ASSUME IInv, NEW width \in Nat \ {0}, ReserveTransportSequences(width)
  PROVE  [Next]_vars
<1>1. CASE width \in 1 .. TransportMax + 1
  BY <1>1 DEF Next
<1>2. CASE width \notin 1 .. TransportMax + 1
  <2>1. /\ ws.transport_sequence \in Nat
        /\ TransportMax + 1 \in 1 .. TransportMax + 1
        /\ TransportMax \in Nat
    BY CounterTypes, CounterAssumption DEF IInv, TypeOK
  <2>2. Reserved(ws, width) = Reserved(ws, TransportMax + 1)
    BY <1>2, <2>1 DEF Reserved
  <2>3. ReserveTransportSequences(TransportMax + 1)
    BY <2>1, <2>2 DEF ReserveTransportSequences
  <2> QED BY <2>1, <2>3 DEF Next
<1> QED BY <1>1, <1>2

(* What the consumer does with a batch it has taken.                       *)
LEMMA HandlingIsStep ==
  ASSUME IInv, SessionTyped, HandleBatch
  PROVE  [Next]_vars
<1>1. PICK b \in taken :
        \/ AcknowledgeRawFrameDurable(b.frame)
        \/ \E sequence \in (b.first .. b.last) \ acked :
              b.decoded /\ AcknowledgeDurable(sequence)
        \/ /\ ~b.decoded
           /\ b.first \notin lost
           /\ MarkDropped([first |-> b.first, last |-> b.first])
  BY DEF HandleBatch
<1>2. b.first \in 0 .. TransportMax + 1 /\ b.last \in 0 .. TransportMax + 1
  BY DEF SessionTyped, Batches
<1>3. CASE AcknowledgeRawFrameDurable(b.frame)
  BY <1>3 DEF AcknowledgeRawFrameDurable, Next
<1>4. ASSUME NEW sequence \in b.first .. b.last, AcknowledgeDurable(sequence)
      PROVE  [Next]_vars
  <2>1. ws.transport_sequence \in TransportSequences /\ ws.durable_sequence \in Nat
    BY CounterTypes DEF IInv, TypeOK, UserWsStates
  <2>2. sequence \in 1 .. TransportMax
    BY <1>2, <1>4, <2>1, CounterAssumption DEF AcknowledgeDurable, TransportSequences
  <2> QED BY <1>4, <2>2 DEF Next
<1>5. CASE MarkDropped([first |-> b.first, last |-> b.first])
  <2>1. [first |-> b.first, last |-> b.first] \in Ranges
    BY <1>2 DEF Ranges
  <2> QED BY <1>5, <2>1 DEF Next
<1> QED BY <1>1, <1>3, <1>4, <1>5

LEMMA LoopUsesCell ==
  ASSUME IInv, SessionTyped, LoopStep
  PROVE  [Next]_vars
<1> USE DEF Goto, LoopOnly
<1>1. CASE \/ Start
           \/ ConnectFails
           \/ ConnectShutdown
           \/ ConnectSucceeds
           \/ SubscribeFails
           \/ SubscribeShutdown
           \/ Subscribed
           \/ ProofPingFails
           \/ ProofPing
  BY <1>1, CallsAreSteps DEF Start, ConnectFails, ConnectShutdown, ConnectSucceeds,
     SubscribeFails, SubscribeShutdown, Subscribed, ProofPingFails, ProofPing, vars
<1>2. CASE \/ InnerShutdown
           \/ ConsumerGone
           \/ HeartbeatTimeout
           \/ HeartbeatPing
           \/ Reserve
           \/ ReceivePong
           \/ ReceiveControlPing
           \/ SocketEnds
           \/ ReceiptFails
           \/ Send
  BY <1>2, CallsAreSteps DEF InnerShutdown, ConsumerGone, HeartbeatTimeout, HeartbeatPing,
     Reserve, ReceivePong, ReceiveControlPing, SocketEnds, ReceiptFails, Send, vars
<1>3. CASE \/ SchemaGap
           \/ LoseDelivery
           \/ LoseEvidence
           \/ Close
           \/ Leave
           \/ Retry
           \/ Backoff
           \/ WaitEnds
           \/ Exit
  BY <1>3, CallsAreSteps DEF GapKinds, SchemaGap, LoseDelivery, LoseEvidence, Close,
     Leave, Retry, Backoff, WaitEnds, Exit, vars
<1>4. ASSUME NEW width \in Nat \ {0}, NEW decoded \in BOOLEAN, ReceiveFrame(width, decoded)
      PROVE  [Next]_vars
  BY <1>4, ReservationIsStep DEF ReceiveFrame, Skip
<1>5. CASE ReserveFrame
  BY <1>5, CallsAreSteps DEF ReserveFrame, Skip
<1>6. CASE Retain
  <2>1. CASE RetainRawFrame(batch.frame)
    <3>1. /\ batch.frame \in 0 .. FrameMax
          /\ batch.frame <= ws.raw_frame_sequence
          /\ batch.frame # 0
      BY <1>6, <2>1 DEF Retain, SessionTyped, Batches, RetainRawFrame
    <3>2. batch.frame \in 1 .. ws.raw_frame_sequence
      BY <3>1, CounterTypes, CounterAssumption DEF IInv, TypeOK
    <3> QED BY <2>1, <3>2 DEF Next
  <2> QED BY <1>6, <2>1 DEF Retain, Skip
<1>7. CASE Enqueue
  <2>1. [first |-> batch.first, last |-> batch.last] \in Ranges
    BY DEF SessionTyped, Batches, Ranges
  <2> QED BY <1>7, <2>1 DEF Enqueue, Skip, Next
<1>8. /\ \A width \in Widths : width \in Nat \ {0}
      /\ 1 \in Nat \ {0}
  BY SessionAssumption
<1> QED BY <1>1, <1>2, <1>3, <1>4, <1>5, <1>6, <1>7, <1>8 DEF LoopStep

LEMMA SessionUsesCell ==
  ASSUME IInv, SessionTyped, [SessionNext]_allvars
  PROVE  [Next]_vars
<1>1. CASE SendCompletes
  BY <1>1 DEF SendCompletes, PingSent, PingFails, ReplySent, ReplyFails, Goto, vars
<1>2. CASE CustodianStep
  BY <1>2, CallsAreSteps DEF CustodianStep, CustodianRequested, CustodianCancels,
     CustodianFinishes, GapKinds, vars
<1>3. CASE ServerAnswers \/ RequestShutdown \/ FailClosed \/ TakeBatch \/ DropReceiver
  BY <1>3, CallsAreSteps DEF ServerAnswers, RequestShutdown, FailClosed, TakeBatch,
     DropReceiver, vars
<1>4. CASE EngineStep
  <2>1. CASE EngineGap
    BY <2>1 DEF EngineGap, GapKinds, Next
  <2>2. CASE FinishRest
    BY <2>2, AuthorityAssumption DEF FinishRest, Next
  <2> QED BY <1>4, <2>1, <2>2, CallsAreSteps
          DEF EngineStep, CaptureToken, Prepare, GiveUp, Commit, vars
<1>5. CASE UNCHANGED allvars
  BY <1>5 DEF allvars
<1> QED BY <1>1, <1>2, <1>3, <1>4, <1>5, LoopUsesCell, HandlingIsStep DEF SessionNext

-----------------------------------------------------------------------------
(* The session is well typed.                                              *)

(* A step of the loop to a place that keeps no slot.                       *)
LEMMA PlaceTyped ==
  ASSUME SessionTyped,
         UNCHANGED <<batch, queue, receiver, taken, shutdown, owner, custodian, engine>>,
         loop' \in Places \ SlotKept,
         attempt' \in 0 .. AttemptMax,
         ping' \in BOOLEAN,
         server' \in {"silent", "asked", "answered"}
  PROVE  SessionTyped'
  BY DEF SessionTyped, SlotKept, Delivering

LEMMA LoopTyped ==
  ASSUME IInv, IInv', Monotone(ws, ws'), SessionTyped, LoopStep
  PROVE  SessionTyped'
<1> DEFINE Kept == UNCHANGED <<batch, queue, receiver, taken, shutdown, owner,
                               custodian, engine>>
           Placed == loop' \in Places \ SlotKept
           Scalars == /\ attempt' \in 0 .. AttemptMax
                      /\ ping' \in BOOLEAN
                      /\ server' \in {"silent", "asked", "answered"}
<1>1. 0 \in 0 .. AttemptMax
  BY SessionAssumption
<1>2. /\ attempt \in 0 .. AttemptMax
      /\ ping \in BOOLEAN
      /\ server \in {"silent", "asked", "answered"}
  BY DEF SessionTyped
<1> USE DEF Goto, LoopOnly, socket, channel, owning, Places, Awaiting, InnerLoop,
            Delivering, Delivered, SlotKept
<1>3. CASE \/ Start
           \/ ConnectFails
           \/ ConnectShutdown
           \/ ConnectSucceeds
           \/ SubscribeFails
           \/ SubscribeShutdown
           \/ Subscribed
           \/ ProofPingFails
           \/ ProofPing
  <2>1. Kept /\ Placed /\ Scalars
    BY <1>1, <1>2, <1>3 DEF Start, ConnectFails, ConnectShutdown, ConnectSucceeds,
       SubscribeFails, SubscribeShutdown, Subscribed, ProofPingFails, ProofPing
  <2> QED BY <2>1, PlaceTyped
<1>4. CASE \/ InnerShutdown
           \/ ConsumerGone
           \/ HeartbeatTimeout
           \/ HeartbeatPing
           \/ ReceivePong
           \/ ReceiveControlPing
           \/ SocketEnds
           \/ ReceiptFails
           \/ Enqueue
  <2>1. Kept /\ Placed /\ Scalars
    BY <1>2, <1>4 DEF InnerShutdown, ConsumerGone, HeartbeatTimeout, HeartbeatPing,
       ReceivePong, ReceiveControlPing, SocketEnds, ReceiptFails, Enqueue
  <2> QED BY <2>1, PlaceTyped
<1>5. CASE \/ SchemaGap
           \/ LoseDelivery
           \/ LoseEvidence
           \/ Close
           \/ Leave
           \/ Retry
           \/ WaitEnds
           \/ Exit
  <2>1. Kept /\ Placed /\ Scalars
    BY <1>2, <1>5 DEF SchemaGap, LoseDelivery, LoseEvidence, Close, Leave, Retry,
       WaitEnds, Exit
  <2> QED BY <2>1, PlaceTyped
<1>6. CASE Backoff
  <2>1. attempt < AttemptMax => attempt + 1 \in 0 .. AttemptMax
    BY <1>2, SessionAssumption
  <2>2. Kept /\ Placed /\ Scalars
    BY <1>2, <1>6, <2>1 DEF Backoff
  <2> QED BY <2>2, PlaceTyped
<1>7. CASE Reserve
  BY <1>7 DEF Reserve, SessionTyped
<1>8. ASSUME NEW width \in Nat, NEW decoded \in BOOLEAN, ReceiveFrame(width, decoded)
      PROVE  SessionTyped'
  <2>1. CASE ws'.transport_sequence > ws.transport_sequence
    <3>1. /\ loop = "Polling"
          /\ loop' = "Sequenced"
          /\ batch' = [first |-> ws.transport_sequence + 1,
                       last |-> ws'.transport_sequence,
                       frame |-> 0,
                       decoded |-> decoded]
          /\ UNCHANGED <<attempt, ping, server, queue, receiver, taken, shutdown,
                         owner, custodian, engine>>
      BY <1>8, <2>1 DEF ReceiveFrame
    <3>2. /\ ws.transport_sequence \in 0 .. TransportMax
          /\ ws'.transport_sequence \in 0 .. TransportMax
      BY DEF IInv, TypeOK, UserWsStates, TransportSequences
    <3>3. batch' \in Batches /\ batch'.frame = 0
      BY <3>1, <3>2, CounterAssumption DEF Batches
    <3> QED BY <3>1, <3>3 DEF SessionTyped
  <2>2. CASE ~(ws'.transport_sequence > ws.transport_sequence)
    <3>1. Kept /\ Placed /\ Scalars
      BY <1>2, <1>8, <2>2 DEF ReceiveFrame
    <3> QED BY <3>1, PlaceTyped
  <2> QED BY <2>1, <2>2
<1>9. CASE ReserveFrame
  <2>1. CASE ws'.raw_frame_sequence > ws.raw_frame_sequence
    <3>1. /\ loop = "Sequenced"
          /\ loop' = "Framed"
          /\ batch' = [batch EXCEPT !.frame = ws'.raw_frame_sequence]
          /\ UNCHANGED <<attempt, ping, server, queue, receiver, taken, shutdown,
                         owner, custodian, engine>>
      BY <1>9, <2>1 DEF ReserveFrame
    <3>2. ws'.raw_frame_sequence \in 0 .. FrameMax
      BY DEF IInv, TypeOK, UserWsStates, FrameSequences
    <3>3. /\ batch' \in Batches
          /\ batch'.frame = ws'.raw_frame_sequence
      BY <3>1, <3>2 DEF SessionTyped, Batches
    <3> QED BY <3>1, <3>2, <3>3, CounterAssumption DEF SessionTyped
  <2>2. CASE ~(ws'.raw_frame_sequence > ws.raw_frame_sequence)
    <3>1. Kept /\ Placed /\ Scalars
      BY <1>2, <1>9, <2>2 DEF ReserveFrame
    <3> QED BY <3>1, PlaceTyped
  <2> QED BY <2>1, <2>2
<1>10. CASE Retain
  BY <1>10 DEF Retain, SessionTyped
<1>11. CASE Send
  <2>1. /\ loop = "Retained"
        /\ loop' = "Sent"
        /\ queue' = IF receiver THEN Append(queue, batch) ELSE queue
        /\ UNCHANGED <<attempt, ping, server, batch, receiver, taken, shutdown,
                       owner, custodian, engine>>
    BY <1>11 DEF Send
  <2>2. /\ queue \in Seq(Batches)
        /\ batch \in Batches
        /\ Len(queue) < EventCapacity
    BY <2>1 DEF SessionTyped
  <2>3. queue' \in Seq(Batches) /\ Len(queue') <= EventCapacity
    BY <2>1, <2>2, SessionAssumption
  <2> QED BY <2>1, <2>3 DEF SessionTyped
<1>12. /\ \A width \in Widths : width \in Nat
       /\ 1 \in Nat
  BY SessionAssumption
<1> QED BY <1>3, <1>4, <1>5, <1>6, <1>7, <1>8, <1>9, <1>10, <1>11, <1>12 DEF LoopStep

LEMMA TypedStep ==
  ASSUME IInv, IInv', Monotone(ws, ws'), SessionTyped, [SessionNext]_allvars
  PROVE  SessionTyped'
<1>1. /\ ws.raw_frame_sequence \in Nat
      /\ ws'.raw_frame_sequence \in Nat
      /\ ws.raw_frame_sequence <= ws'.raw_frame_sequence
  BY CounterTypes DEF IInv, TypeOK, Monotone
<1>2. /\ batch.frame \in Nat
      /\ loop = "Framed" => batch.frame <= ws'.raw_frame_sequence
  BY <1>1, CounterAssumption DEF SessionTyped, Batches
<1>3. CASE SendCompletes
  <2>1. /\ UNCHANGED <<batch, queue, receiver, taken, shutdown, owner, custodian, engine>>
        /\ loop' \in {"Inner", "Leaving"}
        /\ attempt' = attempt
        /\ ping' \in {ping, TRUE}
        /\ server' \in {server, "asked"}
    BY <1>3 DEF SendCompletes, PingSent, PingFails, ReplySent, ReplyFails, Goto, LoopOnly,
       socket, channel, owning
  <2> QED BY <2>1, PlaceTyped DEF SessionTyped, Places, Awaiting, InnerLoop, SlotKept,
          Delivering
<1>4. CASE CustodianStep
  <2>1. /\ UNCHANGED <<attempt, ping, server, batch, queue, receiver, taken, shutdown,
                       owner, engine>>
        /\ loop' \in {loop, "Cancelled"}
        /\ custodian' \in {"grace", "closing", "terminal"}
    BY <1>4 DEF CustodianStep, CustodianRequested, CustodianCancels, CustodianFinishes,
       CustodianOnly, socket, channel
  <2> QED BY <1>2, <2>1 DEF SessionTyped, Places, SlotKept, Delivering
<1>5. CASE ServerAnswers \/ RequestShutdown \/ FailClosed
  <2>1. /\ UNCHANGED <<loop, attempt, ping, batch, queue, receiver, taken, custodian,
                       engine>>
        /\ server' \in {server, "answered"}
        /\ owner' \in {owner, "disconnected", "released", "poisoned"}
    BY <1>5 DEF ServerAnswers, RequestShutdown, FailClosed, OwnerOnly, socket, channel,
       owning
  <2>2. shutdown' = shutdown \/ shutdown' = TRUE
    BY <1>5 DEF ServerAnswers, RequestShutdown, FailClosed, OwnerOnly, owning
  <2>3. shutdown' \in BOOLEAN
    BY <2>2, Zenon DEF SessionTyped
  <2> QED BY <1>2, <2>1, <2>3 DEF SessionTyped
<1>6. CASE TakeBatch
  <2>1. /\ queue # <<>>
        /\ taken' = taken \cup {Head(queue)}
        /\ queue' = Tail(queue)
        /\ UNCHANGED <<loop, attempt, ping, server, batch, receiver, shutdown, owner,
                       custodian, engine>>
    BY <1>6 DEF TakeBatch, socket, owning
  <2>2. queue \in Seq(Batches) /\ Len(queue) <= EventCapacity
    BY DEF SessionTyped
  <2>3. /\ Head(queue) \in Batches
        /\ Tail(queue) \in Seq(Batches)
        /\ Len(Tail(queue)) \in Nat
        /\ Len(Tail(queue)) < Len(queue)
    BY <2>1, <2>2
  <2>4. /\ taken' \subseteq Batches
        /\ queue' \in Seq(Batches)
        /\ Len(queue') <= EventCapacity
        /\ loop' \in SlotKept => Len(queue') < EventCapacity
    BY <2>1, <2>2, <2>3, SessionAssumption DEF SessionTyped
  <2> QED BY <1>2, <2>1, <2>4 DEF SessionTyped
<1>7. CASE DropReceiver
  <2>1. /\ receiver' = FALSE
        /\ queue' = <<>>
        /\ UNCHANGED <<loop, attempt, ping, server, batch, taken, shutdown, owner,
                       custodian, engine>>
    BY <1>7 DEF DropReceiver, socket, owning
  <2>2. queue' \in Seq(Batches) /\ Len(queue') = 0
    BY <2>1
  <2>3. receiver' \in BOOLEAN
    BY <2>1, Zenon
  <2>4. Len(queue') <= EventCapacity /\ Len(queue') < EventCapacity
    BY <2>2, SessionAssumption
  <2> QED BY <1>2, <2>1, <2>2, <2>3, <2>4 DEF SessionTyped
<1>8. CASE HandleBatch \/ UNCHANGED allvars
  <2>1. UNCHANGED <<loop, attempt, ping, server, batch, queue, receiver, taken, shutdown,
                    owner, custodian, engine>>
    BY <1>8 DEF HandleBatch, allvars, session, socket, channel, owning
  <2> QED BY <1>2, <2>1 DEF SessionTyped
<1>9. CASE EngineStep
  <2>1. UNCHANGED <<loop, attempt, ping, server, batch, queue, receiver, taken, shutdown,
                    owner, custodian>>
    BY <1>9 DEF EngineStep, EngineGap, CaptureToken, FinishRest, Prepare, GiveUp, Commit,
       EngineOnly, session, socket, channel, owning
  <2>2. /\ ws.generation \in Generations
        /\ ws.gap_version \in GapVersions
        /\ 0 \in Generations
        /\ 0 \in GapVersions
        /\ engine \in Engines
    BY CounterAssumption DEF IInv, TypeOK, UserWsStates, SessionTyped, Generations,
       GapVersions
  <2>3. /\ Idle \in Engines
        /\ [at |-> "reading", generation |-> ws.generation,
            gap_version |-> ws.gap_version] \in Engines
        /\ [engine EXCEPT !.at = "proven"] \in Engines
        /\ [engine EXCEPT !.at = "prepared"] \in Engines
    BY <2>2 DEF Idle, Engines
  <2>4. engine' \in Engines
    BY <1>9, <2>2, <2>3 DEF EngineStep, EngineGap, CaptureToken, FinishRest, Prepare,
       GiveUp, Commit, EngineOnly, session
  <2> QED BY <1>2, <2>1, <2>4 DEF SessionTyped
<1> QED BY <1>3, <1>4, <1>5, <1>6, <1>7, <1>8, <1>9, LoopTyped DEF SessionNext

LEMMA SessionInitSound == SessionInit => IInv /\ SessionTyped
<1> SUFFICES ASSUME SessionInit PROVE IInv /\ SessionTyped
  OBVIOUS
<1>1. IInv
  BY InitSound DEF SessionInit
<1>2. 0 \in Generations /\ 0 \in GapVersions
  BY CounterAssumption DEF Generations, GapVersions
<1>3. Idle \in Engines
  BY <1>2 DEF Idle, Engines
<1>4. NoBatch \in Batches
  BY CounterAssumption DEF NoBatch, Batches
<1>5. <<>> \in Seq(Batches) /\ Len(<<>>) = 0
  OBVIOUS
<1>6. ping \in BOOLEAN /\ receiver \in BOOLEAN /\ shutdown \in BOOLEAN
  BY Zenon DEF SessionInit
<1>7. /\ loop \in Places
      /\ loop \notin SlotKept
      /\ attempt \in 0 .. AttemptMax
      /\ server \in {"silent", "asked", "answered"}
      /\ owner \in {"holding", "disconnected", "poisoned", "released"}
      /\ custodian \in {"watching", "grace", "closing", "terminal"}
  BY SessionAssumption DEF SessionInit, Places, SlotKept, Delivering
<1>8. /\ engine \in Engines
      /\ batch \in Batches
      /\ queue \in Seq(Batches)
      /\ taken \subseteq Batches
      /\ Len(queue) <= EventCapacity
  BY <1>3, <1>4, <1>5, SessionAssumption DEF SessionInit
<1>9. SessionTyped
  BY <1>6, <1>7, <1>8 DEF SessionTyped, SlotKept, Delivering
<1> QED BY <1>1, <1>9

LEMMA SessionStepSound ==
  ASSUME IInv, SessionTyped, [SessionNext]_allvars
  PROVE  /\ [Next]_vars
         /\ IInv'
         /\ SessionTyped'
         /\ ControlStep(ws, ws') \/ AckStep \/ CommitStep
<1>1. [Next]_vars
  BY SessionUsesCell
<1>2. IInv' /\ (ControlStep(ws, ws') \/ AckStep \/ CommitStep)
  BY <1>1, StepSound
<1>3. Monotone(ws, ws')
  BY <1>2, AckStepFacts, CommitStepFacts DEF ControlStep
<1> QED BY <1>1, <1>2, <1>3, TypedStep

(* The connection loop, its custodian, the session's owner, the consumer   *)
(* and the engine use the cell as UserWsState says; what is proved of the  *)
(* cell for arbitrary callers holds of the session.                        *)
THEOREM SessionImplementsCell == SessionSpec => Spec
<1>1. SessionInit => Init /\ IInv /\ SessionTyped
  BY SessionInitSound DEF SessionInit
<1>2. IInv /\ SessionTyped /\ [SessionNext]_allvars
        => IInv' /\ SessionTyped' /\ [Next]_vars
  BY SessionStepSound
<1> QED BY <1>1, <1>2, PTL DEF SessionSpec, Spec

(* What an engine sees of a session, through every interleaving of loop,   *)
(* custodian, owner and consumer, is the abstract channel: it is live only *)
(* after an attestation, an answer and a publication on the socket it has, *)
(* and once dead it stays dead (state_cell.rs behind connection.rs).       *)
THEOREM SessionImplementsAuthority == SessionSpec => ImplementsChannelAuthority
BY SessionImplementsCell, CellImplementsAuthority

(* The variables of the session have their types; the event channel, a     *)
(* slot of which is reserved before the socket is polled, never holds more *)
(* than its capacity.                                                      *)
THEOREM SessionTypeCorrect == SessionSpec => []SessionTypeOK
<1>1. SessionInit => IInv /\ SessionTyped
  BY SessionInitSound
<1>2. IInv /\ SessionTyped /\ [SessionNext]_allvars => IInv' /\ SessionTyped'
  BY SessionStepSound
<1>3. SessionTyped => SessionTypeOK
  BY DEF SessionTyped, SessionTypeOK, Engines
<1> QED BY <1>1, <1>2, <1>3, PTL DEF SessionSpec

-----------------------------------------------------------------------------
(* What the calls do to a channel that is down, and to the ledger.         *)

PoisonedIsDown ==
    ws.authority_poisoned =>
        /\ ws.connection = "Disconnected"
        /\ ws.subscription = "Inactive"
        /\ "evidence" \in ws.gaps

IsDown ==
    /\ ws.connection = "Disconnected"
    /\ ws.subscription # "ServerResponsive"
    /\ "evidence" \in ws.gaps

NotAnswered == ws'.subscription = "ServerResponsive" => ws.subscription = "ServerResponsive"

KeepsDown ==
    /\ ws'.connection \in {ws.connection, "Disconnected"}
    /\ NotAnswered
    /\ ws.gaps \subseteq ws'.gaps \/ ws.subscription = "ServerResponsive"
    /\ PoisonedIsDown'

LedgerStill ==
    /\ ws'.transport_sequence = ws.transport_sequence
    /\ raw_frames' \subseteq raw_frames
    /\ acked \subseteq acked'
    /\ lost \subseteq lost'

LEMMA UpdateKeepsDown ==
  ASSUME NEW next, Update(next), acked' = acked, lost' = lost,
         Quiet(ws, next), next.transport_sequence = ws.transport_sequence
  PROVE  KeepsDown /\ LedgerStill
  BY DEF Update, Quiet, KeepsDown, NotAnswered, LedgerStill, PoisonedIsDown

LEMMA NothingKeepsDown ==
  ASSUME PoisonedIsDown, UNCHANGED vars
  PROVE  KeepsDown /\ LedgerStill
  BY DEF vars, KeepsDown, NotAnswered, LedgerStill, PoisonedIsDown

LEMMA DisconnectEffect ==
  ASSUME IInv, PoisonedIsDown, CallDisconnected
  PROVE  KeepsDown /\ LedgerStill /\ IsDown'
<1>1. ws \in UserWsStates
  BY DEF IInv, TypeOK
<1>2. CASE MarkDisconnected
  BY <1>1, <1>2, DisconnectedQuiet, UpdateKeepsDown
     DEF MarkDisconnected, Update, history, IsDown
<1>3. CASE Skip(FALSE)
  BY <1>3, NothingKeepsDown DEF Skip, vars, IsDown, PoisonedIsDown
<1> QED BY <1>2, <1>3 DEF CallDisconnected

LEMMA GapEffect ==
  ASSUME IInv, NEW kind \in GapKinds, MarkGap(kind)
  PROVE  KeepsDown /\ LedgerStill /\ ws'.subscription # "ServerResponsive"
<1>1. ws \in UserWsStates /\ {kind} \in Gaps
  BY DEF IInv, TypeOK, Gaps
<1> QED BY <1>1, RevokeQuiet, UpdateKeepsDown DEF MarkGap, Update, history

LEMMA CallGapEffect ==
  ASSUME IInv, PoisonedIsDown, NEW kind \in GapKinds, CallGap(kind)
  PROVE  KeepsDown /\ LedgerStill /\ ws'.subscription # "ServerResponsive"
<1>1. CASE Skip(FALSE)
  BY <1>1, NothingKeepsDown DEF Skip, vars, PoisonedIsDown
<1> QED BY <1>1, GapEffect DEF CallGap

LEMMA ConsumerClosedEffect ==
  ASSUME IInv, PoisonedIsDown, CallConsumerClosed
  PROVE  KeepsDown /\ LedgerStill
<1>1. ws \in UserWsStates /\ {"delivery"} \in Gaps
  BY DEF IInv, TypeOK, Gaps, GapKinds
<1>2. CASE MarkConsumerClosed
  BY <1>1, <1>2, RevokeQuiet, UpdateKeepsDown DEF MarkConsumerClosed, Update, history
<1> QED BY <1>2, NothingKeepsDown DEF CallConsumerClosed, Skip

LEMMA OpeningEffect ==
  ASSUME IInv, PoisonedIsDown, CallConnecting \/ CallConnected
  PROVE  NotAnswered /\ PoisonedIsDown' /\ LedgerStill
<1>1. ws \in UserWsStates
  BY DEF IInv, TypeOK
<1>2. CASE MarkConnecting
  <2>1. /\ ws'.subscription = "Inactive"
        /\ ws'.authority_poisoned = ws.authority_poisoned
        /\ ws'.transport_sequence = ws.transport_sequence
    BY <1>1, <1>2 DEF MarkConnecting, Update, UserWsStates
  <2> QED BY <1>2, <2>1 DEF MarkConnecting, Update, history, NotAnswered, PoisonedIsDown,
          LedgerStill
<1>3. CASE TryMarkConnected
  <2>1. /\ ws'.subscription = "Inactive"
        /\ ws'.authority_poisoned = ws.authority_poisoned
        /\ ws'.transport_sequence = ws.transport_sequence
    BY <1>1, <1>3, ConnectedEffect DEF TryMarkConnected, Update
  <2> QED BY <1>3, <2>1 DEF TryMarkConnected, Update, history, NotAnswered,
          PoisonedIsDown, LedgerStill
<1>4. CASE UNCHANGED vars
  BY <1>4, NothingKeepsDown DEF KeepsDown
<1> QED BY <1>2, <1>3, <1>4 DEF CallConnecting, CallConnected, Skip

LEMMA SubscriptionEffect ==
  ASSUME IInv, PoisonedIsDown, CallSubscriptionWritten
  PROVE  KeepsDown /\ LedgerStill
<1>1. CASE MarkSubscriptionWritten
  <2> DEFINE next == [ws EXCEPT !.authentication = "CredentialsSubmitted",
                                !.subscription = "AwaitingServerProof"]
  <2>1. Quiet(ws, next) /\ next.transport_sequence = ws.transport_sequence
    BY DEF IInv, TypeOK, UserWsStates, Quiet
  <2>2. Update(next) /\ acked' = acked /\ lost' = lost
    BY <1>1 DEF MarkSubscriptionWritten, history
  <2> QED BY <2>1, <2>2, UpdateKeepsDown
<1> QED BY <1>1, NothingKeepsDown DEF CallSubscriptionWritten, Skip

LEMMA LivenessEffect ==
  ASSUME IInv, PoisonedIsDown, CallLivenessProven
  PROVE  /\ PoisonedIsDown' /\ LedgerStill
         /\ NotAnswered \/ ws.connection = "Connected"
<1>1. ws \in UserWsStates
  BY DEF IInv, TypeOK
<1>2. CASE MarkServerLivenessProven
  <2>1. /\ ws' = LivenessProven(ws)
        /\ ~ws.authority_poisoned
        /\ ws.connection = "Connected"
        /\ UNCHANGED <<raw_frames, acked, lost>>
    BY <1>2 DEF MarkServerLivenessProven, Update, history
  <2>2. CASE ws.liveness_version < LivenessMax
    <3>1. ws' = [ws EXCEPT !.liveness_version = @ + 1, !.subscription = "ServerResponsive"]
      BY <2>1, <2>2 DEF LivenessProven
    <3>2. /\ ws'.authority_poisoned = ws.authority_poisoned
          /\ ws'.transport_sequence = ws.transport_sequence
      BY <1>1, <3>1 DEF UserWsStates
    <3> QED BY <2>1, <3>2 DEF PoisonedIsDown, LedgerStill
  <2>3. CASE ~(ws.liveness_version < LivenessMax)
    <3>1. ws' = FailCounter(ws, "Liveness")
      BY <2>1, <2>3 DEF LivenessProven
    <3>2. Quiet(ws, ws') /\ ws'.transport_sequence = ws.transport_sequence
      BY <1>1, <3>1, FailCounterQuiet DEF Exhaustions
    <3> QED BY <2>1, <3>2 DEF PoisonedIsDown, LedgerStill, Quiet
  <2> QED BY <2>2, <2>3
<1>3. CASE UNCHANGED vars
  BY <1>3, NothingKeepsDown DEF KeepsDown
<1> QED BY <1>2, <1>3 DEF CallLivenessProven, Skip

LEMMA EnqueuedEffect ==
  ASSUME IInv, PoisonedIsDown, NEW range, MarkEnqueued(range) \/ Skip(FALSE)
  PROVE  KeepsDown /\ LedgerStill
<1>1. ws \in UserWsStates /\ {"delivery"} \in Gaps
  BY DEF IInv, TypeOK, Gaps, GapKinds
<1>2. Quiet(ws, ws)
  BY DEF Quiet
<1>3. CASE MarkEnqueued(range)
  <2>1. CASE ValidRange(range)
    <3>1. /\ Quiet(ws, Enqueued(ws, range.last))
          /\ Enqueued(ws, range.last).transport_sequence = ws.transport_sequence
      BY <1>1, <1>2 DEF Enqueued, Quiet, UserWsStates
    <3> QED BY <1>3, <2>1, <3>1, UpdateKeepsDown DEF MarkEnqueued, history
  <2>2. CASE ~ValidRange(range)
    BY <1>1, <1>2, <1>3, <2>2, RaiseGapQuiet, UpdateKeepsDown DEF MarkEnqueued, history
  <2> QED BY <2>1, <2>2
<1> QED BY <1>3, NothingKeepsDown DEF Skip

LEMMA PoisoningEffect ==
  ASSUME IInv, PoisonedIsDown, MarkAuthorityPoisoned
  PROVE  KeepsDown /\ LedgerStill
<1>1. ws \in UserWsStates
  BY DEF IInv, TypeOK
<1>2. /\ ws' = FailClosedAfterPoison(ws)
      /\ UNCHANGED <<raw_frames, acked, lost>>
  BY DEF MarkAuthorityPoisoned, Update, history
<1> QED BY <1>1, <1>2, PoisonEffect DEF KeepsDown, NotAnswered, LedgerStill, PoisonedIsDown

LEMMA RestProvenEffect ==
  ASSUME IInv, PoisonedIsDown, NEW authority, MarkAuthenticatedRestProven(authority)
  PROVE  KeepsDown /\ LedgerStill
<1>1. /\ Quiet(ws, RestProven(ws, authority))
      /\ RestProven(ws, authority).transport_sequence = ws.transport_sequence
  BY DEF IInv, TypeOK, UserWsStates, Quiet, RestProven
<1> QED BY <1>1, UpdateKeepsDown DEF MarkAuthenticatedRestProven

LEMMA ReservationEffect ==
  ASSUME IInv, PoisonedIsDown, NEW width \in Nat,
         ReserveTransportSequences(width) \/ Skip(FALSE)
  PROVE  /\ KeepsDown
         /\ raw_frames' = raw_frames /\ acked' = acked /\ lost' = lost
<1>1. ws \in UserWsStates
  BY DEF IInv, TypeOK
<1>2. CASE ReserveTransportSequences(width)
  <2>1. Quiet(ws, Reserved(ws, width))
    BY <1>1, FailCounterQuiet DEF Exhaustions, Reserved, Quiet, UserWsStates
  <2> QED BY <1>2, <2>1 DEF ReserveTransportSequences, Update, history, Quiet, KeepsDown,
          NotAnswered, PoisonedIsDown
<1> QED BY <1>2, NothingKeepsDown DEF Skip, vars

LEMMA FrameReservationEffect ==
  ASSUME IInv, PoisonedIsDown, ReserveRawFrameSequence \/ Skip(FALSE)
  PROVE  /\ KeepsDown /\ LedgerStill
         /\ Dead(ws') \/ ws'.raw_frame_sequence > ws.raw_frame_sequence
<1>1. ws \in UserWsStates /\ ws.raw_frame_sequence \in Nat
  BY CounterTypes DEF IInv, TypeOK
<1>2. CASE ReserveRawFrameSequence
  <2>1. CASE ws.raw_frame_sequence < FrameMax
    <3>1. FrameReserved(ws) = [ws EXCEPT !.raw_frame_sequence = @ + 1]
      BY <2>1 DEF FrameReserved
    <3>2. /\ Quiet(ws, FrameReserved(ws))
          /\ FrameReserved(ws).transport_sequence = ws.transport_sequence
          /\ FrameReserved(ws).raw_frame_sequence > ws.raw_frame_sequence
      BY <1>1, <3>1 DEF UserWsStates, Quiet
    <3> QED BY <1>2, <3>2, UpdateKeepsDown DEF ReserveRawFrameSequence, Update, history
  <2>2. CASE ~(ws.raw_frame_sequence < FrameMax)
    <3>1. FrameReserved(ws) = FailCounter(ws, "RawFrameSequence")
      BY <2>2 DEF FrameReserved
    <3>2. /\ Quiet(ws, FrameReserved(ws))
          /\ FrameReserved(ws).transport_sequence = ws.transport_sequence
          /\ Dead(FrameReserved(ws))
      BY <1>1, <3>1, FailCounterQuiet DEF Exhaustions
    <3> QED BY <1>2, <3>2, UpdateKeepsDown DEF ReserveRawFrameSequence, Update, history
  <2> QED BY <2>1, <2>2
<1>3. CASE Skip(FALSE)
  BY <1>3, NothingKeepsDown DEF Skip, vars, Dead
<1> QED BY <1>2, <1>3

LEMMA RetainEffect ==
  ASSUME IInv, PoisonedIsDown, NEW frame, RetainRawFrame(frame) \/ Skip(FALSE)
  PROVE  /\ KeepsDown
         /\ ws'.transport_sequence = ws.transport_sequence
         /\ raw_frames' \subseteq raw_frames \cup {frame}
         /\ acked' = acked /\ lost' = lost
<1>1. ws \in UserWsStates /\ {"evidence"} \in Gaps /\ Quiet(ws, ws)
  BY DEF IInv, TypeOK, Gaps, GapKinds, Quiet
<1>2. CASE RetainRawFrame(frame)
  <2>1. /\ ws' = RaiseGap(ws, {"evidence"}) \/ ws' = ws
        /\ ~ws.authority_poisoned
        /\ raw_frames' = raw_frames \cup {frame}
        /\ acked' = acked /\ lost' = lost
    BY <1>2 DEF RetainRawFrame, history
  <2>2. Quiet(ws, ws') /\ ws'.transport_sequence = ws.transport_sequence
    BY <1>1, <2>1, RaiseGapQuiet
  <2> QED BY <2>1, <2>2 DEF Quiet, KeepsDown, NotAnswered, PoisonedIsDown
<1>3. CASE Skip(FALSE)
  BY <1>3, NothingKeepsDown DEF Skip, vars
<1> QED BY <1>2, <1>3

(* Acknowledgements and drops by the consumer.                             *)
LEMMA HandlingEffect ==
  ASSUME IInv, PoisonedIsDown, HandleBatch
  PROVE  KeepsDown /\ LedgerStill
<1>1. /\ ws \in UserWsStates
      /\ {"delivery"} \in Gaps
      /\ Quiet(ws, ws)
  BY DEF IInv, TypeOK, Gaps, GapKinds, Quiet
<1> DEFINE c == [ws EXCEPT !.consumer_closed = TRUE]
<1>2. /\ c \in UserWsStates
      /\ Quiet(ws, c)
      /\ c.transport_sequence = ws.transport_sequence
  BY <1>1 DEF UserWsStates, Quiet
<1> HIDE DEF c
<1>3. ASSUME ~ws.authority_poisoned, raw_frames' \subseteq raw_frames,
             acked \subseteq acked', lost \subseteq lost',
             \/ ws' = ws
             \/ ws' = RaiseGap(ws, {"delivery"})
             \/ ws' = RaiseGap(c, {"delivery"})
      PROVE  KeepsDown /\ LedgerStill
  <2>1. Quiet(ws, ws') /\ ws'.transport_sequence = ws.transport_sequence
    BY <1>1, <1>2, <1>3, RaiseGapQuiet
  <2> QED BY <1>3, <2>1 DEF Quiet, KeepsDown, NotAnswered, LedgerStill, PoisonedIsDown
<1>4. ASSUME NEW frame, AcknowledgeRawFrameDurable(frame)
      PROVE  KeepsDown /\ LedgerStill
  BY <1>3, <1>4 DEF AcknowledgeRawFrameDurable, history
<1>5. ASSUME NEW range, MarkDropped(range)
      PROVE  KeepsDown /\ LedgerStill
  BY <1>3, <1>5 DEF MarkDropped, DropInvalid, DropRetained, DropOverflow, c
<1>6. ASSUME NEW sequence, AcknowledgeDurable(sequence)
      PROVE  KeepsDown /\ LedgerStill
  <2>1. CASE AckOverflow(sequence)
    BY <1>3, <1>6, <2>1 DEF AcknowledgeDurable, AckOverflow, c
  <2>2. CASE AckRetained(sequence)
    <3>1. /\ ~ws.authority_poisoned
          /\ UNCHANGED <<raw_frames, lost>>
          /\ acked \subseteq acked'
      BY <1>6, <2>2 DEF AcknowledgeDurable, AckRetained
    <3>2. PICK to \in ws.durable_sequence .. ws.transport_sequence :
             ws' = [ws EXCEPT !.durable_sequence = to]
      BY <2>2 DEF AckRetained
    <3>3. Quiet(ws, ws') /\ ws'.transport_sequence = ws.transport_sequence
      BY <1>1, <3>2 DEF UserWsStates, Quiet
    <3> QED BY <3>1, <3>3 DEF Quiet, KeepsDown, NotAnswered, LedgerStill, PoisonedIsDown
  <2> QED BY <1>6, <2>1, <2>2 DEF AcknowledgeDurable
<1> QED BY <1>4, <1>5, <1>6 DEF HandleBatch

(* A commit clears gaps only of a channel that is responsive already.      *)
LEMMA CommitEffect ==
  ASSUME IInv, PoisonedIsDown, NEW finalization \in prepared,
         CommitCatchUpFinalization(finalization)
  PROVE  KeepsDown /\ LedgerStill
<1>1. ws \in UserWsStates
  BY DEF IInv, TypeOK
<1>2. CASE CommitAccepted(finalization)
  <2>1. /\ IsReady(ws', raw_frames')
        /\ ws' = RecoveredState(ws)
        /\ ~ws.authority_poisoned
    BY <1>2, CommitAcceptedStep DEF CommitStep, CommitAccepted
  <2>2. /\ ws'.connection = ws.connection
        /\ ws'.subscription = ws.subscription
        /\ ws'.authority_poisoned = ws.authority_poisoned
        /\ ws'.transport_sequence = ws.transport_sequence
    BY <1>1, <2>1, RecoveredFacts
  <2>3. ws'.subscription = "ServerResponsive"
    BY <2>1 DEF IsReady, ChannelAuthorityIntact
  <2> QED BY <2>1, <2>2, <2>3 DEF CommitCatchUpFinalization, history, KeepsDown,
          NotAnswered, LedgerStill, PoisonedIsDown
<1>3. CASE CommitRejected(finalization)
  BY <1>3 DEF CommitCatchUpFinalization, CommitRejected, history, KeepsDown, NotAnswered,
     LedgerStill, PoisonedIsDown
<1> QED BY <1>2, <1>3 DEF CommitCatchUpFinalization

-----------------------------------------------------------------------------
(* What the steps of the session do, as far as retirement and delivery are *)
(* concerned.                                                              *)

(* Places at which no frame is in the loop's hands.                        *)
NothingReceived == loop \notin Delivering /\ LedgerStill /\ UNCHANGED <<queue, taken>>

LoopEffect ==
    /\ UNCHANGED <<custodian, shutdown, receiver>>
    /\ loop \notin {"Done", "Cancelled"}
    /\ loop' # "Cancelled"
    /\ loop' = "Polling" => ~shutdown
    /\ loop' = "Done" => IsDown'
    /\ PoisonedIsDown'
    /\ \/ NotAnswered
       \/ loop = "Polling" /\ ws.connection = "Connected" /\ loop' # "Done"

LEMMA LoopEffects ==
  ASSUME IInv, SessionTyped, PoisonedIsDown, LoopStep
  PROVE  /\ LoopEffect
         /\ \/ NothingReceived
            \/ \E width \in Nat, decoded \in BOOLEAN : ReceiveFrame(width, decoded)
            \/ ReserveFrame
            \/ Retain
            \/ Send
<1> USE DEF Goto, LoopOnly, socket, channel, owning, Delivering
<1>1. CASE \/ Start
           \/ ConnectFails
           \/ ConnectShutdown
           \/ ConnectSucceeds
           \/ SubscribeFails
           \/ SubscribeShutdown
           \/ Subscribed
           \/ ProofPingFails
           \/ ProofPing
  BY <1>1, DisconnectEffect, OpeningEffect, SubscriptionEffect, NothingKeepsDown
     DEF Start, ConnectFails, ConnectShutdown, ConnectSucceeds, SubscribeFails,
     SubscribeShutdown, Subscribed, ProofPingFails, ProofPing, KeepsDown, LoopEffect,
     NothingReceived, vars
<1>2. CASE \/ InnerShutdown
           \/ HeartbeatTimeout
           \/ HeartbeatPing
           \/ Reserve
           \/ ReceiveControlPing
           \/ SocketEnds
           \/ ReceiptFails
           \/ Retry
           \/ WaitEnds
  BY <1>2, NothingKeepsDown
     DEF InnerShutdown, HeartbeatTimeout, HeartbeatPing, Reserve, ReceiveControlPing,
     SocketEnds, ReceiptFails, Retry, WaitEnds, KeepsDown, LoopEffect, NothingReceived
<1>3. CASE ConsumerGone
  BY <1>3, ConsumerClosedEffect DEF ConsumerGone, KeepsDown, LoopEffect, NothingReceived
<1>4. CASE ReceivePong
  BY <1>4, LivenessEffect, NothingKeepsDown DEF ReceivePong, KeepsDown, LoopEffect,
     NothingReceived
<1>5. CASE Enqueue
  BY <1>5, EnqueuedEffect DEF Enqueue, KeepsDown, LoopEffect, NothingReceived
<1>6. CASE \/ SchemaGap
           \/ LoseDelivery
           \/ LoseEvidence
           \/ Backoff
  BY <1>6, CallGapEffect, NothingKeepsDown
     DEF SchemaGap, LoseDelivery, LoseEvidence, Backoff, GapKinds, KeepsDown, LoopEffect,
     NothingReceived, vars
<1>7. CASE \/ Close
           \/ Leave
           \/ Exit
  BY <1>7, DisconnectEffect, NothingKeepsDown DEF Close, Leave, Exit, KeepsDown,
     LoopEffect, NothingReceived
<1>8. ASSUME NEW width \in Nat, NEW decoded \in BOOLEAN, ReceiveFrame(width, decoded)
      PROVE  LoopEffect
  BY <1>8, ReservationEffect DEF ReceiveFrame, KeepsDown, LoopEffect
<1>9. CASE ReserveFrame
  BY <1>9, FrameReservationEffect DEF ReserveFrame, KeepsDown, LoopEffect
<1>10. CASE Retain
  BY <1>10, RetainEffect DEF Retain, KeepsDown, LoopEffect
<1>11. CASE Send
  BY <1>11, NothingKeepsDown DEF Send, KeepsDown, LoopEffect, vars
<1>12. /\ \A width \in Widths : width \in Nat
       /\ 1 \in Nat
  BY SessionAssumption
<1> QED BY <1>1, <1>2, <1>3, <1>4, <1>5, <1>6, <1>7, <1>8, <1>9, <1>10, <1>11, <1>12
        DEF LoopStep

LEMMA SendEffects ==
  ASSUME PoisonedIsDown, SendCompletes
  PROVE  LoopEffect /\ NothingReceived
  BY NothingKeepsDown DEF SendCompletes, PingSent, PingFails, ReplySent, ReplyFails, Goto,
     LoopOnly, socket, channel, owning, Delivering, KeepsDown, LoopEffect, NothingReceived,
     vars

(* Whoever acts beside the loop and its custodian.                         *)
LEMMA OtherEffects ==
  ASSUME IInv, SessionTyped, PoisonedIsDown,
         \/ ServerAnswers
         \/ RequestShutdown
         \/ FailClosed
         \/ TakeBatch
         \/ DropReceiver
         \/ HandleBatch
         \/ EngineStep
         \/ UNCHANGED allvars
  PROVE  /\ KeepsDown /\ LedgerStill
         /\ UNCHANGED <<loop, batch, custodian>>
         /\ shutdown => shutdown'
         /\ receiver' => receiver
         /\ \/ UNCHANGED <<queue, taken>>
            \/ TakeBatch
            \/ ~receiver'
<1>1. CASE ServerAnswers \/ TakeBatch \/ DropReceiver \/ UNCHANGED allvars
  BY <1>1, NothingKeepsDown DEF ServerAnswers, TakeBatch, DropReceiver, allvars, session,
     socket, channel, owning, vars
<1>2. CASE RequestShutdown \/ FailClosed
  BY <1>2, DisconnectEffect, PoisoningEffect, NothingKeepsDown
     DEF RequestShutdown, FailClosed, OwnerOnly, socket, channel
<1>3. CASE HandleBatch
  <2>1. UNCHANGED session
    BY <1>3 DEF HandleBatch
  <2> QED BY <1>3, <2>1, HandlingEffect DEF session, socket, channel, owning
<1>4. CASE EngineStep
  <2>1. UNCHANGED <<loop, batch, queue, taken, receiver, shutdown, custodian>>
    BY <1>4 DEF EngineStep, EngineGap, CaptureToken, FinishRest, Prepare, GiveUp, Commit,
       EngineOnly, session, socket, channel, owning
  <2>2. CASE EngineGap
    BY <2>1, <2>2, GapEffect DEF EngineGap, GapKinds
  <2>3. CASE CaptureToken \/ GiveUp
    BY <2>1, <2>3, NothingKeepsDown DEF CaptureToken, GiveUp
  <2>4. CASE FinishRest
    BY <2>1, <2>4, RestProvenEffect, NothingKeepsDown DEF FinishRest
  <2>5. CASE Prepare
    BY <2>1, <2>5 DEF Prepare, PrepareCatchUpFinalization, ledger, history, KeepsDown,
       NotAnswered, LedgerStill, PoisonedIsDown
  <2>6. CASE Commit
    BY <2>1, <2>6, CommitEffect DEF Commit
  <2> QED BY <1>4, <2>2, <2>3, <2>4, <2>5, <2>6 DEF EngineStep
<1> QED BY <1>1, <1>2, <1>3, <1>4

-----------------------------------------------------------------------------
(* Retirement.  In the grace period the shutdown stands, so that the loop  *)
(* does not poll again; where it was polling already, its socket is down.  *)

RetiredInv ==
    /\ PoisonedIsDown
    /\ custodian # "watching" \/ loop = "Done" => ws.subscription # "ServerResponsive"
    /\ custodian = "grace" => shutdown
    /\ custodian = "grace" /\ loop = "Polling" => ws.connection # "Connected"
    /\ custodian \in {"watching", "grace"} => loop # "Cancelled"
    /\ custodian = "closing" => loop = "Cancelled"
    /\ custodian = "terminal" => loop \in {"Done", "Cancelled"}
    /\ loop = "Done" \/ custodian = "terminal" => IsDown

LEMMA LoopRetired ==
  ASSUME SessionTyped, RetiredInv, LoopEffect
  PROVE  RetiredInv'
<1>1. custodian \in {"watching", "grace"} /\ custodian' = custodian
  BY DEF SessionTyped, RetiredInv, LoopEffect
<1>2. CASE custodian = "grace"
  <2>1. /\ NotAnswered
        /\ ws.subscription # "ServerResponsive"
        /\ shutdown'
        /\ loop' # "Polling"
    BY <1>2 DEF RetiredInv, LoopEffect
  <2> QED BY <1>1, <1>2, <2>1 DEF RetiredInv, LoopEffect, NotAnswered
<1>3. CASE custodian = "watching"
  BY <1>1, <1>3 DEF RetiredInv, LoopEffect, IsDown
<1> QED BY <1>1, <1>2, <1>3

LEMMA CustodianRetired ==
  ASSUME IInv, SessionTyped, RetiredInv, CustodianStep
  PROVE  RetiredInv' /\ LedgerStill
<1>1. PoisonedIsDown
  BY DEF RetiredInv
<1>2. CASE CustodianRequested
  BY <1>1, <1>2, DisconnectEffect
     DEF CustodianRequested, CustodianOnly, RetiredInv, KeepsDown, IsDown, Awaiting
<1>3. CASE CustodianCancels
  BY <1>1, <1>3, CallGapEffect
     DEF CustodianCancels, GapKinds, RetiredInv, KeepsDown, Awaiting
<1>4. CASE CustodianFinishes
  <2>1. CASE custodian = "watching"
    BY <1>1, <1>4, <2>1, NothingKeepsDown
       DEF CustodianFinishes, CustodianOnly, RetiredInv, KeepsDown, IsDown, vars
  <2>2. CASE custodian # "watching"
    BY <1>1, <1>4, <2>2, DisconnectEffect
       DEF CustodianFinishes, CustodianOnly, RetiredInv, KeepsDown, IsDown
  <2> QED BY <2>1, <2>2
<1> QED BY <1>2, <1>3, <1>4 DEF CustodianStep

LEMMA OtherRetired ==
  ASSUME RetiredInv, KeepsDown, UNCHANGED <<loop, custodian>>, shutdown => shutdown'
  PROVE  RetiredInv'
  BY DEF RetiredInv, KeepsDown, NotAnswered, IsDown

LEMMA RetiredStep ==
  ASSUME IInv, SessionTyped, RetiredInv, [SessionNext]_allvars
  PROVE  RetiredInv'
<1>1. PoisonedIsDown
  BY DEF RetiredInv
<1>2. CASE LoopStep \/ SendCompletes
  BY <1>1, <1>2, LoopEffects, SendEffects, LoopRetired
<1>3. CASE CustodianStep
  BY <1>3, CustodianRetired
<1>4. CASE ~(LoopStep \/ SendCompletes \/ CustodianStep)
  BY <1>1, <1>4, OtherEffects, OtherRetired DEF SessionNext
<1> QED BY <1>2, <1>3, <1>4

(* Whatever the loop was awaiting when the shutdown was requested, and     *)
(* whoever else calls into the cell, from the custodian's first step on    *)
(* the channel is not ready, and it ends disconnected with a gap on        *)
(* record.                                                                 *)
THEOREM RetiredIsDown == SessionSpec => []RetiredStaysDown
<1>1. SessionInit => IInv /\ SessionTyped /\ RetiredInv
  BY SessionInitSound DEF SessionInit, Init, RetiredInv, PoisonedIsDown
<1>2. IInv /\ SessionTyped /\ RetiredInv /\ [SessionNext]_allvars
        => IInv' /\ SessionTyped' /\ RetiredInv'
  BY SessionStepSound, RetiredStep
<1>3. RetiredInv => RetiredStaysDown
  BY DEF RetiredInv, IsDown, RetiredStaysDown, IsReady, ChannelAuthorityIntact
<1> QED BY <1>1, <1>2, <1>3, PTL DEF SessionSpec

-----------------------------------------------------------------------------
(* Delivery.  Every step carries on what was carried, and what is new is   *)
(* carried by the batch it came in.                                        *)

LEMMA CarriedKept ==
  ASSUME FramesAccounted, LedgerStill, Dead(ws) => Dead(ws'), receiver' => receiver,
         Carried \subseteq Carried'
  PROVE  FramesAccounted'
  BY DEF FramesAccounted, LedgerStill

LEMMA NothingReceivedCarried ==
  ASSUME NothingReceived
  PROVE  Carried \subseteq Carried'
  BY DEF NothingReceived, Carried, InFlight

LEMMA TakeCarried ==
  ASSUME SessionTyped, TakeBatch
  PROVE  Carried \subseteq Carried'
<1>1. /\ queue # <<>>
      /\ queue \in Seq(Batches)
      /\ taken' = taken \cup {Head(queue)}
      /\ queue' = Tail(queue)
      /\ loop' = loop /\ batch' = batch
  BY DEF TakeBatch, SessionTyped, socket
<1>2. ASSUME NEW i \in DOMAIN queue
      PROVE  queue[i] \in Carried'
  <2>1. CASE i = 1
    BY <1>1, <2>1 DEF Carried
  <2>2. CASE i # 1
    <3>1. i - 1 \in DOMAIN queue' /\ queue'[i - 1] = queue[i]
      BY <1>1, <2>2
    <3> QED BY <3>1 DEF Carried
  <2> QED BY <2>1, <2>2
<1>3. InFlight \subseteq Carried' /\ taken \subseteq Carried'
  BY <1>1 DEF InFlight, Carried
<1> QED BY <1>2, <1>3 DEF Carried

LEMMA SendCarried ==
  ASSUME SessionTyped, Send, receiver
  PROVE  Carried \subseteq Carried'
<1>1. /\ queue \in Seq(Batches)
      /\ batch \in Batches
      /\ queue' = Append(queue, batch)
      /\ taken' = taken
  BY DEF Send, SessionTyped
<1>2. ASSUME NEW i \in DOMAIN queue
      PROVE  queue[i] \in Carried'
  <2>1. i \in DOMAIN queue' /\ queue'[i] = queue[i]
    BY <1>1
  <2> QED BY <2>1 DEF Carried
<1>3. batch \in Carried'
  <2>1. Len(queue) + 1 \in DOMAIN queue' /\ queue'[Len(queue) + 1] = batch
    BY <1>1
  <2> QED BY <2>1 DEF Carried
<1>4. taken \subseteq Carried' /\ InFlight \subseteq {batch}
  BY <1>1 DEF Carried, InFlight
<1> QED BY <1>2, <1>3, <1>4 DEF Carried

LEMMA ReceiveAccounted ==
  ASSUME IInv, IInv', SessionTyped, PoisonedIsDown, FramesAccounted,
         Dead(ws) => Dead(ws'),
         NEW width \in Nat, NEW decoded \in BOOLEAN, ReceiveFrame(width, decoded)
  PROVE  FramesAccounted'
<1>1. /\ loop = "Polling"
      /\ UNCHANGED <<queue, taken, receiver>>
      /\ raw_frames' = raw_frames /\ acked' = acked /\ lost' = lost
  BY ReservationEffect DEF ReceiveFrame, channel
<1>2. Carried \subseteq Carried'
  BY <1>1 DEF Carried, InFlight, Delivering
<1>3. ws.transport_sequence \in Nat /\ ws'.transport_sequence \in Nat
  BY CounterTypes DEF IInv, TypeOK
<1>4. CASE ws'.transport_sequence > ws.transport_sequence
  <2>1. /\ batch' \in Carried'
        /\ batch'.first = ws.transport_sequence + 1
        /\ batch'.last = ws'.transport_sequence
    BY <1>4 DEF ReceiveFrame, Carried, InFlight, Delivering
  <2> SUFFICES ASSUME receiver', ~Dead(ws')
               PROVE  /\ \A sequence \in 1 .. ws'.transport_sequence :
                            \/ sequence \in acked' \cup lost'
                            \/ \E b \in Carried' : sequence \in b.first .. b.last
                      /\ \A frame \in raw_frames' : \E b \in Carried' : b.frame = frame
    BY DEF FramesAccounted
  <2>2. /\ \A sequence \in 1 .. ws.transport_sequence :
              \/ sequence \in acked \cup lost
              \/ \E b \in Carried : sequence \in b.first .. b.last
        /\ \A frame \in raw_frames : \E b \in Carried : b.frame = frame
    BY <1>1 DEF FramesAccounted
  <2>3. ASSUME NEW sequence \in 1 .. ws'.transport_sequence
        PROVE  \/ sequence \in acked' \cup lost'
               \/ \E b \in Carried' : sequence \in b.first .. b.last
    <3>1. CASE sequence <= ws.transport_sequence
      <4>1. sequence \in 1 .. ws.transport_sequence
        BY <1>3, <3>1
      <4> QED BY <1>1, <1>2, <2>2, <4>1
    <3>2. CASE ~(sequence <= ws.transport_sequence)
      <4>1. sequence \in batch'.first .. batch'.last
        BY <1>3, <2>1, <3>2
      <4> QED BY <2>1, <4>1
    <3> QED BY <3>1, <3>2
  <2>4. \A frame \in raw_frames' : \E b \in Carried' : b.frame = frame
    BY <1>1, <1>2, <2>2
  <2> QED BY <2>3, <2>4
<1>5. CASE ~(ws'.transport_sequence > ws.transport_sequence)
  <2>1. \A sequence \in 1 .. ws'.transport_sequence : sequence \in 1 .. ws.transport_sequence
    BY <1>3, <1>5
  <2> QED BY <1>1, <1>2, <2>1 DEF FramesAccounted
<1> QED BY <1>4, <1>5

LEMMA ReserveAccounted ==
  ASSUME IInv, SessionTyped, PoisonedIsDown, FramesAccounted,
         Dead(ws) => Dead(ws'), ReserveFrame
  PROVE  FramesAccounted'
<1>1. /\ loop = "Sequenced"
      /\ UNCHANGED <<queue, taken, receiver>>
  BY DEF ReserveFrame, channel
<1>2. LedgerStill /\ (Dead(ws') \/ ws'.raw_frame_sequence > ws.raw_frame_sequence)
  BY FrameReservationEffect DEF ReserveFrame
<1>3. CASE Dead(ws')
  BY <1>3 DEF FramesAccounted
<1>4. CASE ws'.raw_frame_sequence > ws.raw_frame_sequence
  <2>1. /\ loop' = "Framed"
        /\ batch' = [batch EXCEPT !.frame = ws'.raw_frame_sequence]
        /\ batch \in Batches
        /\ batch.frame = 0
    BY <1>1, <1>4 DEF ReserveFrame, SessionTyped
  <2>2. batch'.first = batch.first /\ batch'.last = batch.last
    BY <2>1 DEF Batches
  <2>3. batch' \in Carried'
    BY <2>1 DEF Carried, InFlight, Delivering
  <2>4. \A b \in Carried : b = batch \/ b \in Carried'
    BY <1>1 DEF Carried, InFlight
  <2>5. 0 \notin raw_frames
    BY CounterAssumption DEF IInv, TypeOK
  <2>6. \A sequence : (\E b \in Carried : sequence \in b.first .. b.last)
                         => \E b \in Carried' : sequence \in b.first .. b.last
    BY <2>2, <2>3, <2>4
  <2>7. \A frame \in raw_frames : (\E b \in Carried : b.frame = frame)
                                     => \E b \in Carried' : b.frame = frame
    BY <2>1, <2>4, <2>5
  <2> QED BY <1>1, <1>2, <2>6, <2>7 DEF FramesAccounted, LedgerStill
<1> QED BY <1>2, <1>3, <1>4

LEMMA RetainAccounted ==
  ASSUME IInv, PoisonedIsDown, FramesAccounted, Dead(ws) => Dead(ws'), Retain
  PROVE  FramesAccounted'
<1>1. /\ loop = "Framed"
      /\ UNCHANGED <<batch, queue, taken, receiver>>
      /\ loop' = IF ws.authority_poisoned THEN "EvidenceLost" ELSE "Retained"
  BY DEF Retain, LoopOnly, socket, channel
<1>2. /\ ws'.transport_sequence = ws.transport_sequence
      /\ raw_frames' \subseteq raw_frames \cup {batch.frame}
      /\ acked' = acked /\ lost' = lost
  BY RetainEffect DEF Retain
<1>3. CASE ws.authority_poisoned
  BY <1>3 DEF FramesAccounted, Dead
<1>4. CASE ~ws.authority_poisoned
  <2>1. Carried \subseteq Carried' /\ batch \in Carried'
    BY <1>1, <1>4 DEF Carried, InFlight, Delivering
  <2> QED BY <1>1, <1>2, <2>1 DEF FramesAccounted
<1> QED BY <1>3, <1>4

LEMMA AccountedStep ==
  ASSUME IInv, SessionTyped, RetiredInv, FramesAccounted, [SessionNext]_allvars
  PROVE  FramesAccounted'
<1>1. PoisonedIsDown
  BY DEF RetiredInv
<1>2. IInv' /\ (Dead(ws) => Dead(ws'))
  BY SessionStepSound, AckStepFacts, CommitStepFacts DEF ControlStep
<1>3. CASE LoopStep
  <2>1. receiver' = receiver
    BY <1>1, <1>3, LoopEffects DEF LoopEffect
  <2>2. CASE NothingReceived
    BY <1>2, <2>1, <2>2, NothingReceivedCarried, CarriedKept DEF NothingReceived
  <2>3. CASE Send
    <3>1. LedgerStill
      BY <1>1, <2>3, NothingKeepsDown DEF Send
    <3>2. CASE receiver
      BY <1>2, <2>1, <2>3, <3>1, <3>2, SendCarried, CarriedKept
    <3>3. CASE ~receiver
      BY <2>1, <3>3 DEF FramesAccounted
    <3> QED BY <3>2, <3>3
  <2> QED BY <1>1, <1>2, <1>3, <2>2, <2>3, LoopEffects, ReceiveAccounted, ReserveAccounted,
          RetainAccounted
<1>4. CASE SendCompletes
  BY <1>1, <1>2, <1>4, SendEffects, NothingReceivedCarried, CarriedKept
     DEF LoopEffect, NothingReceived
<1>5. CASE CustodianStep
  <2>1. /\ LedgerStill
        /\ loop \in Awaiting \cup {"Done", "Cancelled"}
        /\ UNCHANGED <<queue, taken, receiver>>
    BY <1>5, CustodianRetired DEF CustodianStep, CustodianRequested, CustodianCancels,
       CustodianFinishes, CustodianOnly, channel, RetiredInv
  <2>2. NothingReceived
    BY <2>1 DEF NothingReceived, Awaiting, Delivering
  <2> QED BY <1>2, <2>1, <2>2, NothingReceivedCarried, CarriedKept
<1>6. CASE ~(LoopStep \/ SendCompletes \/ CustodianStep)
  <2>1. /\ LedgerStill
        /\ UNCHANGED <<loop, batch>>
        /\ receiver' => receiver
        /\ UNCHANGED <<queue, taken>> \/ TakeBatch \/ ~receiver'
    BY <1>1, <1>6, OtherEffects DEF SessionNext
  <2>2. CASE UNCHANGED <<queue, taken>>
    <3>1. Carried \subseteq Carried'
      BY <2>1, <2>2 DEF Carried, InFlight
    <3> QED BY <1>2, <2>1, <3>1, CarriedKept
  <2>3. CASE TakeBatch
    BY <1>2, <2>1, <2>3, TakeCarried, CarriedKept
  <2>4. CASE ~receiver'
    BY <2>4 DEF FramesAccounted
  <2> QED BY <2>1, <2>2, <2>3, <2>4
<1> QED BY <1>3, <1>4, <1>5, <1>6

(* While the consumer lives and the channel is not dead, every sequence    *)
(* given to a frame's events is acknowledged, recorded as dropped or still *)
(* carried, and so is every retained frame: no cancellation, disconnect or *)
(* shutdown loses a frame that was received.                               *)
THEOREM NoFrameIsLost == SessionSpec => []FramesAccounted
<1>1. SessionInit => IInv /\ SessionTyped /\ RetiredInv /\ FramesAccounted
  BY SessionInitSound DEF SessionInit, Init, RetiredInv, PoisonedIsDown, FramesAccounted
<1>2. IInv /\ SessionTyped /\ RetiredInv /\ FramesAccounted /\ [SessionNext]_allvars
        => IInv' /\ SessionTyped' /\ RetiredInv' /\ FramesAccounted'
  BY SessionStepSound, RetiredStep, AccountedStep
<1> QED BY <1>1, <1>2, PTL DEF SessionSpec

-----------------------------------------------------------------------------
(* Readiness.  What the invariant says about a channel that is not dead:   *)
(* off a served socket nothing is responsive; batches come in the order of *)
(* their sequences; what is in the loop's hands is neither acknowledged    *)
(* nor dropped; and once an undecodable frame was dropped, the recoveries  *)
(* under way are too old to clear its gap.                                 *)

Serving == InnerLoop \cup {"Leaving"}

Attached == loop \notin Serving => ws.subscription # "ServerResponsive"

(* The batches that were sent to the consumer.                             *)
Passed == taken \cup {queue[i] : i \in DOMAIN queue}

Ordered ==
    /\ \A b \in Passed : b.first <= b.last /\ b.last <= ws.transport_sequence
    /\ loop \in Delivering \cup Delivered =>
          /\ 1 <= batch.first
          /\ batch.first <= batch.last
          /\ batch.last = ws.transport_sequence
          /\ \A b \in Passed : \/ b.last < batch.first
                               \/ loop \in Delivered /\ b = batch

(* The raw frame of a batch in the channel is pending: it is acknowledged  *)
(* with the batch in hand, and each batch has a frame of its own.          *)
FramesHeld ==
    /\ \A b \in Passed : b.frame <= ws.raw_frame_sequence
    /\ \A i \in DOMAIN queue :
          /\ queue[i].frame \in raw_frames
          /\ \A b \in taken : b.frame # queue[i].frame
          /\ \A j \in DOMAIN queue : j # i => queue[j].frame # queue[i].frame
    /\ loop \in {"Framed", "Retained"} =>
          /\ batch.frame <= ws.raw_frame_sequence
          /\ \A b \in Passed : b.frame # batch.frame
    /\ loop = "Retained" => batch.frame \in raw_frames

Unsettled == ws.transport_sequence \notin acked \cup lost

(* A gap stands that no recovery under way can clear.                      *)
Raised ==
    /\ "delivery" \in ws.gaps
    /\ \A finalization \in prepared : finalization.state.gap_version < ws.gap_version
    /\ engine.at = "proven" => \/ engine.gap_version < ws.gap_version
                               \/ ws.subscription # "ServerResponsive"

Settling ==
    /\ acked \cup lost \subseteq 1 .. ws.transport_sequence
    /\ loop \in Delivering => Unsettled
    /\ loop \in Delivered /\ ~batch.decoded => Unsettled \/ Raised

TokensOld ==
    /\ engine.gap_version <= ws.gap_version
    /\ \A finalization \in prepared :
          finalization.state.gap_version \in 0 .. ws.gap_version

DeliveryInv ==
    /\ Attached
    /\ ~Dead(ws) => Ordered /\ FramesHeld /\ Settling /\ TokensOld

Untouched == UNCHANGED <<raw_frames, prepared, acked, lost>>

(* Only a commit of a finalization that describes the cell clears a gap.   *)
LEMMA GapsClearedByCommit ==
  ASSUME IInv, [Next]_vars
  PROVE  ws.gaps \subseteq ws'.gaps \/ Cell \in prepared
<1> DEFINE Goal == ws.gaps \subseteq ws'.gaps \/ Cell \in prepared
<1>1. ASSUME NEW frame \in 1 .. ws.raw_frame_sequence, RetainRawFrame(frame)
      PROVE  Goal
  BY <1>1, RetainStep DEF ControlStep
<1>2. ASSUME NEW frame \in raw_frames, AcknowledgeRawFrameDurable(frame)
      PROVE  Goal
  BY <1>2, AckFrameStep DEF ControlStep
<1>3. ASSUME NEW range \in Ranges, MarkDropped(range)
      PROVE  Goal
  BY <1>3, DroppedStep DEF ControlStep
<1>4. ASSUME NEW sequence \in 1 .. TransportMax, AcknowledgeDurable(sequence)
      PROVE  Goal
  <2>1. ControlStep(ws, ws') \/ AckStep
    BY <1>4, AckRetainedStep, AckOverflowStep DEF AcknowledgeDurable
  <2> QED BY <2>1, AckStepFacts DEF ControlStep
<1>5. CASE PrepareCatchUpFinalization
  BY <1>5, PrepareStep DEF ControlStep
<1>6. ASSUME NEW finalization \in prepared, CommitCatchUpFinalization(finalization)
      PROVE  Goal
  BY <1>6 DEF CommitCatchUpFinalization, CommitAccepted, CommitRejected
<1>7. CASE UNCHANGED vars
  BY <1>7 DEF vars
<1>8. ASSUME ControlStep(ws, ws')
      PROVE  Goal
  BY <1>8 DEF ControlStep
<1> QED BY <1>1, <1>2, <1>3, <1>4, <1>5, <1>6, <1>7, <1>8, UpdateStep DEF Next

LEMMA CallsUntouched ==
  /\ CallConnecting => Untouched
  /\ CallConnected => Untouched
  /\ CallSubscriptionWritten => Untouched
  /\ CallLivenessProven => Untouched
  /\ CallDisconnected => Untouched
  /\ \A kind \in GapKinds : CallGap(kind) => Untouched
  /\ CallConsumerClosed => Untouched
  /\ MarkAuthorityPoisoned => Untouched
  /\ ReserveRawFrameSequence => Untouched
  /\ \A width \in Nat : ReserveTransportSequences(width) => Untouched
  /\ \A range \in Ranges : MarkEnqueued(range) => Untouched
  /\ \A authority \in Authorities : MarkAuthenticatedRestProven(authority) => Untouched
  /\ \A refused \in BOOLEAN : Skip(refused) => Untouched
  /\ UNCHANGED vars => Untouched
<1> USE DEF Untouched, Update, Skip, history, vars
<1>1. /\ MarkConnecting => Untouched
      /\ TryMarkConnected => Untouched
      /\ MarkSubscriptionWritten => Untouched
      /\ MarkServerLivenessProven => Untouched
      /\ MarkDisconnected => Untouched
      /\ \A kind \in GapKinds : MarkGap(kind) => Untouched
      /\ MarkConsumerClosed => Untouched
      /\ MarkAuthorityPoisoned => Untouched
      /\ ReserveRawFrameSequence => Untouched
      /\ \A width \in Nat : ReserveTransportSequences(width) => Untouched
      /\ \A range \in Ranges : MarkEnqueued(range) => Untouched
      /\ \A authority \in Authorities : MarkAuthenticatedRestProven(authority) => Untouched
  BY DEF MarkConnecting, TryMarkConnected, MarkSubscriptionWritten,
     MarkServerLivenessProven, MarkDisconnected, MarkGap, MarkConsumerClosed,
     MarkAuthorityPoisoned, ReserveRawFrameSequence, ReserveTransportSequences,
     MarkEnqueued, MarkAuthenticatedRestProven
<1> QED BY <1>1 DEF CallConnecting, CallConnected, CallSubscriptionWritten,
        CallLivenessProven, CallDisconnected, CallGap, CallConsumerClosed

(* Steps that leave the ledger and what has passed alone.                  *)
Passive ==
    /\ Untouched
    /\ ws'.transport_sequence = ws.transport_sequence
    /\ UNCHANGED <<taken, engine>>
    /\ queue' = queue \/ queue' = <<>>
    /\ \/ UNCHANGED <<loop, batch>> /\ NotAnswered
       \/ loop = "Sent" /\ loop' = "Enqueued" /\ UNCHANGED batch /\ NotAnswered
       \/ loop' \notin Delivering \cup Delivered

LoopAttached ==
    \/ loop' \in Serving
    \/ ws'.subscription # "ServerResponsive"
    \/ loop \notin Serving /\ NotAnswered

LEMMA LoopPassive ==
  ASSUME IInv, SessionTyped, PoisonedIsDown, LoopStep
  PROVE  /\ LoopAttached
         /\ \/ Passive
            \/ \E width \in Nat, decoded \in BOOLEAN : ReceiveFrame(width, decoded)
            \/ ReserveFrame
            \/ Retain
            \/ Send
<1> USE DEF Goto, LoopOnly, socket, channel, owning, Delivering, Delivered, Serving,
            InnerLoop, LoopAttached
<1>1. CASE \/ Start
           \/ ConnectFails
           \/ ConnectShutdown
           \/ ConnectSucceeds
           \/ SubscribeFails
           \/ SubscribeShutdown
           \/ Subscribed
           \/ ProofPingFails
           \/ ProofPing
  BY <1>1, DisconnectEffect, OpeningEffect, SubscriptionEffect, NothingKeepsDown,
     CallsUntouched
     DEF Start, ConnectFails, ConnectShutdown, ConnectSucceeds, SubscribeFails,
     SubscribeShutdown, Subscribed, ProofPingFails, ProofPing, KeepsDown, LedgerStill,
     Passive, vars
<1>2. CASE \/ InnerShutdown
           \/ HeartbeatTimeout
           \/ HeartbeatPing
           \/ Reserve
           \/ ReceiveControlPing
           \/ SocketEnds
           \/ ReceiptFails
           \/ Retry
           \/ WaitEnds
  BY <1>2, NothingKeepsDown, CallsUntouched
     DEF InnerShutdown, HeartbeatTimeout, HeartbeatPing, Reserve, ReceiveControlPing,
     SocketEnds, ReceiptFails, Retry, WaitEnds, KeepsDown, LedgerStill, Passive
<1>3. CASE ConsumerGone
  BY <1>3, ConsumerClosedEffect, CallsUntouched DEF ConsumerGone, LedgerStill, Passive
<1>4. CASE ReceivePong
  BY <1>4, LivenessEffect, NothingKeepsDown, CallsUntouched DEF ReceivePong, LedgerStill,
     Passive
<1>5. CASE Enqueue
  <2>1. [first |-> batch.first, last |-> batch.last] \in Ranges
    BY DEF SessionTyped, Batches, Ranges
  <2>2. Untouched
    BY <1>5, <2>1, CallsUntouched DEF Enqueue
  <2>3. KeepsDown /\ LedgerStill
    BY <1>5, EnqueuedEffect DEF Enqueue
  <2> QED BY <1>5, <2>2, <2>3 DEF Enqueue, KeepsDown, LedgerStill, Passive
<1>6. CASE \/ SchemaGap
           \/ LoseDelivery
           \/ LoseEvidence
           \/ Backoff
  BY <1>6, CallGapEffect, NothingKeepsDown, CallsUntouched
     DEF SchemaGap, LoseDelivery, LoseEvidence, Backoff, GapKinds, KeepsDown, LedgerStill,
     Passive, vars
<1>7. CASE \/ Close
           \/ Leave
           \/ Exit
  BY <1>7, DisconnectEffect, NothingKeepsDown, CallsUntouched DEF Close, Leave, Exit,
     KeepsDown, LedgerStill, Passive, IsDown
<1>8. ASSUME NEW width \in Nat, NEW decoded \in BOOLEAN, ReceiveFrame(width, decoded)
      PROVE  LoopAttached
  BY <1>8 DEF ReceiveFrame
<1>9. CASE ReserveFrame
  BY <1>9 DEF ReserveFrame
<1>10. CASE Retain
  BY <1>10 DEF Retain
<1>11. CASE Send
  BY <1>11 DEF Send
<1>12. /\ \A width \in Widths : width \in Nat
       /\ 1 \in Nat
  BY SessionAssumption
<1> QED BY <1>1, <1>2, <1>3, <1>4, <1>5, <1>6, <1>7, <1>8, <1>9, <1>10, <1>11, <1>12
        DEF LoopStep

LEMMA AttachedStep ==
  ASSUME IInv, SessionTyped, RetiredInv, Attached, [SessionNext]_allvars
  PROVE  Attached'
<1>1. PoisonedIsDown
  BY DEF RetiredInv
<1>2. CASE LoopStep
  BY <1>1, <1>2, LoopPassive DEF LoopAttached, Attached, NotAnswered
<1>3. CASE SendCompletes
  BY <1>3 DEF SendCompletes, PingSent, PingFails, ReplySent, ReplyFails, Goto, LoopOnly,
     Attached, Serving, InnerLoop
<1>4. CASE CustodianStep
  <2>1. CASE CustodianCancels
    BY <1>1, <2>1, CallGapEffect DEF CustodianCancels, GapKinds, Attached
  <2>2. CASE CustodianRequested \/ CustodianFinishes
    BY <1>1, <2>2, DisconnectEffect, NothingKeepsDown
       DEF CustodianRequested, CustodianFinishes, CustodianOnly, KeepsDown, NotAnswered,
       Attached
  <2> QED BY <1>4, <2>1, <2>2 DEF CustodianStep
<1>5. CASE ~(LoopStep \/ SendCompletes \/ CustodianStep)
  BY <1>1, <1>5, OtherEffects DEF SessionNext, KeepsDown, NotAnswered, Attached
<1> QED BY <1>2, <1>3, <1>4, <1>5

Delivers == Ordered /\ FramesHeld /\ Settling /\ TokensOld

LEMMA CounterFacts ==
  ASSUME IInv, IInv', Monotone(ws, ws'), SessionTyped
  PROVE  /\ ws.transport_sequence \in Nat /\ ws'.transport_sequence \in Nat
         /\ ws.transport_sequence <= ws'.transport_sequence
         /\ ws.raw_frame_sequence \in Nat /\ ws'.raw_frame_sequence \in Nat
         /\ ws.raw_frame_sequence <= ws'.raw_frame_sequence
         /\ ws.gap_version \in Nat /\ ws'.gap_version \in Nat
         /\ ws.gap_version <= ws'.gap_version
         /\ engine.gap_version \in Nat
         /\ batch.first \in Nat /\ batch.last \in Nat /\ batch.frame \in Nat
         /\ \A b \in Passed : b.first \in Nat /\ b.last \in Nat /\ b.frame \in Nat
<1>1. /\ ws \in UserWsStates /\ ws' \in UserWsStates
  BY DEF IInv, TypeOK
<1>2. \A b \in Batches : b.first \in Nat /\ b.last \in Nat /\ b.frame \in Nat
  BY CounterAssumption DEF Batches
<1>3. \A i \in DOMAIN queue : queue[i] \in Batches
  BY DEF SessionTyped
<1>4. engine.gap_version \in Nat
  BY CounterAssumption DEF SessionTyped, Engines, GapVersions
<1>5. Passed \subseteq Batches /\ batch \in Batches
  BY <1>3 DEF Passed, SessionTyped
<1> QED BY <1>1, <1>2, <1>4, <1>5, CounterTypes DEF Monotone

(* A raised gap stays raised when nothing is prepared.                     *)
LEMMA RaisedStays ==
  ASSUME IInv, IInv', [Next]_vars, Monotone(ws, ws'), SessionTyped, TokensOld, Raised,
         prepared' \subseteq prepared, NotAnswered,
         engine'.at = "proven" =>
            \/ engine' = engine
            \/ ws'.subscription # "ServerResponsive"
  PROVE  Raised'
<1>1. /\ ws.gap_version \in Nat /\ ws'.gap_version \in Nat
      /\ ws.gap_version <= ws'.gap_version
      /\ engine.gap_version \in Nat
  BY CounterFacts
<1>2. Cell \notin prepared
  BY <1>1 DEF Raised, Cell
<1>3. "delivery" \in ws'.gaps
  BY <1>2, GapsClearedByCommit DEF Raised
<1>4. ASSUME NEW finalization \in prepared'
      PROVE  finalization.state.gap_version < ws'.gap_version
  <2>1. /\ finalization.state.gap_version \in 0 .. ws.gap_version
        /\ finalization.state.gap_version < ws.gap_version
    BY DEF TokensOld, Raised
  <2> QED BY <1>1, <2>1
<1>5. engine'.at = "proven" => \/ engine'.gap_version < ws'.gap_version
                               \/ ws'.subscription # "ServerResponsive"
  BY <1>1 DEF Raised, NotAnswered
<1> QED BY <1>3, <1>4, <1>5 DEF Raised

LEMMA PreparedStaysOld ==
  ASSUME IInv, IInv', Monotone(ws, ws'), SessionTyped, TokensOld,
         prepared' \subseteq prepared,
         engine'.gap_version \in {engine.gap_version, ws.gap_version, 0}
  PROVE  TokensOld'
<1>1. /\ ws.gap_version \in Nat /\ ws'.gap_version \in Nat
      /\ ws.gap_version <= ws'.gap_version
      /\ engine.gap_version \in Nat
  BY CounterFacts
<1>2. engine'.gap_version <= ws'.gap_version
  BY <1>1 DEF TokensOld
<1>3. ASSUME NEW finalization \in prepared'
      PROVE  finalization.state.gap_version \in 0 .. ws'.gap_version
  <2>1. finalization.state.gap_version \in 0 .. ws.gap_version
    BY DEF TokensOld
  <2> QED BY <1>1, <2>1
<1> QED BY <1>2, <1>3 DEF TokensOld

LEMMA PassiveDelivers ==
  ASSUME IInv, IInv', [Next]_vars, Monotone(ws, ws'), SessionTyped, Delivers, Passive
  PROVE  Delivers'
<1> USE DEF Delivers
<1>1. Passed' \subseteq Passed /\ taken' = taken
  BY DEF Passive, Passed
<1>2. Ordered'
  BY <1>1 DEF Ordered, Passive, Delivering, Delivered
<1>3. FramesHeld'
  <2>1. \A i \in DOMAIN queue' : i \in DOMAIN queue /\ queue'[i] = queue[i]
    BY DEF Passive
  <2>2. \A b \in Passed' : b.frame <= ws'.raw_frame_sequence
    BY <1>1, CounterFacts DEF FramesHeld
  <2>3. loop' \in {"Framed", "Retained"} => loop' = loop /\ batch' = batch
    BY DEF Passive, Delivering, Delivered
  <2>4. loop' \in {"Framed", "Retained"} => batch'.frame <= ws'.raw_frame_sequence
    BY <2>3, CounterFacts DEF FramesHeld
  <2> QED BY <1>1, <2>1, <2>2, <2>3, <2>4 DEF FramesHeld, Passive, Untouched
<1>4. Settling'
  <2>1. Unsettled => Unsettled'
    BY DEF Unsettled, Passive, Untouched
  <2>2. NotAnswered => (Raised => Raised')
    BY RaisedStays DEF Passive, Untouched
  <2>3. loop' \in Delivering \cup Delivered =>
           /\ NotAnswered
           /\ batch' = batch
           /\ loop' \in Delivering => loop \in Delivering
           /\ loop' \in Delivered => loop \in Delivered
    BY DEF Passive, Delivering, Delivered
  <2> QED BY <2>1, <2>2, <2>3 DEF Settling, Passive, Untouched
<1>5. TokensOld'
  BY PreparedStaysOld DEF Passive, Untouched
<1> QED BY <1>2, <1>3, <1>4, <1>5

LEMMA ReceiveDelivers ==
  ASSUME IInv, IInv', [Next]_vars, Monotone(ws, ws'), SessionTyped, PoisonedIsDown, Delivers,
         NEW width \in Nat, NEW decoded \in BOOLEAN, ReceiveFrame(width, decoded)
  PROVE  Delivers'
<1> USE DEF Delivers
<1>1. /\ loop = "Polling"
      /\ UNCHANGED <<queue, taken, engine>>
      /\ Untouched
  BY CallsUntouched DEF ReceiveFrame, channel
<1>2. /\ Passed' = Passed
      /\ acked' = acked /\ lost' = lost /\ raw_frames' = raw_frames /\ prepared' = prepared
  BY <1>1 DEF Passed, Untouched
<1>3. TokensOld'
  BY <1>1, <1>2, PreparedStaysOld
<1>4. \/ /\ loop' = "Sequenced"
         /\ ws'.transport_sequence > ws.transport_sequence
         /\ batch'.first = ws.transport_sequence + 1
         /\ batch'.last = ws'.transport_sequence
      \/ loop' = "DeliveryLost"
  BY DEF ReceiveFrame
<1>5. Ordered'
  BY <1>2, <1>4, CounterFacts DEF Ordered, Delivering, Delivered
<1>6. FramesHeld'
  BY <1>1, <1>2, <1>4, CounterFacts DEF FramesHeld
<1>7. Settling'
  <2>1. acked \cup lost \subseteq 1 .. ws.transport_sequence
    BY DEF Settling
  <2>2. acked' \cup lost' \subseteq 1 .. ws'.transport_sequence
    BY <1>2, <2>1, CounterFacts
  <2>3. ws'.transport_sequence > ws.transport_sequence => Unsettled'
    BY <1>2, <2>1, CounterFacts DEF Unsettled
  <2> QED BY <1>4, <2>2, <2>3 DEF Settling, Delivering, Delivered
<1> QED BY <1>3, <1>5, <1>6, <1>7

LEMMA ReserveDelivers ==
  ASSUME IInv, IInv', [Next]_vars, Monotone(ws, ws'), SessionTyped, PoisonedIsDown, Delivers,
         ReserveFrame
  PROVE  Delivers'
<1> USE DEF Delivers
<1>1. /\ loop = "Sequenced"
      /\ UNCHANGED <<queue, taken, engine>>
      /\ Untouched
      /\ LedgerStill
  BY CallsUntouched, FrameReservationEffect DEF ReserveFrame, channel
<1>2. /\ Passed' = Passed
      /\ acked' = acked /\ lost' = lost /\ raw_frames' = raw_frames /\ prepared' = prepared
      /\ ws'.transport_sequence = ws.transport_sequence
  BY <1>1 DEF Passed, Untouched, LedgerStill
<1>3. \/ /\ loop' = "Framed"
         /\ ws'.raw_frame_sequence > ws.raw_frame_sequence
         /\ batch'.first = batch.first
         /\ batch'.last = batch.last
         /\ batch'.frame = ws'.raw_frame_sequence
      \/ loop' = "EvidenceLost"
  BY DEF ReserveFrame, SessionTyped, Batches
<1>4. TokensOld'
  BY <1>1, <1>2, PreparedStaysOld
<1>5. Ordered'
  BY <1>1, <1>2, <1>3 DEF Ordered, Delivering, Delivered
<1>6. FramesHeld'
  BY <1>1, <1>2, <1>3, CounterFacts DEF FramesHeld
<1>7. Settling'
  BY <1>1, <1>2, <1>3 DEF Settling, Unsettled, Delivering, Delivered
<1> QED BY <1>4, <1>5, <1>6, <1>7

LEMMA RetainDelivers ==
  ASSUME IInv, IInv', [Next]_vars, Monotone(ws, ws'), SessionTyped, PoisonedIsDown, Delivers,
         Retain
  PROVE  Delivers'
<1> USE DEF Delivers
<1>1. /\ loop = "Framed"
      /\ UNCHANGED <<batch, queue, taken, engine>>
      /\ loop' = IF ws.authority_poisoned THEN "EvidenceLost" ELSE "Retained"
      /\ RetainRawFrame(batch.frame) \/ Skip(FALSE)
  BY DEF Retain, LoopOnly, socket, channel
<1>2. /\ ws'.transport_sequence = ws.transport_sequence
      /\ acked' = acked /\ lost' = lost
  BY <1>1, RetainEffect
<1>3. /\ prepared' = prepared
      /\ raw_frames \subseteq raw_frames'
      /\ loop' = "Retained" => batch.frame \in raw_frames'
  BY <1>1 DEF RetainRawFrame, Skip, vars
<1>4. Passed' = Passed
  BY <1>1 DEF Passed
<1>5. TokensOld'
  BY <1>1, <1>3, PreparedStaysOld
<1>6. Ordered'
  BY <1>1, <1>2, <1>4 DEF Ordered, Delivering, Delivered
<1>7. FramesHeld'
  BY <1>1, <1>3, <1>4, CounterFacts DEF FramesHeld
<1>8. Settling'
  BY <1>1, <1>2 DEF Settling, Unsettled, Delivering, Delivered
<1> QED BY <1>5, <1>6, <1>7, <1>8

LEMMA SendDelivers ==
  ASSUME IInv, IInv', [Next]_vars, Monotone(ws, ws'), SessionTyped, Delivers, Send
  PROVE  Delivers'
<1> USE DEF Delivers
<1>1. /\ loop = "Retained"
      /\ loop' = "Sent"
      /\ queue' = IF receiver THEN Append(queue, batch) ELSE queue
      /\ UNCHANGED <<ws, raw_frames, prepared, acked, lost, batch, taken, engine>>
      /\ queue \in Seq(Batches) /\ batch \in Batches
  BY DEF Send, socket, vars, SessionTyped
<1>2. ASSUME NEW i \in DOMAIN queue'
      PROVE  \/ i \in DOMAIN queue /\ queue'[i] = queue[i]
             \/ i = Len(queue) + 1 /\ queue'[i] = batch
  BY <1>1
<1>3. \A b \in Passed' : b \in Passed \/ b = batch
  BY <1>1, <1>2 DEF Passed
<1>4. Ordered'
  <2>1. /\ 1 <= batch.first
        /\ batch.first <= batch.last
        /\ batch.last = ws.transport_sequence
        /\ batch.last <= ws.transport_sequence
        /\ \A b \in Passed : b.last < batch.first
    BY <1>1, CounterFacts DEF Ordered, Delivering, Delivered
  <2>2. /\ \A b \in Passed' : b.first <= b.last /\ b.last <= ws.transport_sequence
        /\ \A b \in Passed' : b.last < batch.first \/ b = batch
    BY <1>3, <2>1 DEF Ordered
  <2> QED BY <1>1, <2>1, <2>2 DEF Ordered, Delivered
<1>5. FramesHeld'
  <2>1. /\ batch.frame \in raw_frames
        /\ batch.frame <= ws.raw_frame_sequence
        /\ \A b \in Passed : b.frame # batch.frame
    BY <1>1 DEF FramesHeld
  <2>2. ASSUME NEW i \in DOMAIN queue'
        PROVE  /\ queue'[i].frame \in raw_frames'
               /\ \A b \in taken' : b.frame # queue'[i].frame
    BY <1>1, <1>2, <2>1 DEF FramesHeld, Passed
  <2>3. ASSUME NEW i \in DOMAIN queue', NEW j \in DOMAIN queue', j # i
        PROVE  queue'[j].frame # queue'[i].frame
    <3>1. \A k \in DOMAIN queue : queue[k] \in Passed
      BY DEF Passed
    <3> QED BY <1>2, <2>1, <2>3, <3>1 DEF FramesHeld
  <2>4. \A b \in Passed' : b.frame <= ws'.raw_frame_sequence
    BY <1>1, <1>3, <2>1 DEF FramesHeld
  <2> QED BY <1>1, <2>2, <2>3, <2>4 DEF FramesHeld
<1>6. Settling'
  BY <1>1 DEF Settling, Unsettled, Delivering, Delivered
<1>7. TokensOld'
  BY <1>1 DEF TokensOld
<1> QED BY <1>4, <1>5, <1>6, <1>7

LEMMA TakeDelivers ==
  ASSUME IInv, IInv', [Next]_vars, Monotone(ws, ws'), SessionTyped, Delivers, TakeBatch
  PROVE  Delivers'
<1> USE DEF Delivers
<1>1. /\ queue # <<>>
      /\ queue \in Seq(Batches)
      /\ taken' = taken \cup {Head(queue)}
      /\ queue' = Tail(queue)
      /\ UNCHANGED <<ws, raw_frames, prepared, acked, lost, loop, batch, engine>>
  BY DEF TakeBatch, SessionTyped, socket, owning, vars
<1>2. ASSUME NEW i \in DOMAIN queue'
      PROVE  /\ i + 1 \in DOMAIN queue
             /\ i + 1 # 1
             /\ queue'[i] = queue[i + 1]
  BY <1>1
<1>3. 1 \in DOMAIN queue /\ Head(queue) = queue[1]
  BY <1>1
<1>4. Passed' \subseteq Passed
  BY <1>1, <1>2, <1>3 DEF Passed
<1>5. Ordered'
  BY <1>1, <1>4 DEF Ordered
<1>6. FramesHeld'
  <2>1. ASSUME NEW i \in DOMAIN queue'
        PROVE  /\ queue'[i].frame \in raw_frames'
               /\ \A b \in taken' : b.frame # queue'[i].frame
    BY <1>1, <1>2, <1>3 DEF FramesHeld
  <2>2. ASSUME NEW i \in DOMAIN queue', NEW j \in DOMAIN queue', j # i
        PROVE  queue'[j].frame # queue'[i].frame
    <3>1. i + 1 # j + 1
      BY <1>1, <2>2
    <3> QED BY <1>2, <3>1 DEF FramesHeld
  <2> QED BY <1>1, <1>4, <2>1, <2>2 DEF FramesHeld
<1>7. Settling'
  BY <1>1 DEF Settling, Unsettled, Raised
<1>8. TokensOld'
  BY <1>1 DEF TokensOld
<1> QED BY <1>5, <1>6, <1>7, <1>8

-----------------------------------------------------------------------------
(* The consumer and the engine.                                            *)

LEMMA HandlingDelivers ==
  ASSUME IInv, IInv', [Next]_vars, Monotone(ws, ws'), SessionTyped, PoisonedIsDown, Delivers,
         ~Dead(ws'), HandleBatch
  PROVE  Delivers'
<1> USE DEF Delivers
<1>1. UNCHANGED <<loop, batch, queue, taken, engine>>
  BY DEF HandleBatch, session, socket, channel
<1>2. Passed' = Passed /\ taken \subseteq Passed
  BY <1>1 DEF Passed
<1>3. LedgerStill /\ KeepsDown
  BY HandlingEffect
<1>4. Ordered'
  BY <1>1, <1>2, <1>3 DEF Ordered, LedgerStill
<1>5. PICK b \in taken :
        \/ AcknowledgeRawFrameDurable(b.frame)
        \/ \E sequence \in (b.first .. b.last) \ acked :
              b.decoded /\ AcknowledgeDurable(sequence)
        \/ /\ ~b.decoded
           /\ b.first \notin lost
           /\ MarkDropped([first |-> b.first, last |-> b.first])
  BY DEF HandleBatch
<1>6. /\ b.first \in Nat /\ b.last \in Nat /\ b.frame \in Nat
      /\ b.first <= b.last
      /\ b.last <= ws.transport_sequence
      /\ loop \in Delivering => b.last < ws.transport_sequence
      /\ loop \in Delivered => b = batch \/ b.last < ws.transport_sequence
  BY <1>2, CounterFacts DEF Ordered, Delivering, Delivered
<1>7. CASE AcknowledgeRawFrameDurable(b.frame)
  <2>1. /\ raw_frames' = raw_frames \ {b.frame}
        /\ UNCHANGED <<ws, prepared, acked, lost>>
    BY <1>7 DEF AcknowledgeRawFrameDurable, history
  <2>2. FramesHeld'
    BY <1>1, <1>2, <2>1 DEF FramesHeld
  <2>3. Settling' /\ TokensOld'
    BY <1>1, <2>1 DEF Settling, Unsettled, Raised, TokensOld
  <2> QED BY <1>4, <2>2, <2>3
<1>8. ASSUME UNCHANGED <<raw_frames, prepared>>
      PROVE  FramesHeld' /\ TokensOld'
  <2>1. FramesHeld'
    BY <1>1, <1>2, <1>8, CounterFacts DEF FramesHeld
  <2> QED BY <1>1, <1>8, <2>1, PreparedStaysOld
<1>9. ASSUME NEW sequence \in b.first .. b.last, b.decoded, AcknowledgeDurable(sequence)
      PROVE  Delivers'
  <2>1. ws \in UserWsStates
    BY DEF IInv, TypeOK
  <2>2. /\ sequence <= ws.transport_sequence
        /\ ws.durable_sequence < sequence
        /\ UNCHANGED <<raw_frames, prepared, lost>>
    BY <1>9 DEF AcknowledgeDurable
  <2>3. AckRetained(sequence)
    <3>1. CASE AckOverflow(sequence)
      <4> DEFINE c == [ws EXCEPT !.consumer_closed = TRUE]
      <4>1. c \in UserWsStates /\ c.consumer_closed = TRUE
        BY <2>1 DEF UserWsStates
      <4>2. ws' = RaiseGap(c, {"delivery"}) /\ {"delivery"} \in Gaps
        BY <3>1 DEF AckOverflow, Gaps, GapKinds
      <4> HIDE DEF c
      <4>3. ws'.consumer_closed = TRUE
        BY <4>1, <4>2, RaiseGapFacts
      <4> QED BY <4>3 DEF Dead
    <3> QED BY <1>9, <3>1 DEF AcknowledgeDurable
  <2>4. acked' = acked \cup {sequence}
    BY <2>3 DEF AckRetained
  <2>5. sequence \in 1 .. ws.transport_sequence
    BY <1>6, <2>1, <2>2, CounterTypes, CounterFacts
  <2>6. /\ loop \in Delivering => sequence # ws.transport_sequence
        /\ loop \in Delivered /\ ~batch.decoded => sequence # ws.transport_sequence
    BY <1>6, <1>9, CounterFacts
  <2>7. Raised => Raised'
    BY <1>1, <1>3, <2>2, RaisedStays DEF KeepsDown
  <2>8. Settling'
    BY <1>1, <1>3, <2>2, <2>4, <2>5, <2>6, <2>7 DEF Settling, Unsettled, LedgerStill
  <2> QED BY <1>4, <1>8, <2>2, <2>8
<1>10. CASE MarkDropped([first |-> b.first, last |-> b.first])
  <2> DEFINE range == [first |-> b.first, last |-> b.first]
             c == [ws EXCEPT !.consumer_closed = TRUE]
  <2>1. ws \in UserWsStates /\ {"delivery"} \in Gaps
    BY DEF IInv, TypeOK, Gaps, GapKinds
  <2>2. /\ UNCHANGED <<raw_frames, prepared, acked>>
        /\ \/ ws' = RaiseGap(ws, {"delivery"})
           \/ ws' = RaiseGap(c, {"delivery"})
        /\ \/ lost' = lost
           \/ /\ ValidRange(range)
              /\ lost' = lost \cup (range.first .. range.last)
    BY <1>10 DEF MarkDropped, DropInvalid, DropRetained, DropOverflow
  <2>3. ws' = RaiseGap(ws, {"delivery"})
    <3>1. c \in UserWsStates /\ c.consumer_closed = TRUE
      BY <2>1 DEF UserWsStates
    <3> HIDE DEF c
    <3>2. CASE ws' = RaiseGap(c, {"delivery"})
      <4>1. ws'.consumer_closed = TRUE
        BY <2>1, <3>1, <3>2, RaiseGapFacts
      <4> QED BY <4>1 DEF Dead
    <3> QED BY <2>2, <3>2
  <2>4. /\ ws'.gap_version = ws.gap_version + 1
        /\ "delivery" \in ws'.gaps
        /\ ws'.transport_sequence = ws.transport_sequence
    BY <2>1, <2>3, RaiseGapFacts DEF Failed, Dead, SameFrontiers
  <2>5. Raised'
    <3>1. ASSUME NEW finalization \in prepared'
          PROVE  finalization.state.gap_version < ws'.gap_version
      <4>1. finalization.state.gap_version \in 0 .. ws.gap_version
        BY <2>2 DEF TokensOld
      <4> QED BY <2>4, <4>1, CounterFacts
    <3>2. engine'.gap_version < ws'.gap_version
      BY <1>1, <2>4, CounterFacts DEF TokensOld
    <3> QED BY <2>4, <3>1, <3>2 DEF Raised
  <2>6. lost' = lost \/ (b.first \in 1 .. ws.transport_sequence /\ lost' = lost \cup {b.first})
    <3>1. range.first .. range.last = {b.first}
      BY <1>6
    <3>2. ValidRange(range) => b.first \in 1 .. ws.transport_sequence
      BY <1>6, CounterFacts DEF ValidRange
    <3> QED BY <2>2, <3>1, <3>2
  <2>7. loop \in Delivering => b.first # ws.transport_sequence
    BY <1>6, CounterFacts
  <2>8. Settling'
    BY <1>1, <2>2, <2>4, <2>5, <2>6, <2>7 DEF Settling, Unsettled
  <2> QED BY <1>4, <1>8, <2>2, <2>8
<1> QED BY <1>5, <1>7, <1>9, <1>10

LEMMA EngineDelivers ==
  ASSUME IInv, IInv', [Next]_vars, Monotone(ws, ws'), SessionTyped, PoisonedIsDown, Delivers,
         EngineStep
  PROVE  Delivers'
<1> USE DEF Delivers
<1>1. UNCHANGED <<loop, batch, queue, taken>>
  BY DEF EngineStep, EngineGap, CaptureToken, FinishRest, Prepare, GiveUp, Commit,
     EngineOnly, session, socket, channel
<1>2. Passed' = Passed
  BY <1>1 DEF Passed
<1>3. KeepsDown /\ LedgerStill
  BY OtherEffects
<1>4. ASSUME UNCHANGED <<raw_frames, acked, lost>>, Raised => Raised', TokensOld'
      PROVE  Delivers'
  <2>1. Ordered'
    BY <1>1, <1>2, <1>3 DEF Ordered, LedgerStill
  <2>2. FramesHeld'
    BY <1>1, <1>2, <1>4, CounterFacts DEF FramesHeld
  <2>3. Settling'
    BY <1>1, <1>3, <1>4 DEF Settling, Unsettled, LedgerStill
  <2> QED BY <1>4, <2>1, <2>2, <2>3
<1>5. ASSUME UNCHANGED <<raw_frames, acked, lost>>, prepared' \subseteq prepared,
             engine'.gap_version \in {engine.gap_version, ws.gap_version, 0},
             engine'.at = "proven" => \/ engine' = engine
                                      \/ ws'.subscription # "ServerResponsive"
      PROVE  Delivers'
  BY <1>3, <1>4, <1>5, RaisedStays, PreparedStaysOld DEF KeepsDown
<1>6. CASE EngineGap
  <2>1. engine' = engine
    BY <1>6 DEF EngineGap, session
  <2>2. UNCHANGED <<raw_frames, prepared, acked, lost>>
    BY <1>6 DEF EngineGap, MarkGap, Update, history
  <2> QED BY <1>5, <2>1, <2>2
<1>7. CASE CaptureToken \/ GiveUp
  <2>1. /\ engine'.at # "proven"
        /\ engine'.gap_version \in {ws.gap_version, 0}
        /\ UNCHANGED <<raw_frames, prepared, acked, lost>>
    BY <1>7 DEF CaptureToken, GiveUp, EngineOnly, Idle, vars
  <2> QED BY <1>5, <2>1
<1>8. CASE FinishRest
  <2>1. CASE \E authority \in OwnAuthorities : MarkAuthenticatedRestProven(authority)
    <3>1. PICK authority \in OwnAuthorities : MarkAuthenticatedRestProven(authority)
      BY <2>1
    <3>2. /\ ws' = RestProven(ws, authority)
          /\ UNCHANGED <<raw_frames, prepared, acked, lost>>
          /\ RecoveryToken(ws)
      BY <3>1 DEF MarkAuthenticatedRestProven, Update
    <3>3. ws'.subscription # "ServerResponsive"
      BY <3>2 DEF RestProven, IInv, TypeOK, UserWsStates
    <3>4. engine'.gap_version \in {engine.gap_version, 0}
      BY <1>8 DEF FinishRest, EngineOnly, Idle, SessionTyped, Engines
    <3> QED BY <1>5, <3>2, <3>3, <3>4
  <2>2. CASE UNCHANGED vars /\ engine' = Idle
    BY <1>5, <2>2 DEF Idle, vars
  <2> QED BY <1>8, <2>1, <2>2 DEF FinishRest, EngineOnly
<1>9. CASE Prepare
  <2>1. /\ engine.at = "proven"
        /\ engine.gap_version = ws.gap_version
        /\ ws.subscription = "ServerResponsive"
        /\ engine' = [engine EXCEPT !.at = "prepared"]
        /\ prepared' = prepared \cup {Cell}
        /\ UNCHANGED <<ws, raw_frames, acked, lost>>
    BY <1>9 DEF Prepare, TokenMatches, RecoveryToken, EngineOnly,
       PrepareCatchUpFinalization, ledger, history
  <2>2. ~Raised
    BY <2>1, CounterFacts DEF Raised
  <2>3. engine'.gap_version = engine.gap_version
    BY <2>1 DEF SessionTyped, Engines
  <2>4. TokensOld'
    <3>1. Cell.state.gap_version \in 0 .. ws.gap_version
      BY CounterFacts DEF Cell
    <3> QED BY <2>1, <2>3, <3>1 DEF TokensOld
  <2> QED BY <1>4, <2>1, <2>2, <2>4
<1>10. CASE Commit
  <2>1. /\ engine' = Idle
        /\ UNCHANGED <<raw_frames, acked, lost>>
        /\ prepared' \subseteq prepared
    BY <1>10 DEF Commit, EngineOnly, CommitCatchUpFinalization, history
  <2> QED BY <1>5, <2>1 DEF Idle
<1> QED BY <1>6, <1>7, <1>8, <1>9, <1>10 DEF EngineStep

LEMMA DeliveryStep ==
  ASSUME IInv, SessionTyped, RetiredInv, DeliveryInv, [SessionNext]_allvars
  PROVE  DeliveryInv'
<1>1. Attached'
  BY AttachedStep DEF DeliveryInv
<1>2. /\ [Next]_vars
      /\ IInv'
      /\ Monotone(ws, ws')
      /\ Dead(ws) => Dead(ws')
  BY SessionStepSound, AckStepFacts, CommitStepFacts DEF ControlStep
<1>3. PoisonedIsDown
  BY DEF RetiredInv
<1> SUFFICES ASSUME ~Dead(ws') PROVE Delivers'
  BY <1>1 DEF DeliveryInv, Delivers
<1>4. Delivers
  BY <1>2 DEF DeliveryInv, Delivers
<1>5. CASE Passive
  BY <1>2, <1>4, <1>5, PassiveDelivers
<1>6. CASE LoopStep
  BY <1>2, <1>3, <1>4, <1>5, <1>6, LoopPassive, ReceiveDelivers, ReserveDelivers,
     RetainDelivers, SendDelivers
<1>7. CASE SendCompletes
  <2>1. Passive
    BY <1>7 DEF SendCompletes, PingSent, PingFails, ReplySent, ReplyFails, Goto, LoopOnly,
       socket, channel, vars, Passive, Untouched, Delivering, Delivered
  <2> QED BY <1>5, <2>1
<1>8. CASE CustodianStep
  <2>1. Untouched /\ ws'.transport_sequence = ws.transport_sequence
    BY <1>3, <1>8, CallsUntouched, DisconnectEffect, CallGapEffect
       DEF CustodianStep, CustodianRequested, CustodianCancels, CustodianFinishes,
       GapKinds, LedgerStill, vars
  <2>2. /\ UNCHANGED <<taken, queue, engine>>
        /\ loop' \in Awaiting \cup {"Done", "Cancelled"}
    BY <1>8 DEF CustodianStep, CustodianRequested, CustodianCancels, CustodianFinishes,
       CustodianOnly, channel, RetiredInv
  <2> QED BY <1>5, <2>1, <2>2 DEF Passive, Awaiting, Delivering, Delivered
<1>9. CASE ServerAnswers \/ RequestShutdown \/ FailClosed \/ DropReceiver \/ UNCHANGED allvars
  <2>1. KeepsDown /\ LedgerStill /\ UNCHANGED <<loop, batch>>
    BY <1>3, <1>9, OtherEffects
  <2>2. Untouched
    BY <1>9, CallsUntouched DEF ServerAnswers, RequestShutdown, FailClosed, DropReceiver,
       allvars
  <2>3. UNCHANGED <<taken, engine>> /\ (queue' = queue \/ queue' = <<>>)
    BY <1>9 DEF ServerAnswers, RequestShutdown, FailClosed, DropReceiver, OwnerOnly,
       allvars, session, channel
  <2> QED BY <1>5, <2>1, <2>2, <2>3 DEF Passive, KeepsDown, LedgerStill
<1>10. CASE TakeBatch
  BY <1>2, <1>4, <1>10, TakeDelivers
<1>11. CASE HandleBatch
  BY <1>2, <1>3, <1>4, <1>11, HandlingDelivers
<1>12. CASE EngineStep
  BY <1>2, <1>3, <1>4, <1>12, EngineDelivers
<1> QED BY <1>6, <1>7, <1>8, <1>9, <1>10, <1>11, <1>12 DEF SessionNext

(* A ready channel is served by the loop, and no event is on its way: its  *)
(* sequence would stand above the frontier, its raw frame would be         *)
(* pending, or the gap of its loss would be raised; and no recovery under  *)
(* way can remove any of these before the consumer has seen the event.     *)
THEOREM NothingUnderway == SessionSpec => []ReadyIsDelivered
<1>1. SessionInit => IInv /\ SessionTyped /\ RetiredInv /\ DeliveryInv
  <2> SUFFICES ASSUME SessionInit
               PROVE  IInv /\ SessionTyped /\ RetiredInv /\ DeliveryInv
    OBVIOUS
  <2>1. IInv /\ SessionTyped /\ RetiredInv
    BY SessionInitSound DEF SessionInit, Init, RetiredInv, PoisonedIsDown
  <2>2. Passed = {} /\ DOMAIN queue = {}
    BY DEF SessionInit, Passed
  <2>3. Ordered /\ FramesHeld
    BY <2>2 DEF SessionInit, Ordered, FramesHeld, Delivering, Delivered
  <2>4. Settling /\ TokensOld
    BY DEF SessionInit, Init, Settling, TokensOld, Idle, Delivering, Delivered
  <2>5. Attached
    BY DEF SessionInit, Init, Attached
  <2> QED BY <2>1, <2>3, <2>4, <2>5 DEF DeliveryInv
<1>2. IInv /\ SessionTyped /\ RetiredInv /\ DeliveryInv /\ [SessionNext]_allvars
        => IInv' /\ SessionTyped' /\ RetiredInv' /\ DeliveryInv'
  BY SessionStepSound, RetiredStep, DeliveryStep
<1>3. IInv /\ SessionTyped /\ DeliveryInv => ReadyIsDelivered
  <2> SUFFICES ASSUME IInv, SessionTyped, DeliveryInv, IsReady(ws, raw_frames)
               PROVE  /\ loop \in (InnerLoop \ Delivering) \cup {"Leaving"}
                      /\ queue = <<>>
                      /\ loop \in Delivered => batch.decoded
    BY DEF ReadyIsDelivered
  <2>1. /\ ws.subscription = "ServerResponsive"
        /\ ws.gaps = {}
        /\ ~Dead(ws)
        /\ ws.durable_sequence = ws.transport_sequence
        /\ raw_frames = {}
    BY DEF IsReady, ChannelAuthorityIntact
  <2>2. Ordered /\ FramesHeld /\ Settling
    BY <2>1 DEF DeliveryInv
  <2>3. ASSUME loop \in Delivering \cup Delivered
        PROVE  ~Unsettled
    <3>1. /\ batch.first \in Nat /\ batch.last \in Nat
          /\ ws.transport_sequence \in Nat
      BY CounterTypes, CounterAssumption DEF SessionTyped, Batches, IInv, TypeOK
    <3>2. ws.transport_sequence \in 1 .. ws.durable_sequence
      BY <2>1, <2>2, <2>3, <3>1 DEF Ordered
    <3> QED BY <3>2 DEF IInv, FrontierInv, FrontierAccounted, Unsettled
  <2>4. loop \in InnerLoop \cup {"Leaving"}
    BY <2>1 DEF DeliveryInv, Attached, Serving
  <2>5. loop \notin Delivering
    BY <2>2, <2>3 DEF Settling
  <2>6. queue = <<>>
    <3>1. DOMAIN queue = {}
      BY <2>1, <2>2 DEF FramesHeld
    <3> QED BY <3>1 DEF SessionTyped
  <2>7. loop \in Delivered => batch.decoded
    BY <2>1, <2>2, <2>3 DEF Settling, Raised
  <2> QED BY <2>4, <2>5, <2>6, <2>7
<1> QED BY <1>1, <1>2, <1>3, PTL DEF SessionSpec

-----------------------------------------------------------------------------
(* Gap versions.  Only the engine prepares a finalization, and it does so  *)
(* with the token its REST reads were made under.                          *)

ProofGapInv ==
    /\ proof_gap <= ws.gap_version
    /\ engine.at = "proven" => engine.gap_version <= proof_gap
    /\ \A finalization \in prepared :
          finalization.state.gap_version \in 0 .. proof_gap

(* A REST proof is recorded at the gap version of the moment.              *)
LEMMA ProofGapMoves ==
  ASSUME IInv, [Next]_vars
  PROVE  proof_gap' \in {proof_gap, ws.gap_version}
<1>1. ASSUME NEW authority \in Authorities, MarkAuthenticatedRestProven(authority)
      PROVE  proof_gap' = ws.gap_version
  BY <1>1 DEF MarkAuthenticatedRestProven
<1>2. \/ MarkConnecting \/ TryMarkConnected \/ MarkSubscriptionWritten
      \/ MarkServerLivenessProven \/ MarkDisconnected \/ MarkConsumerClosed
      \/ MarkAuthorityPoisoned \/ ReserveRawFrameSequence
      \/ \E kind \in GapKinds : MarkGap(kind)
      \/ \E range \in Ranges : MarkEnqueued(range)
      \/ \E count \in 1 .. TransportMax + 1 : ReserveTransportSequences(count)
      => proof_gap' = proof_gap
  BY DEF MarkConnecting, TryMarkConnected, MarkSubscriptionWritten,
     MarkServerLivenessProven, MarkDisconnected, MarkGap, MarkConsumerClosed,
     MarkAuthorityPoisoned, ReserveRawFrameSequence, ReserveTransportSequences,
     MarkEnqueued, history
<1>3. \/ \E frame \in 1 .. ws.raw_frame_sequence : RetainRawFrame(frame)
      \/ \E frame \in raw_frames : AcknowledgeRawFrameDurable(frame)
      \/ \E range \in Ranges : MarkDropped(range)
      \/ \E sequence \in 1 .. TransportMax : AcknowledgeDurable(sequence)
      => proof_gap' = proof_gap
  BY DEF RetainRawFrame, AcknowledgeRawFrameDurable, MarkDropped, AcknowledgeDurable, history
<1>4. \/ PrepareCatchUpFinalization
      \/ \E finalization \in prepared : CommitCatchUpFinalization(finalization)
      \/ UNCHANGED vars
      => proof_gap' = proof_gap
  BY DEF PrepareCatchUpFinalization, CommitCatchUpFinalization, history, vars
<1> QED BY <1>1, <1>2, <1>3, <1>4 DEF Next

(* Nobody but the engine prepares, or moves the engine.                    *)
LEMMA OnlyEnginePrepares ==
  ASSUME IInv, SessionTyped, PoisonedIsDown, RetiredInv, [SessionNext]_allvars
  PROVE  EngineStep \/ UNCHANGED <<prepared, engine>>
<1>1. CASE LoopStep
  <2>1. CASE Passive
    BY <2>1 DEF Passive, Untouched
  <2>2. ASSUME NEW width \in Nat, NEW decoded \in BOOLEAN, ReceiveFrame(width, decoded)
        PROVE  UNCHANGED <<prepared, engine>>
    BY <2>2, CallsUntouched DEF ReceiveFrame, Untouched
  <2>3. CASE ReserveFrame
    BY <2>3, CallsUntouched DEF ReserveFrame, Untouched
  <2>4. CASE Retain
    BY <2>4 DEF Retain, RetainRawFrame, Skip, LoopOnly, vars
  <2>5. CASE Send
    BY <2>5 DEF Send, vars
  <2> QED BY <1>1, <2>1, <2>2, <2>3, <2>4, <2>5, LoopPassive
<1>2. CASE SendCompletes
  BY <1>2 DEF SendCompletes, PingSent, PingFails, ReplySent, ReplyFails, Goto, LoopOnly, vars
<1>3. CASE CustodianStep
  BY <1>3, CallsUntouched DEF CustodianStep, CustodianRequested, CustodianCancels,
     CustodianFinishes, CustodianOnly, GapKinds, Untouched, vars
<1>4. CASE ServerAnswers \/ RequestShutdown \/ FailClosed \/ DropReceiver \/ UNCHANGED allvars
  BY <1>4, CallsUntouched DEF ServerAnswers, RequestShutdown, FailClosed, DropReceiver,
     OwnerOnly, allvars, session, Untouched
<1>5. CASE TakeBatch
  BY <1>5 DEF TakeBatch, vars
<1>6. CASE HandleBatch
  BY <1>6 DEF HandleBatch, AcknowledgeRawFrameDurable, AcknowledgeDurable, MarkDropped,
     session
<1> QED BY <1>1, <1>2, <1>3, <1>4, <1>5, <1>6 DEF SessionNext

LEMMA ProofGapStep ==
  ASSUME IInv, SessionTyped, RetiredInv, ProofGapInv, [SessionNext]_allvars
  PROVE  ProofGapInv'
<1>1. /\ [Next]_vars
      /\ IInv'
      /\ Monotone(ws, ws')
  BY SessionStepSound, AckStepFacts, CommitStepFacts DEF ControlStep
<1>2. /\ ws.gap_version \in Nat /\ ws'.gap_version \in Nat
      /\ ws.gap_version <= ws'.gap_version
      /\ engine.gap_version \in Nat
  BY <1>1, CounterFacts
<1>3. proof_gap \in Nat /\ proof_gap' \in Nat
  BY <1>1, CounterAssumption DEF IInv, TypeOK, GapVersions
<1>4. proof_gap <= proof_gap' /\ proof_gap' <= ws'.gap_version
  BY <1>1, <1>2, <1>3, ProofGapMoves DEF ProofGapInv
<1>5. ASSUME NEW finalization \in prepared
      PROVE  finalization.state.gap_version \in 0 .. proof_gap'
  <2>1. finalization.state.gap_version \in 0 .. proof_gap
    BY DEF ProofGapInv
  <2> QED BY <1>3, <1>4, <2>1
<1>6. ASSUME prepared' \subseteq prepared,
             engine'.at = "proven" => engine'.gap_version <= proof_gap'
      PROVE  ProofGapInv'
  BY <1>4, <1>5, <1>6 DEF ProofGapInv
<1>7. CASE UNCHANGED <<prepared, engine>>
  BY <1>2, <1>3, <1>4, <1>6, <1>7 DEF ProofGapInv
<1>8. CASE EngineStep
  <2>1. CASE EngineGap
    BY <1>7, <2>1 DEF EngineGap, MarkGap, Update, session
  <2>2. CASE CaptureToken \/ GiveUp
    BY <1>6, <2>2 DEF CaptureToken, GiveUp, EngineOnly, Idle, vars
  <2>3. CASE FinishRest
    <3>1. CASE /\ TokenMatches
               /\ \E authority \in OwnAuthorities : MarkAuthenticatedRestProven(authority)
               /\ engine' = [engine EXCEPT !.at = "proven"]
      <4>1. proof_gap' = ws.gap_version /\ prepared' = prepared
        BY <3>1 DEF MarkAuthenticatedRestProven, Update
      <4>2. engine'.gap_version = engine.gap_version
        BY <3>1 DEF SessionTyped, Engines
      <4>3. engine.gap_version = ws.gap_version
        BY <3>1 DEF TokenMatches
      <4> QED BY <1>2, <1>6, <4>1, <4>2, <4>3
    <3>2. CASE UNCHANGED vars /\ engine' = Idle
      BY <1>6, <3>2 DEF Idle, vars
    <3> QED BY <2>3, <3>1, <3>2 DEF FinishRest, EngineOnly
  <2>4. CASE Prepare
    <3>1. /\ engine.at = "proven"
          /\ engine.gap_version = ws.gap_version
          /\ engine' = [engine EXCEPT !.at = "prepared"]
          /\ prepared' = prepared \cup {Cell}
      BY <2>4 DEF Prepare, TokenMatches, EngineOnly, PrepareCatchUpFinalization
    <3>2. engine'.at # "proven"
      BY <3>1 DEF SessionTyped, Engines
    <3>3. Cell.state.gap_version \in 0 .. proof_gap'
      BY <1>2, <1>3, <1>4, <3>1 DEF ProofGapInv, Cell
    <3> QED BY <1>4, <1>5, <3>1, <3>2, <3>3 DEF ProofGapInv
  <2>5. CASE Commit
    BY <1>6, <2>5 DEF Commit, EngineOnly, Idle, CommitCatchUpFinalization
  <2> QED BY <1>8, <2>1, <2>2, <2>3, <2>4, <2>5 DEF EngineStep
<1> QED BY <1>7, <1>8, OnlyEnginePrepares DEF RetiredInv

(* In the engine's conversation a gap is cleared only at the gap version   *)
(* the REST proof was made for: a token is checked when the proof is       *)
(* recorded and when the finalization is prepared, and a finalization      *)
(* describes the cell it clears.                                           *)
THEOREM ClearedAtProof == SessionSpec => GapsClearOnlyAtProofGapVersion
<1> DEFINE I == IInv /\ SessionTyped /\ RetiredInv /\ ProofGapInv
           AtProof == ~(ws.gaps \subseteq ws'.gaps) => ws.gap_version = proof_gap
<1>1. SessionInit => I
  <2> SUFFICES ASSUME SessionInit PROVE I
    OBVIOUS
  <2>1. IInv /\ SessionTyped /\ RetiredInv
    BY SessionInitSound DEF SessionInit, Init, RetiredInv, PoisonedIsDown
  <2>2. ProofGapInv
    BY DEF SessionInit, Init, ProofGapInv, Idle
  <2> QED BY <2>1, <2>2
<1>2. I /\ [SessionNext]_allvars => I'
  BY SessionStepSound, RetiredStep, ProofGapStep
<1>3. I /\ [SessionNext]_allvars => [AtProof]_vars
  <2> SUFFICES ASSUME I, [SessionNext]_allvars, ~(ws.gaps \subseteq ws'.gaps)
               PROVE  ws.gap_version = proof_gap
    OBVIOUS
  <2>1. Cell \in prepared
    BY SessionStepSound, GapsClearedByCommit
  <2>2. ws.gap_version \in 0 .. proof_gap
    BY <2>1 DEF ProofGapInv, Cell
  <2>3. ws.gap_version \in Nat /\ proof_gap \in Nat
    BY CounterTypes, CounterAssumption DEF IInv, TypeOK, GapVersions
  <2> QED BY <2>2, <2>3 DEF ProofGapInv
<1> QED BY <1>1, <1>2, <1>3, PTL DEF SessionSpec, GapsClearOnlyAtProofGapVersion
===============================================================================

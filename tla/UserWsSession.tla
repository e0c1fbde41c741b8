--------------------------- MODULE UserWsSession ---------------------------
(***************************************************************************)
(* The authenticated user channel at work: the connection loop             *)
(* (auth/ws/connection.rs) and its custodian (retirement.rs), the session  *)
(* owner (session.rs), the consumer of the event stream and the recovery   *)
(* engine, all calling the one StateCell of UserWsState.                   *)
(*                                                                         *)
(* The loop moves between the places where other threads can act: its      *)
(* awaits, and the gaps between two calls into the cell.  The consumer and *)
(* the engine are outside the repository; they follow the documented       *)
(* protocol: a consumer acknowledges what it has taken and registers an    *)
(* undecodable frame as a recoverable gap; an engine uses one token from   *)
(* the start of its catch-up to its finalization.                          *)
(*                                                                         *)
(* Abstractions.  The loop alone advances the generation, so its local     *)
(* copy equals that of the cell.  Time is the choice of when a timeout     *)
(* fires.  A frame is a width and whether it decodes.  The two reserve     *)
(* selects are one step, Reserve: neither yields anything before both      *)
(* permits are held.  The reconnect delay is not kept.                     *)
(***************************************************************************)
EXTENDS UserWsState, Sequences

CONSTANTS
    MaxAttempts,     \* max_reconnect_attempts, 0 for None
    AttemptMax,      \* the largest reconnect_attempt, u32::MAX in the code
    EventCapacity,   \* EVENT_CHANNEL_CAPACITY
    Widths,          \* event counts a decoded frame may have
    Environment      \* what happens around the loop (model bound)

ASSUME SessionAssumption ==
    /\ MaxAttempts \in Nat
    /\ AttemptMax \in Nat
    /\ EventCapacity \in Nat \ {0}
    /\ Widths \subseteq Nat \ {0}
    /\ Environment \subseteq {"recovery", "gap", "undecodable", "clock", "control",
                              "shutdown", "poison", "drop"}

VARIABLES
    loop,        \* where connection_loop is
    attempt,     \* reconnect_attempt
    ping,        \* outstanding_ping_since is set
    server,      \* what the server has done with the last PING
    batch,       \* the frame being delivered
    queue,       \* event channel
    receiver,    \* AuthenticatedUserEvents is alive
    taken,       \* batches the consumer has received
    shutdown,    \* shutdown_rx
    owner,       \* request_shutdown: mark_disconnected, then the flag
    custodian,   \* where retirement_custodian is
    engine       \* the recovery and the token it holds

socket == <<attempt, ping, server, batch>>
channel == <<queue, receiver, taken>>
owning == <<shutdown, owner, custodian>>
session == <<loop, socket, channel, owning, engine>>
allvars == <<vars, session>>

-----------------------------------------------------------------------------

Awaiting == {"Connecting", "Subscribing", "Pinging", "Inner", "Polling",
             "Sending", "Replying", "Closing", "Waiting"}

(* Places from the reservation of a frame's sequences to its delivery.     *)
Delivering == {"Sequenced", "Framed", "Retained"}
Delivered == {"Sent", "Enqueued"}

InnerLoop == {"Inner", "Polling", "Sending", "Replying", "DeliveryLost",
              "EvidenceLost", "Closing"}
                \cup Delivering \cup Delivered

Places == Awaiting \cup InnerLoop
             \cup {"Top", "Leaving", "Retry", "Backoff", "Exit", "Done", "Cancelled"}

NoBatch == [first |-> 0, last |-> 0, frame |-> 0, decoded |-> TRUE]

Idle == [at |-> "idle", generation |-> 0, gap_version |-> 0]

SessionInit ==
    /\ Init
    /\ loop = "Top"
    /\ attempt = 0
    /\ ping = FALSE
    /\ server = "silent"
    /\ batch = NoBatch
    /\ queue = <<>>
    /\ receiver = TRUE
    /\ taken = {}
    /\ shutdown = FALSE
    /\ owner = "holding"
    /\ custodian = "watching"
    /\ engine = Idle

-----------------------------------------------------------------------------
(* Calls into the cell.  A call that the cell refuses changes nothing.     *)

Skip(refused) == (ws.authority_poisoned \/ refused) /\ UNCHANGED vars

CallConnecting == MarkConnecting \/ Skip(ws.counter_exhaustion # "None")

CallConnected == TryMarkConnected \/ Skip(ws.counter_exhaustion # "None")

CallSubscriptionWritten ==
    MarkSubscriptionWritten \/ Skip(ws.connection # "Connected")

CallLivenessProven ==
    \/ MarkServerLivenessProven
    \/ Skip(\/ ws.connection # "Connected"
            \/ ws.authentication # "CredentialsSubmitted"
            \/ ws.subscription = "Inactive")

CallDisconnected == MarkDisconnected \/ Skip(FALSE)

CallGap(kind) == MarkGap(kind) \/ Skip(FALSE)

CallConsumerClosed == MarkConsumerClosed \/ Skip(FALSE)

-----------------------------------------------------------------------------
(* connection_loop.                                                        *)

LoopOnly(place) ==
    /\ loop' = place
    /\ UNCHANGED <<socket, channel, owning, engine>>

Goto(place) == LoopOnly(place) /\ UNCHANGED vars

Start ==
    /\ loop = "Top"
    /\ \/ shutdown /\ Goto("Exit")
       \/ ~shutdown /\ CallConnecting /\ LoopOnly("Connecting")

ConnectFails ==
    /\ loop = "Connecting"
    /\ \/ shutdown /\ Goto("Exit")
       \/ ~shutdown /\ CallDisconnected /\ LoopOnly("Backoff")

ConnectShutdown ==
    /\ loop = "Connecting"
    /\ shutdown
    /\ Goto("Exit")

ConnectSucceeds ==
    /\ loop = "Connecting"
    /\ CallConnected
    /\ loop' = IF ws'.generation > ws.generation /\ ws'.counter_exhaustion = "None"
               THEN "Subscribing" ELSE "Exit"
    /\ server' = "silent"
    /\ UNCHANGED <<attempt, ping, batch, channel, owning, engine>>

SubscribeFails ==
    /\ loop = "Subscribing"
    /\ CallDisconnected
    /\ LoopOnly("Retry")

SubscribeShutdown ==
    /\ loop = "Subscribing"
    /\ shutdown
    /\ CallDisconnected
    /\ LoopOnly("Exit")

Subscribed ==
    /\ loop = "Subscribing"
    /\ CallSubscriptionWritten
    /\ LoopOnly("Pinging")

(* The proof PING failed, timed out, or lost against the shutdown.         *)
ProofPingFails ==
    /\ loop = "Pinging"
    /\ CallDisconnected
    /\ LoopOnly("Retry")

ProofPing ==
    /\ loop = "Pinging"
    /\ loop' = "Inner"
    /\ attempt' = 0
    /\ ping' = TRUE
    /\ server' = "asked"
    /\ UNCHANGED <<vars, batch, channel, owning, engine>>

(* The checks that precede the reservations in every pass.                 *)
InnerShutdown ==
    /\ loop \in {"Inner", "Polling"}
    /\ shutdown
    /\ Goto("Closing")

ConsumerGone ==
    /\ loop = "Inner"
    /\ ~receiver
    /\ CallConsumerClosed
    /\ LoopOnly("Leaving")

(* A heartbeat tick finds the outstanding PING too old ...  (Variant: it   *)
(* is not watched while the loop waits for room in the event channel.)     *)
HeartbeatWhilePolling ==
    /\ loop = "Polling"
    /\ ping
    /\ Goto("Leaving")

HeartbeatTimeout ==
    /\ loop \in {"Inner", "Polling"}
    /\ ~(loop = "Inner" /\ (shutdown \/ ~receiver))
    /\ ping
    /\ Goto("Leaving")

(* ... or finds none outstanding and sends one, without a timeout.         *)
HeartbeatPing ==
    /\ loop \in {"Inner", "Polling"}
    /\ ~(loop = "Inner" /\ (shutdown \/ ~receiver))
    /\ ~ping
    /\ Goto("Sending")

PingSent ==
    /\ loop = "Sending"
    /\ loop' = "Inner"
    /\ ping' = TRUE
    /\ server' = "asked"
    /\ UNCHANGED <<vars, attempt, batch, channel, owning, engine>>

PingFails ==
    /\ loop = "Sending"
    /\ Goto("Leaving")

(* One slot of the event channel and one raw-frame permit are owned before *)
(* the socket is polled.                                                   *)
Reserve ==
    /\ loop = "Inner"
    /\ ~shutdown
    /\ receiver
    /\ Len(queue) < EventCapacity
    /\ Cardinality(raw_frames) < MaxPendingRawFrames
    /\ Goto("Polling")

ReceivePong ==
    /\ loop = "Polling"
    /\ server = "answered"
    /\ IF ping THEN CallLivenessProven ELSE UNCHANGED vars
    /\ loop' = "Inner"
    /\ ping' = FALSE
    /\ server' = "silent"
    /\ UNCHANGED <<attempt, batch, channel, owning, engine>>

(* A control-frame Ping is answered, also without a timeout.               *)
ReceiveControlPing ==
    /\ loop = "Polling"
    /\ "control" \in Environment
    /\ Goto("Replying")

ReplySent ==
    /\ loop = "Replying"
    /\ Goto("Inner")

ReplyFails ==
    /\ loop = "Replying"
    /\ Goto("Leaving")

SocketEnds ==
    /\ loop = "Polling"
    /\ Goto("Leaving")

(* The clock gave no receipt for the message.                              *)
ReceiptFails ==
    /\ loop = "Polling"
    /\ "clock" \in Environment
    /\ Goto("EvidenceLost")

(* A frame: its events get their sequences, its bytes a frame sequence.    *)
ReceiveFrame(width, decoded) ==
    /\ loop = "Polling"
    /\ decoded \/ "undecodable" \in Environment
    /\ ReserveTransportSequences(width) \/ Skip(FALSE)
    /\ IF ws'.transport_sequence > ws.transport_sequence
       THEN /\ loop' = "Sequenced"
            /\ batch' = [first |-> ws.transport_sequence + 1,
                         last |-> ws'.transport_sequence,
                         frame |-> 0,
                         decoded |-> decoded]
       ELSE /\ loop' = "DeliveryLost"
            /\ UNCHANGED batch
    /\ UNCHANGED <<attempt, ping, server, channel, owning, engine>>

ReserveFrame ==
    /\ loop = "Sequenced"
    /\ ReserveRawFrameSequence \/ Skip(FALSE)
    /\ IF ws'.raw_frame_sequence > ws.raw_frame_sequence
       THEN loop' = "Framed" /\ batch' = [batch EXCEPT !.frame = ws'.raw_frame_sequence]
       ELSE loop' = "EvidenceLost" /\ UNCHANGED batch
    /\ UNCHANGED <<attempt, ping, server, channel, owning, engine>>

Retain ==
    /\ loop = "Framed"
    /\ RetainRawFrame(batch.frame) \/ Skip(FALSE)
    /\ LoopOnly(IF ws.authority_poisoned THEN "EvidenceLost" ELSE "Retained")

(* permit.send: into the reserved slot, or nowhere if the receiver is gone. *)
Send ==
    /\ loop = "Retained"
    /\ loop' = "Sent"
    /\ queue' = IF receiver THEN Append(queue, batch) ELSE queue
    /\ UNCHANGED <<vars, socket, receiver, taken, owning, engine>>

Enqueue ==
    /\ loop = "Sent"
    /\ MarkEnqueued([first |-> batch.first, last |-> batch.last]) \/ Skip(FALSE)
    /\ LoopOnly(IF batch.decoded THEN "Inner" ELSE "Enqueued")

SchemaGap ==
    /\ loop = "Enqueued"
    /\ CallGap("schema")
    /\ LoopOnly("Closing")

LoseDelivery ==
    /\ loop = "DeliveryLost"
    /\ CallGap("delivery")
    /\ LoopOnly("Closing")

LoseEvidence ==
    /\ loop = "EvidenceLost"
    /\ CallGap("evidence")
    /\ LoopOnly("Leaving")

(* close_socket_within: a close that fails or times out disconnects first. *)
Close ==
    /\ loop = "Closing"
    /\ CallDisconnected \/ UNCHANGED vars
    /\ LoopOnly("Leaving")

(* Variant: the inner loop is left with the channel still connected.       *)
LeaveConnected ==
    /\ loop = "Leaving"
    /\ Goto("Retry")

Leave ==
    /\ loop = "Leaving"
    /\ CallDisconnected
    /\ LoopOnly("Retry")

Exhausted(attempts) == MaxAttempts # 0 /\ attempts >= MaxAttempts

Retry ==
    /\ loop = "Retry"
    /\ Goto(IF shutdown THEN "Exit" ELSE "Backoff")

(* Variant: the attempt counter is advanced without its check.             *)
BackoffUnchecked ==
    /\ loop = "Backoff"
    /\ attempt <= AttemptMax
    /\ attempt' = attempt + 1
    /\ loop' = IF Exhausted(attempt + 1) THEN "Exit" ELSE "Waiting"
    /\ UNCHANGED <<vars, ping, server, batch, channel, owning, engine>>

Backoff ==
    /\ loop = "Backoff"
    /\ \/ /\ attempt = AttemptMax
          /\ CallGap("evidence")
          /\ LoopOnly("Exit")
       \/ /\ attempt < AttemptMax
          /\ attempt' = attempt + 1
          /\ loop' = IF Exhausted(attempt + 1) THEN "Exit" ELSE "Waiting"
          /\ UNCHANGED <<vars, ping, server, batch, channel, owning, engine>>

WaitEnds ==
    /\ loop = "Waiting"
    /\ Goto(IF shutdown THEN "Exit" ELSE "Top")

(* Variant: the loop ends without a last disconnect.                       *)
ExitSilently ==
    /\ loop = "Exit"
    /\ Goto("Done")

Exit ==
    /\ loop = "Exit"
    /\ CallDisconnected
    /\ LoopOnly("Done")

(* Everything the loop does by itself but the completion of a bare send.   *)
LoopStep ==
    \/ Start
    \/ ConnectFails
    \/ ConnectShutdown
    \/ ConnectSucceeds
    \/ SubscribeFails
    \/ SubscribeShutdown
    \/ Subscribed
    \/ ProofPingFails
    \/ ProofPing
    \/ InnerShutdown
    \/ ConsumerGone
    \/ HeartbeatTimeout
    \/ HeartbeatPing
    \/ Reserve
    \/ ReceivePong
    \/ ReceiveControlPing
    \/ SocketEnds
    \/ ReceiptFails
    \/ \E width \in Widths : ReceiveFrame(width, TRUE)
    \/ ReceiveFrame(1, FALSE)
    \/ ReserveFrame
    \/ Retain
    \/ Send
    \/ Enqueue
    \/ SchemaGap
    \/ LoseDelivery
    \/ LoseEvidence
    \/ Close
    \/ Leave
    \/ Retry
    \/ Backoff
    \/ WaitEnds
    \/ Exit

SendCompletes == PingSent \/ PingFails \/ ReplySent \/ ReplyFails

-----------------------------------------------------------------------------
(* retirement_custodian polls the loop inside its own task, so it acts     *)
(* only while the loop awaits.                                             *)

CustodianOnly(place) ==
    /\ custodian' = place
    /\ UNCHANGED <<loop, socket, channel, shutdown, owner, engine>>

CustodianRequested ==
    /\ custodian = "watching"
    /\ shutdown
    /\ loop \in Awaiting
    /\ CallDisconnected
    /\ CustodianOnly("grace")

(* The grace period is over: the loop is dropped where it awaits.          *)
(* (Variants: it is dropped anywhere, or never in the middle of a send.)   *)
CancelsAnywhere ==
    /\ custodian = "grace"
    /\ loop \in Awaiting \cup Delivering
    /\ CallGap("evidence")
    /\ custodian' = "closing"
    /\ loop' = "Cancelled"
    /\ UNCHANGED <<socket, channel, shutdown, owner, engine>>

CancelsBetweenSends ==
    /\ custodian = "grace"
    /\ loop \in Awaiting \ {"Sending", "Replying"}
    /\ CallGap("evidence")
    /\ custodian' = "closing"
    /\ loop' = "Cancelled"
    /\ UNCHANGED <<socket, channel, shutdown, owner, engine>>

CustodianCancels ==
    /\ custodian = "grace"
    /\ loop \in Awaiting
    /\ CallGap("evidence")
    /\ custodian' = "closing"
    /\ loop' = "Cancelled"
    /\ UNCHANGED <<socket, channel, shutdown, owner, engine>>

CustodianFinishes ==
    \/ /\ custodian = "watching"
       /\ loop = "Done"
       /\ UNCHANGED vars
       /\ CustodianOnly("terminal")
    \/ /\ \/ custodian = "grace" /\ loop = "Done"
          \/ custodian = "closing"
       /\ CallDisconnected
       /\ CustodianOnly("terminal")

CustodianStep == CustodianRequested \/ CustodianCancels \/ CustodianFinishes

-----------------------------------------------------------------------------
(* The server, the owner, the consumer and the engine.                     *)

ServerAnswers ==
    /\ server = "asked"
    /\ server' = "answered"
    /\ UNCHANGED <<vars, loop, attempt, ping, batch, channel, owning, engine>>

OwnerOnly(place, flag) ==
    /\ owner' = place
    /\ shutdown' = flag
    /\ UNCHANGED <<loop, socket, channel, custodian, engine>>

(* request_shutdown, and the drop of the last session handle.              *)
RequestShutdown ==
    \/ /\ "shutdown" \in Environment
       /\ owner = "holding"
       /\ CallDisconnected
       /\ OwnerOnly("disconnected", shutdown)
    \/ /\ owner = "disconnected"
       /\ UNCHANGED vars
       /\ OwnerOnly("released", TRUE)

(* AuthenticatedUserWsInner::fail_closed, after a panic in a holder.       *)
FailClosed ==
    \/ /\ "poison" \in Environment
       /\ owner \in {"holding", "disconnected", "released"}
       /\ MarkAuthorityPoisoned
       /\ OwnerOnly("poisoned", shutdown)
    \/ /\ owner = "poisoned"
       /\ UNCHANGED vars
       /\ OwnerOnly("released", TRUE)

TakeBatch ==
    /\ queue # <<>>
    /\ taken' = taken \cup {Head(queue)}
    /\ queue' = Tail(queue)
    /\ UNCHANGED <<vars, loop, socket, receiver, owning, engine>>

DropReceiver ==
    /\ "drop" \in Environment
    /\ receiver
    /\ receiver' = FALSE
    /\ queue' = <<>>
    /\ UNCHANGED <<vars, loop, socket, taken, owning, engine>>

HandleBatch ==
    /\ \E b \in taken :
          \/ AcknowledgeRawFrameDurable(b.frame)
          \/ \E sequence \in (b.first .. b.last) \ acked :
                b.decoded /\ AcknowledgeDurable(sequence)
          \/ /\ ~b.decoded
             /\ b.first \notin lost
             /\ MarkDropped([first |-> b.first, last |-> b.first])
    /\ UNCHANGED session

EngineGap ==
    /\ "gap" \in Environment
    /\ MarkGap("delivery") \/ MarkGap("evidence")
    /\ UNCHANGED session

EngineOnly(next) ==
    /\ engine' = next
    /\ UNCHANGED <<loop, socket, channel, owning>>

TokenMatches ==
    /\ RecoveryToken(ws)
    /\ engine.generation = ws.generation
    /\ engine.gap_version = ws.gap_version

CaptureToken ==
    /\ "recovery" \in Environment
    /\ engine.at = "idle"
    /\ RecoveryToken(ws)
    /\ EngineOnly([at |-> "reading", generation |-> ws.generation,
                   gap_version |-> ws.gap_version])
    /\ UNCHANGED vars

FinishRest ==
    /\ engine.at = "reading"
    /\ \/ /\ TokenMatches
          /\ \E authority \in OwnAuthorities : MarkAuthenticatedRestProven(authority)
          /\ engine' = [engine EXCEPT !.at = "proven"]
          /\ UNCHANGED <<loop, socket, channel, owning>>
       \/ /\ ~TokenMatches
          /\ UNCHANGED vars
          /\ EngineOnly(Idle)

Prepare ==
    /\ engine.at = "proven"
    /\ TokenMatches
    /\ PrepareCatchUpFinalization
    /\ EngineOnly([engine EXCEPT !.at = "prepared"])

GiveUp ==
    /\ engine.at = "proven"
    /\ UNCHANGED vars
    /\ EngineOnly(Idle)

Commit ==
    /\ engine.at = "prepared"
    /\ \E finalization \in prepared : CommitCatchUpFinalization(finalization)
    /\ EngineOnly(Idle)

EngineStep == EngineGap \/ CaptureToken \/ FinishRest \/ Prepare \/ GiveUp \/ Commit

-----------------------------------------------------------------------------

SessionNext ==
    \/ LoopStep
    \/ SendCompletes
    \/ CustodianStep
    \/ ServerAnswers
    \/ RequestShutdown
    \/ FailClosed
    \/ TakeBatch
    \/ DropReceiver
    \/ HandleBatch
    \/ EngineStep

SessionSpec == SessionInit /\ [][SessionNext]_allvars

(* Every await of the loop but a bare socket.send has a timeout, a timer   *)
(* or a signal beside it; the custodian runs beside the loop.              *)
RetirementSpec ==
    /\ SessionSpec
    /\ WF_allvars(LoopStep)
    /\ WF_allvars(CustodianStep)

-----------------------------------------------------------------------------
(* Properties.                                                             *)

(* The session's variables have their types.                               *)
SessionTypeOK ==
    /\ loop \in Places
    /\ attempt \in 0 .. AttemptMax
    /\ ping \in BOOLEAN
    /\ server \in {"silent", "asked", "answered"}
    /\ Len(queue) <= EventCapacity
    /\ receiver \in BOOLEAN
    /\ shutdown \in BOOLEAN
    /\ owner \in {"holding", "disconnected", "poisoned", "released"}
    /\ custodian \in {"watching", "grace", "closing", "terminal"}
    /\ engine.at \in {"idle", "reading", "proven", "prepared"}

(* A ready channel is attached to a socket the loop is serving, and no     *)
(* event is on its way: none between its reservation and its delivery,     *)
(* none in the channel, and no undecodable frame whose gap the loop has    *)
(* still to raise (connection.rs against state.rs, is_ready).              *)
ReadyIsDelivered ==
    IsReady(ws, raw_frames) =>
        /\ loop \in (InnerLoop \ Delivering) \cup {"Leaving"}
        /\ queue = <<>>
        /\ loop \in Delivered => batch.decoded

(* No received frame disappears: while the consumer lives and the channel  *)
(* is not dead, every sequence given out is acknowledged, recorded as      *)
(* dropped, or carried by a batch that is being delivered, queued or       *)
(* taken, and so is every retained raw frame (connection.rs: cancellation  *)
(* can only win before receipt).                                           *)
InFlight == IF loop \in Delivering THEN {batch} ELSE {}

Carried == InFlight \cup {queue[i] : i \in DOMAIN queue} \cup taken

FramesAccounted ==
    (receiver /\ ~Dead(ws)) =>
        /\ \A sequence \in 1 .. ws.transport_sequence :
              \/ sequence \in acked \cup lost
              \/ \E b \in Carried : sequence \in b.first .. b.last
        /\ \A frame \in raw_frames : \E b \in Carried : b.frame = frame

(* Once its custodian has seen the shutdown the channel is never ready     *)
(* again, whatever the loop was awaiting, and at the end it is             *)
(* disconnected with a gap on record (retirement.rs).                      *)
RetiredStaysDown ==
    /\ custodian # "watching" => ~IsReady(ws, raw_frames)
    /\ custodian = "terminal" =>
          ws.connection = "Disconnected" /\ "evidence" \in ws.gaps

(* A requested shutdown ends in a terminal custodian even when the loop    *)
(* hangs in a send (retirement.rs, grace_timeout).                         *)
ShutdownTerminates == shutdown ~> custodian = "terminal"

(* Sends complete or fail, and each pass of the inner loop polls the       *)
(* heartbeat before it waits for anything else, so a PING that stays       *)
(* unanswered is seen too old at some tick.                                *)
SendsComplete == WF_allvars(SendCompletes) /\ SF_allvars(HeartbeatTimeout)

(* Where sends complete, a PING is answered or its socket is left, even    *)
(* when the consumer has stopped reading and the loop waits for room       *)
(* (connection.rs, heartbeat).                                             *)
PingResolved ==
    SendsComplete =>
        ((loop \in InnerLoop /\ ping) ~> (~ping \/ loop \notin InnerLoop))

(* The test dropping_event_receiver_is_terminal_for_session: after the     *)
(* consumer is gone the session opens no further socket.                   *)
ConsumerClosedIsTerminal ==
    [][ws.consumer_closed => ws'.generation = ws.generation]_allvars

=============================================================================

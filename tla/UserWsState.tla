---------------------------- MODULE UserWsState ----------------------------
(***************************************************************************)
(* The StateCell of the authenticated user channel: the recovery, gap,     *)
(* durability and readiness owner of crates/rspm/src/auth/ws.              *)
(*                                                                         *)
(* Every operation of StateCell runs under one mutex, so each is one       *)
(* atomic action here.  The callers are arbitrary: the connection loop,    *)
(* the session's owner and the recovery engine may call any operation in   *)
(* any order.  UserWsSession.tla restricts them to what the loop does.     *)
(*                                                                         *)
(* Abstractions.  The three sticky gap booleans are one set, gaps.  The    *)
(* three rest_* options, which the code always assigns together, are one   *)
(* record, rest_proof.  A generation starts at 1, so 0 stands for None in  *)
(* catch_up_generation.  pending_raw_frame_count is the size of            *)
(* raw_frames.  A recovery token, a watermark, a floor or a generation     *)
(* that differs from the current one makes the code return without a       *)
(* change, so those parameters are not carried.  Each u64 counter has its  *)
(* own maximum, all of them u64::MAX in the code.                          *)
(***************************************************************************)
EXTENDS Naturals, FiniteSets

CONSTANTS
    GenerationMax, LivenessMax, GapMax, TransportMax, FrameMax,
    MaxOutOfOrder,         \* MAX_DURABLE_OUT_OF_ORDER
    MaxPendingRawFrames,   \* MAX_PENDING_RAW_FRAMES
    MaxPrepared,           \* finalizations a caller holds at once (model bound)
    Authorities,           \* REST credential authorities a caller may present
    OwnAuthorities,        \* those with the identity of this socket's credentials
    NoAuthority            \* rest_credential_authority = None

ASSUME CounterAssumption ==
    /\ GenerationMax \in Nat \ {0}
    /\ LivenessMax \in Nat
    /\ GapMax \in Nat
    /\ TransportMax \in Nat
    /\ FrameMax \in Nat

ASSUME BoundAssumption ==
    /\ MaxOutOfOrder \in Nat
    /\ MaxPendingRawFrames \in Nat
    /\ MaxPrepared \in Nat

ASSUME AuthorityAssumption ==
    /\ OwnAuthorities \subseteq Authorities
    /\ NoAuthority \notin Authorities

VARIABLES
    ws,               \* AuthenticatedUserWsState
    out_of_order,     \* durable_out_of_order
    dropped_ranges,   \* at most MAX_DROPPED_RANGES = 1 range
    raw_frames,       \* keys of the pending raw-frame map
    prepared,         \* finalizations returned and not yet consumed
    \* History: the code has no such state.
    acked,            \* sequences whose acknowledgement returned true
    lost,             \* sequences ever recorded in a dropped range
    proof_gap         \* gap_version of the token of the last REST proof

ledger == <<out_of_order, dropped_ranges, raw_frames>>
history == <<acked, lost, proof_gap>>
vars == <<ws, out_of_order, dropped_ranges, raw_frames, prepared,
          acked, lost, proof_gap>>

-----------------------------------------------------------------------------

GapKinds == {"schema", "delivery", "evidence"}

Exhaustions == {"Generation", "Liveness", "GapVersion", "TransportSequence",
                "RawFrameSequence"}

NoProof == [generation |-> 0, authority |-> NoAuthority, floor |-> 0]

Connections == {"Disconnected", "Connecting", "Connected"}
Authentications == {"Inactive", "CredentialsSubmitted"}
Subscriptions == {"Inactive", "AwaitingServerProof", "ServerResponsive"}
Generations == 0 .. GenerationMax
LivenessVersions == 0 .. LivenessMax
GapVersions == 0 .. GapMax
TransportSequences == 0 .. TransportMax
FrameSequences == 0 .. FrameMax
Gaps == SUBSET GapKinds
CounterExhaustions == Exhaustions \cup {"None"}

RestProof == [generation : Generations,
              authority : OwnAuthorities \cup {NoAuthority},
              floor : LivenessVersions]

UserWsStates ==
    [connection : Connections,
     authentication : Authentications,
     subscription : Subscriptions,
     generation : Generations,
     liveness_version : LivenessVersions,
     gap_version : GapVersions,
     transport_sequence : TransportSequences,
     enqueued_sequence : TransportSequences,
     durable_sequence : TransportSequences,
     raw_frame_sequence : FrameSequences,
     catch_up_generation : Generations,
     rest_proof : RestProof,
     gaps : Gaps,
     consumer_closed : BOOLEAN,
     authority_poisoned : BOOLEAN,
     counter_exhaustion : CounterExhaustions]

Ranges == [first : 0 .. TransportMax + 1, last : 0 .. TransportMax + 1]

AtMost(a, b) == IF a < b THEN a ELSE b

(* What prepare_catch_up_finalization copies and the commit compares.  The *)
(* next state is a function of it (Recovered), so it is not stored.        *)
Cell == [state |-> ws, out_of_order |-> out_of_order, dropped |-> dropped_ranges,
         raw_frames |-> raw_frames]

-----------------------------------------------------------------------------
(* Predicates of AuthenticatedUserWsState.                                 *)

RecoveryIdentity(s) ==
    /\ s.connection = "Connected"
    /\ s.authentication = "CredentialsSubmitted"
    /\ s.subscription \in {"AwaitingServerProof", "ServerResponsive"}
    /\ s.generation # 0

RecoveryToken(s) ==
    /\ RecoveryIdentity(s)
    /\ s.subscription = "ServerResponsive"

Dead(s) ==
    \/ s.consumer_closed
    \/ s.authority_poisoned
    \/ s.counter_exhaustion # "None"

ChannelAuthorityIntact(s) ==
    /\ s.connection = "Connected"
    /\ s.authentication = "CredentialsSubmitted"
    /\ s.subscription = "ServerResponsive"
    /\ s.generation # 0
    /\ s.catch_up_generation = s.generation
    /\ s.rest_proof.authority # NoAuthority
    /\ s.gaps = {}
    /\ ~Dead(s)

IsReady(s, frames) ==
    /\ ChannelAuthorityIntact(s)
    /\ s.durable_sequence = s.transport_sequence
    /\ frames = {}

-----------------------------------------------------------------------------
(* The helpers every operation is built from: state in, state out.         *)

SocketDown(s) ==
    [s EXCEPT !.connection = "Disconnected",
              !.authentication = "Inactive",
              !.subscription = "Inactive"]

(* The catch-up of the generation and the REST proof are withdrawn.        *)
Unproven(s) ==
    [s EXCEPT !.catch_up_generation = 0,
              !.rest_proof = NoProof]

FailCounter(s, which) ==
    [Unproven(SocketDown(s)) EXCEPT
        !.gaps = GapKinds,
        !.counter_exhaustion = IF @ = "None" THEN which ELSE @]

AdvanceGapVersion(s) ==
    IF s.gap_version < GapMax
    THEN [s EXCEPT !.gap_version = @ + 1]
    ELSE FailCounter(s, "GapVersion")

(* Variant: the gap is raised and the version stays.                       *)
RaiseGapSilently(s, kinds) == [s EXCEPT !.gaps = @ \cup kinds]

RaiseGap(s, kinds) == AdvanceGapVersion([s EXCEPT !.gaps = @ \cup kinds])

(* mark_schema_gap and its siblings also take the subscription back to     *)
(* AwaitingServerProof and withdraw the REST proof.                        *)
RaiseGapAndRevoke(s, kinds) ==
    RaiseGap([s EXCEPT !.subscription = "AwaitingServerProof",
                       !.rest_proof = NoProof], kinds)

FailClosedAfterPoison(s) ==
    RaiseGap([Unproven(SocketDown(s)) EXCEPT !.consumer_closed = TRUE,
                                             !.authority_poisoned = TRUE],
             GapKinds)

-----------------------------------------------------------------------------

Init ==
    /\ ws = [connection |-> "Disconnected",
             authentication |-> "Inactive",
             subscription |-> "Inactive",
             generation |-> 0,
             liveness_version |-> 0,
             gap_version |-> 0,
             transport_sequence |-> 0,
             enqueued_sequence |-> 0,
             durable_sequence |-> 0,
             raw_frame_sequence |-> 0,
             catch_up_generation |-> 0,
             rest_proof |-> NoProof,
             gaps |-> {},
             consumer_closed |-> FALSE,
             authority_poisoned |-> FALSE,
             counter_exhaustion |-> "None"]
    /\ out_of_order = {}
    /\ dropped_ranges = {}
    /\ raw_frames = {}
    /\ prepared = {}
    /\ acked = {}
    /\ lost = {}
    /\ proof_gap = 0

(* StateCell::update: refused once the cell is poisoned.                   *)
Update(next) ==
    /\ ~ws.authority_poisoned
    /\ ws' = next
    /\ UNCHANGED <<out_of_order, dropped_ranges, raw_frames, prepared>>

(* A panic under one of the mutexes, or mark_authority_poisoned.           *)
MarkAuthorityPoisoned ==
    /\ Update(FailClosedAfterPoison(ws))
    /\ UNCHANGED history

MarkConnecting ==
    /\ ws.counter_exhaustion = "None"
    /\ Update([ws EXCEPT !.connection = "Connecting",
                         !.authentication = "Inactive",
                         !.subscription = "Inactive",
                         !.rest_proof = NoProof])
    /\ UNCHANGED history

(* Variant: a new socket keeps the REST proof of the previous one.         *)
ConnectedKeepsProof(s) ==
    RaiseGap([SocketDown(s) EXCEPT !.generation = AtMost(@ + 1, GenerationMax),
                                   !.connection = "Connected"],
             {"evidence"})

Connected(s) ==
    IF s.generation < GenerationMax
    THEN RaiseGap([Unproven(SocketDown(s)) EXCEPT !.generation = @ + 1,
                                                  !.connection = "Connected"],
                  {"evidence"})
    ELSE FailCounter(s, "Generation")

TryMarkConnected ==
    /\ ws.counter_exhaustion = "None"
    /\ Update(Connected(ws))
    /\ UNCHANGED history

MarkSubscriptionWritten ==
    /\ ws.connection = "Connected"
    /\ Update([ws EXCEPT !.authentication = "CredentialsSubmitted",
                         !.subscription = "AwaitingServerProof"])
    /\ UNCHANGED history

(* Variant: the liveness count is advanced without its check.              *)
LivenessUnchecked(s) ==
    [s EXCEPT !.liveness_version = @ + 1, !.subscription = "ServerResponsive"]

LivenessProven(s) ==
    IF s.liveness_version < LivenessMax
    THEN [s EXCEPT !.liveness_version = @ + 1,
                   !.subscription = "ServerResponsive"]
    ELSE FailCounter(s, "Liveness")

MarkServerLivenessProven ==
    /\ ws.connection = "Connected"
    /\ ws.authentication = "CredentialsSubmitted"
    /\ ws.subscription \in {"AwaitingServerProof", "ServerResponsive"}
    /\ Update(LivenessProven(ws))
    /\ UNCHANGED history

(* Variant: the REST proof does not take the responsiveness back.          *)
RestProvenStaysResponsive(s, authority) ==
    [s EXCEPT !.rest_proof = [generation |-> s.generation,
                              authority |-> authority,
                              floor |-> s.liveness_version]]

RestProven(s, authority) ==
    [s EXCEPT !.rest_proof = [generation |-> s.generation,
                              authority |-> authority,
                              floor |-> s.liveness_version],
              !.subscription = "AwaitingServerProof"]

MarkAuthenticatedRestProven(authority) ==
    /\ RecoveryToken(ws)
    /\ authority \in OwnAuthorities
    /\ Update(RestProven(ws, authority))
    /\ proof_gap' = ws.gap_version
    /\ UNCHANGED <<acked, lost>>

Disconnected(s) == RaiseGap(Unproven(SocketDown(s)), {"evidence"})

MarkDisconnected ==
    /\ Update(Disconnected(ws))
    /\ UNCHANGED history

(* mark_schema_gap, mark_delivery_gap and mark_evidence_gap.               *)
MarkGap(kind) ==
    /\ Update(RaiseGapAndRevoke(ws, {kind}))
    /\ UNCHANGED history

MarkConsumerClosed ==
    /\ Update(RaiseGapAndRevoke([ws EXCEPT !.consumer_closed = TRUE], {"delivery"}))
    /\ UNCHANGED history

-----------------------------------------------------------------------------
(* The transport and raw-frame ledger.                                     *)

Reserved(s, count) ==
    IF s.transport_sequence + count <= TransportMax
    THEN [s EXCEPT !.transport_sequence = @ + count]
    ELSE FailCounter(s, "TransportSequence")

ReserveTransportSequences(count) ==
    /\ count # 0
    /\ Update(Reserved(ws, count))
    /\ UNCHANGED history

FrameReserved(s) ==
    IF s.raw_frame_sequence < FrameMax
    THEN [s EXCEPT !.raw_frame_sequence = @ + 1]
    ELSE FailCounter(s, "RawFrameSequence")

ReserveRawFrameSequence ==
    /\ Update(FrameReserved(ws))
    /\ UNCHANGED history

(* The caller owns one of the MAX_PENDING_RAW_FRAMES permits.              *)
RetainRawFrame(frame) ==
    /\ ~ws.authority_poisoned
    /\ Cardinality(raw_frames) < MaxPendingRawFrames
    /\ frame # 0
    /\ raw_frames' = raw_frames \cup {frame}
    /\ ws' = IF frame \in raw_frames THEN RaiseGap(ws, {"evidence"}) ELSE ws
    /\ UNCHANGED <<out_of_order, dropped_ranges, prepared, history>>

AcknowledgeRawFrameDurable(frame) ==
    /\ ~ws.authority_poisoned
    /\ frame \in raw_frames
    /\ raw_frames' = raw_frames \ {frame}
    /\ UNCHANGED <<ws, out_of_order, dropped_ranges, prepared, history>>

ValidRange(range) ==
    /\ range.first # 0
    /\ range.first <= range.last
    /\ range.last <= ws.transport_sequence

Enqueued(s, last) ==
    IF s.enqueued_sequence < last THEN [s EXCEPT !.enqueued_sequence = last] ELSE s

MarkEnqueued(range) ==
    /\ Update(IF ValidRange(range) THEN Enqueued(ws, range.last)
                                   ELSE RaiseGap(ws, {"delivery"}))
    /\ UNCHANGED history

(* mark_dropped.  The subscription and the REST proof stay as they are.    *)
Adjacent(range) == {p \in dropped_ranges : p.last + 1 = range.first}

DropInvalid(range) ==
    /\ ~ValidRange(range)
    /\ ws' = RaiseGap(ws, {"delivery"})
    /\ UNCHANGED <<dropped_ranges, lost>>

DropRetained(range) ==
    /\ ValidRange(range)
    /\ \/ /\ dropped_ranges = {}
          /\ dropped_ranges' = {range}
       \/ \E p \in Adjacent(range) :
             dropped_ranges' = {[first |-> p.first, last |-> range.last]}
    /\ ws' = RaiseGap(ws, {"delivery"})
    /\ lost' = lost \cup (range.first .. range.last)

DropOverflow(range) ==
    /\ ValidRange(range)
    /\ dropped_ranges # {}
    /\ Adjacent(range) = {}
    /\ ws' = RaiseGap([ws EXCEPT !.consumer_closed = TRUE], {"delivery"})
    /\ UNCHANGED <<dropped_ranges, lost>>

MarkDropped(range) ==
    /\ ~ws.authority_poisoned
    /\ DropInvalid(range) \/ DropRetained(range) \/ DropOverflow(range)
    /\ UNCHANGED <<out_of_order, raw_frames, prepared, acked, proof_gap>>

(* q + 1, ..., the end of a run of set without a hole that stops at limit. *)
Contiguous(from, to, set) == (from + 1) .. to \subseteq set

(* Variant: an acknowledgement moves the frontier by one at most.          *)
OneStepRun(from, to, set, limit) ==
    /\ Contiguous(from, to, set)
    /\ \/ to = limit
       \/ to + 1 \notin set
       \/ to = from + 1

MaximalRun(from, to, set, limit) ==
    /\ Contiguous(from, to, set)
    /\ to = limit \/ to + 1 \notin set

AckOverflow(sequence) ==
    /\ Cardinality(out_of_order) >= MaxOutOfOrder
    /\ sequence \notin out_of_order
    /\ ws' = RaiseGap([ws EXCEPT !.consumer_closed = TRUE], {"delivery"})
    /\ UNCHANGED <<out_of_order, acked>>

AckRetained(sequence) ==
    /\ Cardinality(out_of_order) < MaxOutOfOrder \/ sequence \in out_of_order
    /\ \E to \in ws.durable_sequence .. ws.transport_sequence :
          /\ MaximalRun(ws.durable_sequence, to, out_of_order \cup {sequence},
                        ws.transport_sequence)
          /\ ws' = [ws EXCEPT !.durable_sequence = to]
          /\ out_of_order' = (out_of_order \cup {sequence})
                                \ ((ws.durable_sequence + 1) .. to)
    /\ acked' = acked \cup {sequence}

AcknowledgeDurable(sequence) ==
    /\ ~ws.authority_poisoned
    /\ ws.durable_sequence < sequence
    /\ sequence <= ws.transport_sequence
    /\ AckOverflow(sequence) \/ AckRetained(sequence)
    /\ UNCHANGED <<dropped_ranges, raw_frames, prepared, lost, proof_gap>>

-----------------------------------------------------------------------------
(* Catch-up: prepare computes the finalization, commit compares and sets.  *)

(* The walk of the durable frontier to the watermark: over acknowledged    *)
(* sequences only, or once across the dropped range.                       *)
WalksDirectly(c) ==
    Contiguous(c.state.durable_sequence, c.state.transport_sequence, c.out_of_order)

(* Variant: the walk jumps to a dropped range without reaching it.         *)
WalksToRange(c, to, range) ==
    /\ to < c.state.transport_sequence
    /\ MaximalRun(c.state.durable_sequence, to, c.out_of_order,
                  c.state.transport_sequence)
    /\ to + 1 <= range.last
    /\ Contiguous(AtMost(range.last, c.state.transport_sequence),
                  c.state.transport_sequence, c.out_of_order)

WalksAcross(c, to, range) ==
    LET resume == AtMost(range.last, c.state.transport_sequence)
    IN  /\ to < c.state.transport_sequence
        /\ MaximalRun(c.state.durable_sequence, to, c.out_of_order,
                      c.state.transport_sequence)
        /\ range.first <= to + 1
        /\ to + 1 <= range.last
        /\ Contiguous(resume, c.state.transport_sequence, c.out_of_order)

Recoverable(c) ==
    \/ WalksDirectly(c)
    \/ \E to \in 0 .. TransportMax, range \in c.dropped : WalksAcross(c, to, range)

RecoveredState(s) ==
    [s EXCEPT !.durable_sequence = s.transport_sequence,
              !.gaps = {},
              !.catch_up_generation = s.generation]

(* prepare_catch_up_finalization, for the token, credential authority,     *)
(* watermark and floor that the cell itself holds.                         *)
PrepareCatchUpFinalization ==
    /\ ~ws.authority_poisoned
    /\ Cardinality(prepared) < MaxPrepared
    /\ RecoveryToken(ws)
    /\ ~ws.consumer_closed
    /\ ws.rest_proof.generation = ws.generation
    /\ ws.liveness_version > ws.rest_proof.floor
    /\ Recoverable(Cell)
    /\ IsReady(RecoveredState(ws), raw_frames)
    /\ prepared' = prepared \cup {Cell}
    /\ UNCHANGED <<ws, ledger, history>>

WalkFrontier ==
    \/ /\ WalksDirectly(Cell)
       /\ out_of_order' = out_of_order
                             \ ((ws.durable_sequence + 1) .. ws.transport_sequence)
       /\ UNCHANGED dropped_ranges
    \/ \E to \in 0 .. TransportMax, range \in dropped_ranges :
          /\ WalksAcross(Cell, to, range)
          /\ out_of_order' = out_of_order
                                \ (((ws.durable_sequence + 1) .. to)
                                   \cup ((AtMost(range.last, ws.transport_sequence) + 1)
                                         .. ws.transport_sequence))
          /\ dropped_ranges' = dropped_ranges \ {range}

(* Variants: the commit compares the generation only, or nothing and       *)
(* restores the state it was prepared from.                                *)
CommitSameGeneration(finalization) ==
    /\ ~ws.authority_poisoned
    /\ finalization.state.generation = ws.generation
    /\ ws' = RecoveredState(ws)
    /\ UNCHANGED <<out_of_order, dropped_ranges>>

CommitUncompared(finalization) ==
    /\ ~ws.authority_poisoned
    /\ ws' = RecoveredState(finalization.state)
    /\ UNCHANGED <<out_of_order, dropped_ranges>>

(* commit_catch_up_finalization: a compare-and-set on the whole cell.      *)
CommitAccepted(finalization) ==
    /\ ~ws.authority_poisoned
    /\ finalization = Cell
    /\ ws' = RecoveredState(ws)
    /\ WalkFrontier

CommitRejected(finalization) ==
    /\ ws.authority_poisoned \/ finalization # Cell
    /\ UNCHANGED <<ws, out_of_order, dropped_ranges>>

CommitCatchUpFinalization(finalization) ==
    /\ prepared' = prepared \ {finalization}
    /\ CommitAccepted(finalization) \/ CommitRejected(finalization)
    /\ UNCHANGED <<raw_frames, history>>

-----------------------------------------------------------------------------

Next ==
    \/ MarkAuthorityPoisoned
    \/ MarkConnecting
    \/ TryMarkConnected
    \/ MarkSubscriptionWritten
    \/ MarkServerLivenessProven
    \/ \E authority \in Authorities : MarkAuthenticatedRestProven(authority)
    \/ MarkDisconnected
    \/ \E kind \in GapKinds : MarkGap(kind)
    \/ MarkConsumerClosed
    \/ \E count \in 1 .. TransportMax + 1 : ReserveTransportSequences(count)
    \/ ReserveRawFrameSequence
    \/ \E frame \in 1 .. ws.raw_frame_sequence : RetainRawFrame(frame)
    \/ \E frame \in raw_frames : AcknowledgeRawFrameDurable(frame)
    \/ \E range \in Ranges : MarkEnqueued(range)
    \/ \E range \in Ranges : MarkDropped(range)
    \/ \E sequence \in 1 .. TransportMax : AcknowledgeDurable(sequence)
    \/ PrepareCatchUpFinalization
    \/ \E finalization \in prepared : CommitCatchUpFinalization(finalization)

Spec == Init /\ [][Next]_vars

-----------------------------------------------------------------------------
(* Properties.                                                             *)

(* Every variable has its type; prepared holds cells.                      *)
TypeOK ==
    /\ ws \in UserWsStates
    /\ out_of_order \subseteq 1 .. TransportMax
    /\ dropped_ranges \subseteq Ranges
    /\ raw_frames \subseteq 1 .. FrameMax
    /\ acked \subseteq 1 .. TransportMax
    /\ lost \subseteq 1 .. TransportMax
    /\ proof_gap \in GapVersions

(* A channel whose authority is intact holds a REST proof by a credential  *)
(* of this socket, taken in this very generation, and a PONG was counted   *)
(* after that proof.  Readiness has no other way in: neither a second REST *)
(* proof, nor a reconnect that kept the catch-up generation, nor a stale   *)
(* finalization (state.rs, channel_authority_intact).                      *)
ReadyHasLaterPong ==
    ChannelAuthorityIntact(ws) =>
        /\ ws.rest_proof.generation = ws.generation
        /\ ws.rest_proof.authority \in OwnAuthorities
        /\ ws.rest_proof.floor < ws.liveness_version

(* The durable frontier never passes an event that was neither             *)
(* acknowledged nor recorded as dropped, whichever of acknowledge_durable  *)
(* and the catch-up commit moved it (state_cell/ledger.rs, recovery.rs).   *)
FrontierAccounted ==
    \A sequence \in 1 .. ws.durable_sequence : sequence \in acked \cup lost

(* The frontier is never stuck behind an acknowledgement it already holds, *)
(* in any order of acknowledgements, drops and commits.                    *)
FrontierMaximal ==
    ws.durable_sequence < ws.transport_sequence =>
        ws.durable_sequence + 1 \notin out_of_order

(* No step takes a channel out of a permanent failure: a closed consumer,  *)
(* a poisoned authority or an exhausted counter (state.rs: no recovery may *)
(* reopen, recovery can never clear).                                      *)
DeadIsFinal == [][Dead(ws) => Dead(ws')]_vars

(* A sticky gap is cleared only by a step that leaves the channel ready in *)
(* the same generation and at the same gap version, under the REST proof   *)
(* it already held: nothing that landed after the snapshot is wiped.       *)
GapsClearOnlyIntoReady ==
    [][~(ws.gaps \subseteq ws'.gaps) =>
          /\ IsReady(ws', raw_frames')
          /\ ws'.generation = ws.generation
          /\ ws'.gap_version = ws.gap_version
          /\ ws'.rest_proof = ws.rest_proof]_vars

(* No counter or frontier ever goes back, even when a finalization older   *)
(* than the current state is committed.                                    *)
CountersMonotone ==
    [][/\ ws.generation <= ws'.generation
       /\ ws.liveness_version <= ws'.liveness_version
       /\ ws.gap_version <= ws'.gap_version
       /\ ws.transport_sequence <= ws'.transport_sequence
       /\ ws.enqueued_sequence <= ws'.enqueued_sequence
       /\ ws.durable_sequence <= ws'.durable_sequence
       /\ ws.raw_frame_sequence <= ws'.raw_frame_sequence]_vars

(* Losing any of the authority moves the recovery identity: while the      *)
(* identity a recovery captured is unchanged, no gap has been raised and   *)
(* no proof withdrawn (state.rs, recovery_identity: every abort path moves *)
(* generation or gap_version).                                             *)
SameIdentity ==
    /\ RecoveryIdentity(ws)
    /\ RecoveryIdentity(ws')
    /\ ws'.generation = ws.generation
    /\ ws'.gap_version = ws.gap_version

AbortsMoveIdentity ==
    [][SameIdentity =>
          /\ ws'.gaps \subseteq ws.gaps
          /\ Dead(ws') => Dead(ws)
          /\ ws.rest_proof # NoProof => ws'.rest_proof # NoProof]_vars

(* The doc comment of gap_version: a recovery may clear gaps only when it  *)
(* still matches the token captured before the authenticated catch-up      *)
(* began.                                                                  *)
GapsClearOnlyAtProofGapVersion ==
    [][~(ws.gaps \subseteq ws'.gaps) => ws.gap_version = proof_gap]_vars

-----------------------------------------------------------------------------
(* The channel seen through ChannelAuthority.                              *)

Status ==
    IF Dead(ws) THEN "dead"
    ELSE IF ChannelAuthorityIntact(ws) THEN "live"
    ELSE IF ws.rest_proof.authority = NoAuthority THEN "untrusted"
    ELSE IF ws.rest_proof.floor < ws.liveness_version THEN "confirmed"
    ELSE "attested"

Published ==
    /\ ~Dead(ws)
    /\ ws.generation # 0
    /\ ws.catch_up_generation = ws.generation
    /\ ws.gaps = {}

Authority == INSTANCE ChannelAuthority
                WITH epoch <- ws.generation, status <- Status, published <- Published

(* Whatever the callers do, and in whatever order, the cell goes through   *)
(* the stages of trust of ChannelAuthority, one epoch at a time.           *)
ImplementsChannelAuthority == Authority!Spec

=============================================================================

----------------------- MODULE ChannelAuthority_proofs -----------------------
(***************************************************************************)
(* UserWsState implements ChannelAuthority, for every value of the         *)
(* constants: the initial state maps to the initial state, and every       *)
(* operation of StateCell to a step of the abstract channel or a stutter.  *)
(***************************************************************************)
EXTENDS UserWsState_proofs

AuthorityStep == [Authority!Next]_(Authority!vars)

-----------------------------------------------------------------------------
(* When a change of the state is a given abstract step.                    *)

LEMMA AuthorityDies ==
  ASSUME ws'.generation = ws.generation, Dead(ws')
  PROVE  AuthorityStep
<1>1. Status' = "dead" /\ Published' = FALSE
  BY DEF Status, Published
<1> QED BY <1>1 DEF AuthorityStep, Authority!Next, Authority!Die

LEMMA AuthorityLoses ==
  ASSUME ws'.generation = ws.generation, ~Dead(ws), ~Dead(ws'),
         ws'.rest_proof = NoProof,
         Published' = Published \/ ~Published'
  PROVE  AuthorityStep
<1>1. Status' = "untrusted"
  BY DEF Status, ChannelAuthorityIntact, NoProof
<1>2. Status # "dead"
  BY DEF Status
<1>3. Published' \in {Published, FALSE}
  BY DEF Published
<1> QED BY <1>1, <1>2, <1>3 DEF AuthorityStep, Authority!Next, Authority!Lose

LEMMA AuthorityDoubts ==
  ASSUME ReadyHasLaterPong, ws'.generation = ws.generation, ~Dead(ws), ~Dead(ws'),
         ws'.rest_proof = ws.rest_proof, ws'.liveness_version = ws.liveness_version,
         ~ChannelAuthorityIntact(ws'),
         Published' = Published \/ ~Published'
  PROVE  AuthorityStep
<1>1. Published' \in {Published, FALSE}
  BY DEF Published
<1>2. CASE ChannelAuthorityIntact(ws)
  <2>1. Status = "live"
    BY <1>2 DEF Status
  <2>2. ws.rest_proof.authority # NoAuthority /\ ws.rest_proof.floor < ws.liveness_version
    BY <1>2 DEF ReadyHasLaterPong, ChannelAuthorityIntact
  <2>3. Status' = "confirmed"
    BY <2>2 DEF Status
  <2> QED BY <1>1, <2>1, <2>3 DEF AuthorityStep, Authority!Next, Authority!Doubt
<1>3. CASE ~ChannelAuthorityIntact(ws)
  <2>1. Status' = Status /\ Status # "live"
    BY <1>3 DEF Status
  <2> QED BY <1>1, <2>1 DEF AuthorityStep, Authority!Next, Authority!Doubt
<1> QED BY <1>2, <1>3

(* A change of what the abstract channel does not see.                     *)
LEMMA AuthorityStutters ==
  ASSUME ws'.connection = ws.connection, ws'.authentication = ws.authentication,
         ws'.subscription = ws.subscription, ws'.generation = ws.generation,
         ws'.liveness_version = ws.liveness_version,
         ws'.catch_up_generation = ws.catch_up_generation,
         ws'.rest_proof = ws.rest_proof, ws'.gaps = ws.gaps,
         ws'.consumer_closed = ws.consumer_closed,
         ws'.authority_poisoned = ws.authority_poisoned,
         ws'.counter_exhaustion = ws.counter_exhaustion
  PROVE  AuthorityStep
<1>1. Dead(ws') <=> Dead(ws)
  BY DEF Dead
<1>2. ChannelAuthorityIntact(ws') <=> ChannelAuthorityIntact(ws)
  BY <1>1 DEF ChannelAuthorityIntact
<1>3. Status' = Status
  BY <1>1, <1>2 DEF Status
<1>4. Published' = Published
  BY <1>1 DEF Published
<1> QED BY <1>3, <1>4 DEF AuthorityStep, Authority!vars

(* A gap raised on a state r that keeps or withdraws the REST proof.       *)
LEMMA AuthorityGap ==
  ASSUME ReadyHasLaterPong, NEW r \in UserWsStates, NEW kinds \in Gaps, kinds # {},
         ws' = RaiseGap(r, kinds),
         r.generation = ws.generation, r.liveness_version = ws.liveness_version,
         r.rest_proof = ws.rest_proof \/ r.rest_proof = NoProof,
         Dead(ws) => Dead(r)
  PROVE  AuthorityStep
<1>1. /\ SameFrontiers(r, ws')
      /\ kinds \subseteq ws'.gaps
      /\ ws'.consumer_closed = r.consumer_closed
      /\ ws'.authority_poisoned = r.authority_poisoned
      /\ \/ Failed(ws')
         \/ /\ ws'.rest_proof = r.rest_proof
            /\ ws'.counter_exhaustion = r.counter_exhaustion
  BY RaiseGapFacts
<1>2. ws'.generation = ws.generation /\ ws'.liveness_version = ws.liveness_version
  BY <1>1 DEF SameFrontiers
<1>3. CASE Dead(ws')
  BY <1>2, <1>3, AuthorityDies
<1>4. CASE ~Dead(ws')
  <2>1. ws'.rest_proof = r.rest_proof /\ ~Dead(ws)
    BY <1>1, <1>4 DEF Failed, Dead
  <2>2. ~Published' /\ ~ChannelAuthorityIntact(ws')
    BY <1>1 DEF Published, ChannelAuthorityIntact
  <2>3. CASE r.rest_proof = NoProof
    BY <1>2, <1>4, <2>1, <2>2, <2>3, AuthorityLoses
  <2>4. CASE r.rest_proof = ws.rest_proof
    BY <1>2, <1>4, <2>1, <2>2, <2>4, AuthorityDoubts
  <2> QED BY <2>3, <2>4
<1> QED BY <1>3, <1>4

LEMMA AuthorityCounterFails ==
  ASSUME ws \in UserWsStates, NEW which \in Exhaustions, ws' = FailCounter(ws, which)
  PROVE  AuthorityStep
<1>1. SameFrontiers(ws, ws') /\ Failed(ws')
  BY FailCounterFacts
<1> QED BY <1>1, AuthorityDies DEF SameFrontiers, Failed, Dead

-----------------------------------------------------------------------------
(* The operations of StateCell.                                            *)

LEMMA ConnectingAuthority ==
  ASSUME IInv, MarkConnecting
  PROVE  AuthorityStep
<1>1. /\ ws \in UserWsStates
      /\ ws' = [ws EXCEPT !.connection = "Connecting",
                          !.authentication = "Inactive",
                          !.subscription = "Inactive",
                          !.rest_proof = NoProof]
  BY DEF IInv, TypeOK, MarkConnecting, Update
<1>2. /\ ws'.generation = ws.generation
      /\ ws'.catch_up_generation = ws.catch_up_generation
      /\ ws'.rest_proof = NoProof
      /\ ws'.gaps = ws.gaps
      /\ ws'.consumer_closed = ws.consumer_closed
      /\ ws'.authority_poisoned = ws.authority_poisoned
      /\ ws'.counter_exhaustion = ws.counter_exhaustion
  BY <1>1 DEF UserWsStates
<1>3. CASE Dead(ws')
  BY <1>2, <1>3, AuthorityDies
<1>4. CASE ~Dead(ws')
  <2>1. ~Dead(ws) /\ Published' = Published
    BY <1>2, <1>4 DEF Dead, Published
  <2> QED BY <1>2, <1>4, <2>1, AuthorityLoses
<1> QED BY <1>3, <1>4

LEMMA ConnectedAuthority ==
  ASSUME IInv, TryMarkConnected
  PROVE  AuthorityStep
<1>1. ws \in UserWsStates /\ ws' = Connected(ws)
  BY DEF IInv, TypeOK, TryMarkConnected, Update
<1>2. CASE ~(ws.generation < GenerationMax)
  BY <1>1, <1>2, AuthorityCounterFails DEF Connected, Exhaustions
<1>3. CASE ws.generation < GenerationMax
  <2> DEFINE u == Unproven(SocketDown(ws))
             r == [u EXCEPT !.generation = @ + 1, !.connection = "Connected"]
  <2>1. /\ u \in UserWsStates /\ u.rest_proof = NoProof /\ u.generation = ws.generation
        /\ u.consumer_closed = ws.consumer_closed
        /\ u.authority_poisoned = ws.authority_poisoned
        /\ u.counter_exhaustion = ws.counter_exhaustion
    BY <1>1, UnprovenFacts DEF SameFrontiers
  <2>2. u.generation + 1 \in Generations
    BY <1>1, <1>3, <2>1, CounterAssumption, CounterTypes DEF Generations
  <2>3. ws' = RaiseGap(r, {"evidence"})
    BY <1>1, <1>3 DEF Connected
  <2> HIDE DEF u
  <2>4. /\ r \in UserWsStates
        /\ r.rest_proof = NoProof
        /\ r.generation = ws.generation + 1
        /\ r.consumer_closed = ws.consumer_closed
        /\ r.authority_poisoned = ws.authority_poisoned
        /\ r.counter_exhaustion = ws.counter_exhaustion
    BY <2>1, <2>2, ValueTypes DEF UserWsStates
  <2> HIDE DEF r
  <2>5. {"evidence"} \in Gaps
    BY DEF Gaps, GapKinds
  <2>6. /\ SameFrontiers(r, ws')
        /\ "evidence" \in ws'.gaps
        /\ ws'.consumer_closed = r.consumer_closed
        /\ ws'.authority_poisoned = r.authority_poisoned
        /\ \/ Failed(ws')
           \/ /\ ws'.rest_proof = r.rest_proof
              /\ ws'.counter_exhaustion = r.counter_exhaustion
    BY <2>3, <2>4, <2>5, RaiseGapFacts
  <2>7. ws'.generation = ws.generation + 1
    BY <2>4, <2>6 DEF SameFrontiers
  <2>8. ws'.rest_proof = NoProof /\ (Dead(ws) => Dead(ws'))
    BY <2>4, <2>6 DEF Failed, Dead
  <2>9. Published' = FALSE
    BY <2>6 DEF Published
  <2>10. Status' \in {"untrusted", "dead"} /\ (Status = "dead" => Status' = "dead")
    BY <2>8 DEF Status, ChannelAuthorityIntact, NoProof
  <2> QED BY <2>7, <2>9, <2>10 DEF AuthorityStep, Authority!Next, Authority!Connect
<1> QED BY <1>2, <1>3

LEMMA WrittenAuthority ==
  ASSUME IInv, ReadyHasLaterPong, MarkSubscriptionWritten
  PROVE  AuthorityStep
<1>1. /\ ws \in UserWsStates
      /\ ws' = [ws EXCEPT !.authentication = "CredentialsSubmitted",
                          !.subscription = "AwaitingServerProof"]
  BY DEF IInv, TypeOK, MarkSubscriptionWritten, Update
<1>2. /\ ws'.subscription = "AwaitingServerProof"
      /\ ws'.generation = ws.generation
      /\ ws'.liveness_version = ws.liveness_version
      /\ ws'.catch_up_generation = ws.catch_up_generation
      /\ ws'.rest_proof = ws.rest_proof
      /\ ws'.gaps = ws.gaps
      /\ ws'.consumer_closed = ws.consumer_closed
      /\ ws'.authority_poisoned = ws.authority_poisoned
      /\ ws'.counter_exhaustion = ws.counter_exhaustion
  BY <1>1 DEF UserWsStates
<1>3. CASE Dead(ws')
  BY <1>2, <1>3, AuthorityDies
<1>4. CASE ~Dead(ws')
  <2>1. ~Dead(ws) /\ Published' = Published /\ ~ChannelAuthorityIntact(ws')
    BY <1>2, <1>4 DEF Dead, Published, ChannelAuthorityIntact
  <2> QED BY <1>2, <1>4, <2>1, AuthorityDoubts
<1> QED BY <1>3, <1>4

(* A counted PONG answers an attestation, and is nothing without one.      *)
LEMMA LivenessAuthority ==
  ASSUME IInv, ReadyHasLaterPong, MarkServerLivenessProven
  PROVE  AuthorityStep
<1>1. /\ ws \in UserWsStates /\ ProofSound(ws) /\ ws' = LivenessProven(ws)
      /\ ws.connection = "Connected" /\ ws.authentication = "CredentialsSubmitted"
  BY DEF IInv, TypeOK, MarkServerLivenessProven, Update
<1>2. CASE ~(ws.liveness_version < LivenessMax)
  BY <1>1, <1>2, AuthorityCounterFails DEF LivenessProven, Exhaustions
<1>3. CASE ws.liveness_version < LivenessMax
  <2>1. ws' = [ws EXCEPT !.liveness_version = @ + 1, !.subscription = "ServerResponsive"]
    BY <1>1, <1>3 DEF LivenessProven
  <2>2. /\ ws'.connection = "Connected"
        /\ ws'.authentication = "CredentialsSubmitted"
        /\ ws'.subscription = "ServerResponsive"
        /\ ws'.liveness_version = ws.liveness_version + 1
        /\ ws'.generation = ws.generation
        /\ ws'.catch_up_generation = ws.catch_up_generation
        /\ ws'.rest_proof = ws.rest_proof
        /\ ws'.gaps = ws.gaps
        /\ ws'.consumer_closed = ws.consumer_closed
        /\ ws'.authority_poisoned = ws.authority_poisoned
        /\ ws'.counter_exhaustion = ws.counter_exhaustion
    BY <1>1, <2>1 DEF UserWsStates
  <2>3. (Dead(ws') <=> Dead(ws)) /\ Published' = Published
    BY <2>2 DEF Dead, Published
  <2>4. CASE Dead(ws)
    BY <2>2, <2>3, <2>4, AuthorityDies
  <2>5. CASE ~Dead(ws) /\ ws.rest_proof.authority = NoAuthority
    <3>1. Status = "untrusted" /\ Status' = "untrusted"
      BY <2>2, <2>3, <2>5 DEF Status, ChannelAuthorityIntact
    <3> QED BY <2>2, <2>3, <3>1 DEF AuthorityStep, Authority!vars
  <2>6. CASE ~Dead(ws) /\ ws.rest_proof.authority # NoAuthority
    <3>1. ChannelAuthorityIntact(ws') <=> Published
      BY <2>2, <2>3, <2>6 DEF ChannelAuthorityIntact, Published
    <3>2. ws.rest_proof.floor < ws.liveness_version + 1
      <4>1. ws.rest_proof # NoProof
        BY <2>6 DEF NoProof
      <4>2. ws.rest_proof.floor <= ws.liveness_version
        BY <1>1, <4>1 DEF ProofSound
      <4>3. ws.rest_proof.floor \in Nat /\ ws.liveness_version \in Nat
        BY <1>1, CounterAssumption, CounterTypes DEF UserWsStates, RestProof, LivenessVersions
      <4> QED BY <4>2, <4>3
    <3>3. Status' = IF Published THEN "live" ELSE "confirmed"
      BY <2>2, <2>3, <2>6, <3>1, <3>2 DEF Status
    <3>4. CASE ChannelAuthorityIntact(ws)
      <4>1. Status = "live" /\ Published
        BY <2>6, <3>4 DEF Status, Published, ChannelAuthorityIntact
      <4> QED BY <2>2, <2>3, <3>3, <4>1 DEF AuthorityStep, Authority!vars
    <3>5. CASE ~ChannelAuthorityIntact(ws)
      <4>1. Status \in {"attested", "confirmed"}
        BY <2>6, <3>5 DEF Status
      <4> QED BY <2>2, <2>3, <3>3, <4>1 DEF AuthorityStep, Authority!Next, Authority!Answer
    <3> QED BY <3>4, <3>5
  <2> QED BY <2>4, <2>5, <2>6
<1> QED BY <1>2, <1>3

LEMMA RestAuthority ==
  ASSUME IInv, NEW authority \in Authorities, MarkAuthenticatedRestProven(authority)
  PROVE  AuthorityStep
<1>1. /\ ws \in UserWsStates /\ authority \in OwnAuthorities
      /\ ws' = [ws EXCEPT !.rest_proof = [generation |-> ws.generation,
                                          authority |-> authority,
                                          floor |-> ws.liveness_version],
                          !.subscription = "AwaitingServerProof"]
  BY DEF IInv, TypeOK, MarkAuthenticatedRestProven, Update, RestProven
<1>2. /\ ws'.subscription = "AwaitingServerProof"
      /\ ws'.generation = ws.generation
      /\ ws'.liveness_version = ws.liveness_version
      /\ ws'.catch_up_generation = ws.catch_up_generation
      /\ ws'.rest_proof.authority = authority
      /\ ws'.rest_proof.floor = ws.liveness_version
      /\ ws'.gaps = ws.gaps
      /\ ws'.consumer_closed = ws.consumer_closed
      /\ ws'.authority_poisoned = ws.authority_poisoned
      /\ ws'.counter_exhaustion = ws.counter_exhaustion
  BY <1>1 DEF UserWsStates
<1>3. CASE Dead(ws')
  BY <1>2, <1>3, AuthorityDies
<1>4. CASE ~Dead(ws')
  <2>1. ~Dead(ws) /\ Published' = Published
    BY <1>2, <1>4 DEF Dead, Published
  <2>2. Status # "dead"
    BY <2>1 DEF Status
  <2>3. authority # NoAuthority /\ ~(ws.liveness_version < ws.liveness_version)
    BY <1>1, AuthorityAssumption, CounterTypes
  <2>4. Status' = "attested"
    BY <1>2, <1>4, <2>3 DEF Status, ChannelAuthorityIntact
  <2> QED BY <1>2, <2>1, <2>2, <2>4 DEF AuthorityStep, Authority!Next, Authority!Attest
<1> QED BY <1>3, <1>4

(* Gaps, poison and disconnections, which all end in advance_gap_version.  *)
LEMMA GapAuthority ==
  ASSUME IInv, ReadyHasLaterPong,
         \/ MarkAuthorityPoisoned
         \/ MarkDisconnected
         \/ \E kind \in GapKinds : MarkGap(kind)
         \/ MarkConsumerClosed
  PROVE  AuthorityStep
<1> DEFINE u == Unproven(SocketDown(ws))
<1>1. ws \in UserWsStates
  BY DEF IInv, TypeOK
<1>2. /\ u \in UserWsStates /\ u.generation = ws.generation
      /\ u.liveness_version = ws.liveness_version /\ u.rest_proof = NoProof
      /\ u.consumer_closed = ws.consumer_closed
      /\ u.authority_poisoned = ws.authority_poisoned
      /\ u.counter_exhaustion = ws.counter_exhaustion
  BY <1>1, UnprovenFacts DEF SameFrontiers
<1>3. GapKinds \in Gaps /\ GapKinds # {}
  BY DEF Gaps, GapKinds
<1>4. \A kind \in GapKinds : {kind} \in Gaps /\ {kind} # {}
  BY DEF Gaps
<1>5. CASE MarkAuthorityPoisoned
  <2> DEFINE r == [u EXCEPT !.consumer_closed = TRUE, !.authority_poisoned = TRUE]
  <2>1. ws' = RaiseGap(r, GapKinds)
    BY <1>5 DEF MarkAuthorityPoisoned, Update, FailClosedAfterPoison
  <2> HIDE DEF u
  <2>2. /\ r \in UserWsStates /\ r.generation = ws.generation /\ r.rest_proof = NoProof
        /\ r.liveness_version = ws.liveness_version /\ Dead(r)
    BY <1>2 DEF UserWsStates, Dead
  <2> HIDE DEF r
  <2> QED BY <1>3, <2>1, <2>2, AuthorityGap
<1>6. CASE MarkDisconnected
  <2>1. ws' = RaiseGap(u, {"evidence"}) /\ {"evidence"} \in Gaps /\ {"evidence"} # {}
    BY <1>6 DEF MarkDisconnected, Update, Disconnected, Gaps, GapKinds
  <2>2. Dead(ws) => Dead(u)
    BY <1>2 DEF Dead
  <2> QED BY <1>2, <2>1, <2>2, AuthorityGap
<1>7. ASSUME NEW s \in UserWsStates, NEW kinds \in Gaps, kinds # {},
             s.generation = ws.generation, s.liveness_version = ws.liveness_version,
             Dead(ws) => Dead(s), ws' = RaiseGapAndRevoke(s, kinds)
      PROVE  AuthorityStep
  <2> DEFINE r == [s EXCEPT !.subscription = "AwaitingServerProof", !.rest_proof = NoProof]
  <2>1. ws' = RaiseGap(r, kinds)
    BY <1>7 DEF RaiseGapAndRevoke
  <2>2. /\ r \in UserWsStates /\ r.generation = s.generation /\ r.rest_proof = NoProof
        /\ r.liveness_version = s.liveness_version
        /\ Dead(s) => Dead(r)
    BY ValueTypes DEF UserWsStates, Dead
  <2> HIDE DEF r
  <2> QED BY <1>7, <2>1, <2>2, AuthorityGap
<1>8. ASSUME NEW kind \in GapKinds, MarkGap(kind)
      PROVE  AuthorityStep
  BY <1>1, <1>4, <1>7, <1>8 DEF MarkGap, Update
<1>9. CASE MarkConsumerClosed
  <2> DEFINE s == [ws EXCEPT !.consumer_closed = TRUE]
  <2>1. ws' = RaiseGapAndRevoke(s, {"delivery"}) /\ {"delivery"} \in Gaps /\ {"delivery"} # {}
    BY <1>9 DEF MarkConsumerClosed, Update, Gaps, GapKinds
  <2>2. /\ s \in UserWsStates /\ s.generation = ws.generation
        /\ s.liveness_version = ws.liveness_version /\ Dead(s)
    BY <1>1 DEF UserWsStates, Dead
  <2> HIDE DEF s
  <2> QED BY <1>7, <2>1, <2>2
<1> QED BY <1>5, <1>6, <1>8, <1>9

(* A gap raised on the state as it is, or on one whose consumer is closed. *)
LEMMA DeliveryAuthority ==
  ASSUME IInv, ReadyHasLaterPong, NEW kinds \in Gaps, kinds # {},
         \/ ws' = RaiseGap(ws, kinds)
         \/ ws' = RaiseGap([ws EXCEPT !.consumer_closed = TRUE], kinds)
  PROVE  AuthorityStep
<1> DEFINE s == [ws EXCEPT !.consumer_closed = TRUE]
<1>1. ws \in UserWsStates
  BY DEF IInv, TypeOK
<1>2. /\ s \in UserWsStates /\ s.generation = ws.generation /\ s.rest_proof = ws.rest_proof
      /\ s.liveness_version = ws.liveness_version /\ Dead(s)
  BY <1>1 DEF UserWsStates, Dead
<1>3. ws' = RaiseGap(ws, kinds) \/ ws' = RaiseGap(s, kinds)
  OBVIOUS
<1> HIDE DEF s
<1> QED BY <1>1, <1>2, <1>3, AuthorityGap

(* The ledger of sequences and raw frames.                                 *)
LEMMA LedgerAuthority ==
  ASSUME IInv, ReadyHasLaterPong,
         \/ \E count \in 1 .. TransportMax + 1 : ReserveTransportSequences(count)
         \/ ReserveRawFrameSequence
         \/ \E frame \in 1 .. ws.raw_frame_sequence : RetainRawFrame(frame)
         \/ \E range \in Ranges : MarkEnqueued(range) \/ MarkDropped(range)
         \/ \E sequence \in 1 .. TransportMax : AcknowledgeDurable(sequence)
  PROVE  AuthorityStep
<1>1. ws \in UserWsStates
  BY DEF IInv, TypeOK
<1>2. /\ {"delivery"} \in Gaps /\ {"delivery"} # {}
      /\ {"evidence"} \in Gaps /\ {"evidence"} # {}
  BY DEF Gaps, GapKinds
<1>3. ASSUME NEW count \in 1 .. TransportMax + 1, ReserveTransportSequences(count)
      PROVE  AuthorityStep
  <2>1. ws' = Reserved(ws, count)
    BY <1>3 DEF ReserveTransportSequences, Update
  <2>2. CASE ws.transport_sequence + count <= TransportMax
    <3>1. ws' = [ws EXCEPT !.transport_sequence = @ + count]
      BY <2>1, <2>2 DEF Reserved
    <3> QED BY <1>1, <3>1, AuthorityStutters DEF UserWsStates
  <2>3. CASE ~(ws.transport_sequence + count <= TransportMax)
    BY <1>1, <2>1, <2>3, AuthorityCounterFails DEF Reserved, Exhaustions
  <2> QED BY <2>2, <2>3
<1>4. CASE ReserveRawFrameSequence
  <2>1. ws' = FrameReserved(ws)
    BY <1>4 DEF ReserveRawFrameSequence, Update
  <2>2. CASE ws.raw_frame_sequence < FrameMax
    <3>1. ws' = [ws EXCEPT !.raw_frame_sequence = @ + 1]
      BY <2>1, <2>2 DEF FrameReserved
    <3> QED BY <1>1, <3>1, AuthorityStutters DEF UserWsStates
  <2>3. CASE ~(ws.raw_frame_sequence < FrameMax)
    BY <1>1, <2>1, <2>3, AuthorityCounterFails DEF FrameReserved, Exhaustions
  <2> QED BY <2>2, <2>3
<1>5. ASSUME NEW frame \in 1 .. ws.raw_frame_sequence, RetainRawFrame(frame)
      PROVE  AuthorityStep
  <2>1. ws' = RaiseGap(ws, {"evidence"}) \/ ws' = ws
    BY <1>5 DEF RetainRawFrame
  <2> QED BY <1>2, <2>1, DeliveryAuthority, AuthorityStutters
<1>6. ASSUME NEW range \in Ranges, MarkEnqueued(range)
      PROVE  AuthorityStep
  <2>1. \/ ws' = RaiseGap(ws, {"delivery"})
        \/ ws' = ws
        \/ ws' = [ws EXCEPT !.enqueued_sequence = range.last]
    BY <1>6 DEF MarkEnqueued, Update, Enqueued
  <2>2. CASE ws' = [ws EXCEPT !.enqueued_sequence = range.last]
    BY <1>1, <2>2, AuthorityStutters DEF UserWsStates
  <2> QED BY <1>2, <2>1, <2>2, DeliveryAuthority, AuthorityStutters
<1>7. ASSUME NEW range \in Ranges, MarkDropped(range)
      PROVE  AuthorityStep
  <2>1. \/ ws' = RaiseGap(ws, {"delivery"})
        \/ ws' = RaiseGap([ws EXCEPT !.consumer_closed = TRUE], {"delivery"})
    BY <1>7 DEF MarkDropped, DropInvalid, DropRetained, DropOverflow
  <2> QED BY <1>2, <2>1, DeliveryAuthority
<1>8. ASSUME NEW sequence \in 1 .. TransportMax, AcknowledgeDurable(sequence)
      PROVE  AuthorityStep
  <2>1. CASE AckOverflow(sequence)
    BY <1>2, <2>1, DeliveryAuthority DEF AckOverflow
  <2>2. CASE AckRetained(sequence)
    <3>1. PICK to \in ws.durable_sequence .. ws.transport_sequence :
              ws' = [ws EXCEPT !.durable_sequence = to]
      BY <2>2 DEF AckRetained
    <3> QED BY <1>1, <3>1, AuthorityStutters DEF UserWsStates
  <2> QED BY <1>8, <2>1, <2>2 DEF AcknowledgeDurable
<1> QED BY <1>3, <1>4, <1>5, <1>6, <1>7, <1>8

(* An accepted commit publishes.                                           *)
LEMMA CommitAuthority ==
  ASSUME IInv, ReadyHasLaterPong', CommitStep
  PROVE  AuthorityStep
<1>1. ws \in UserWsStates /\ ws' = RecoveredState(ws) /\ ChannelAuthorityIntact(ws')
  BY DEF IInv, TypeOK, CommitStep, IsReady
<1>2. /\ ws'.generation = ws.generation
      /\ ws'.liveness_version = ws.liveness_version
      /\ ws'.rest_proof = ws.rest_proof
      /\ ws'.consumer_closed = ws.consumer_closed
      /\ ws'.authority_poisoned = ws.authority_poisoned
      /\ ws'.counter_exhaustion = ws.counter_exhaustion
  BY <1>1, RecoveredFacts
<1>3. /\ ~Dead(ws') /\ ~Dead(ws)
      /\ ws.rest_proof.authority # NoAuthority
      /\ ws.rest_proof.floor < ws.liveness_version
  BY <1>1, <1>2 DEF ChannelAuthorityIntact, Dead, ReadyHasLaterPong
<1>4. Status' = "live" /\ Published' = TRUE
  BY <1>1, <1>3 DEF Status, Published, ChannelAuthorityIntact
<1>5. Status \in {"confirmed", "live"}
  BY <1>3 DEF Status
<1> QED BY <1>2, <1>4, <1>5 DEF AuthorityStep, Authority!Next, Authority!Publish

-----------------------------------------------------------------------------

LEMMA AuthorityInit ==
  ASSUME Init
  PROVE  Authority!Init
<1>1. ~Dead(ws) /\ ws.rest_proof.authority = NoAuthority /\ ws.generation = 0
  BY DEF Init, Dead, NoProof
<1>2. Status = "untrusted" /\ Published = FALSE
  BY <1>1 DEF Status, Published, ChannelAuthorityIntact
<1> QED BY <1>1, <1>2 DEF Authority!Init

LEMMA AuthorityNext ==
  ASSUME IInv, IInv', [Next]_vars
  PROVE  AuthorityStep
<1>1. ReadyHasLaterPong /\ ReadyHasLaterPong'
  BY DEF IInv, ProofSound, ReadyHasLaterPong, ChannelAuthorityIntact, NoProof
<1>2. CASE \/ MarkConnecting \/ TryMarkConnected \/ MarkSubscriptionWritten
           \/ MarkServerLivenessProven
           \/ \E authority \in Authorities : MarkAuthenticatedRestProven(authority)
  BY <1>1, <1>2, ConnectingAuthority, ConnectedAuthority, WrittenAuthority,
     LivenessAuthority, RestAuthority
<1>3. CASE \/ MarkAuthorityPoisoned \/ MarkDisconnected \/ MarkConsumerClosed
           \/ \E kind \in GapKinds : MarkGap(kind)
  BY <1>1, <1>3, GapAuthority
<1>4. CASE \/ \E count \in 1 .. TransportMax + 1 : ReserveTransportSequences(count)
           \/ ReserveRawFrameSequence
           \/ \E frame \in 1 .. ws.raw_frame_sequence : RetainRawFrame(frame)
           \/ \E range \in Ranges : MarkEnqueued(range)
           \/ \E range \in Ranges : MarkDropped(range)
           \/ \E sequence \in 1 .. TransportMax : AcknowledgeDurable(sequence)
  BY <1>1, <1>4, LedgerAuthority
<1>5. CASE \/ \E frame \in raw_frames : AcknowledgeRawFrameDurable(frame)
           \/ PrepareCatchUpFinalization
           \/ UNCHANGED vars
  <2>1. ws' = ws
    BY <1>5 DEF AcknowledgeRawFrameDurable, PrepareCatchUpFinalization, vars
  <2> QED BY <2>1, AuthorityStutters
<1>6. ASSUME NEW finalization \in prepared, CommitCatchUpFinalization(finalization)
      PROVE  AuthorityStep
  <2>1. CASE CommitAccepted(finalization)
    BY <1>1, <1>6, <2>1, CommitAcceptedStep, CommitAuthority
  <2>2. CASE CommitRejected(finalization)
    BY <2>2, AuthorityStutters DEF CommitRejected
  <2> QED BY <1>6, <2>1, <2>2 DEF CommitCatchUpFinalization
<1> QED BY <1>2, <1>3, <1>4, <1>5, <1>6 DEF Next

(* StateCell implements the abstract channel: whatever its callers do, and *)
(* whatever the widths of its counters, trust is gained only in the order  *)
(* attestation, answer, publication, within one epoch, and death is final. *)
THEOREM CellImplementsAuthority == Spec => ImplementsChannelAuthority
<1>1. Init => Authority!Init
  BY AuthorityInit
<1>2. IInv /\ IInv' /\ [Next]_vars => [Authority!Next]_(Authority!vars)
  BY AuthorityNext DEF AuthorityStep
<1> QED BY <1>1, <1>2, InductiveInvariant, PTL
        DEF Spec, ImplementsChannelAuthority, Authority!Spec

=============================================================================

------------------------- MODULE UserWsState_proofs -------------------------
(***************************************************************************)
(* Machine-checked theorems about UserWsState, for every value of its      *)
(* constants.                                                              *)
(***************************************************************************)
EXTENDS UserWsState, TLAPS

-----------------------------------------------------------------------------
(* The part of the inductive invariant that speaks of one state: a REST    *)
(* proof belongs to the connected, subscribed socket of the current        *)
(* generation, and a responsive subscription has answered after it.        *)

ProofSound(s) ==
    \/ s.rest_proof = NoProof
    \/ /\ s.connection = "Connected"
       /\ s.authentication = "CredentialsSubmitted"
       /\ s.subscription # "Inactive"
       /\ s.rest_proof.authority \in OwnAuthorities
       /\ s.rest_proof.generation = s.generation
       /\ s.rest_proof.floor <= s.liveness_version
       /\ s.subscription = "ServerResponsive" => s.rest_proof.floor < s.liveness_version

(* The counters an operation leaves alone, all but gap_version.            *)
SameFrontiers(s, t) ==
    /\ t.generation = s.generation
    /\ t.liveness_version = s.liveness_version
    /\ t.transport_sequence = s.transport_sequence
    /\ t.enqueued_sequence = s.enqueued_sequence
    /\ t.durable_sequence = s.durable_sequence
    /\ t.raw_frame_sequence = s.raw_frame_sequence

Failed(t) ==
    /\ t.connection = "Disconnected"
    /\ t.authentication = "Inactive"
    /\ t.subscription = "Inactive"
    /\ t.catch_up_generation = 0
    /\ t.rest_proof = NoProof
    /\ t.gaps = GapKinds
    /\ t.counter_exhaustion # "None"

(* Values the operations assign have the types of their fields.            *)
LEMMA ValueTypes ==
  /\ {"Disconnected", "Connecting", "Connected"} \subseteq Connections
  /\ {"Inactive", "CredentialsSubmitted"} \subseteq Authentications
  /\ {"Inactive", "AwaitingServerProof", "ServerResponsive"} \subseteq Subscriptions
  /\ 0 \in Generations
  /\ NoProof \in RestProof
  /\ NoProof.authority = NoAuthority
  /\ GapKinds \in Gaps
  /\ Exhaustions \subseteq CounterExhaustions
  /\ "None" \notin Exhaustions
<1>1. 0 \in Generations /\ 0 \in LivenessVersions
  BY CounterAssumption DEF Generations, LivenessVersions
<1>2. NoProof \in RestProof /\ NoProof.authority = NoAuthority
  BY <1>1 DEF NoProof, RestProof
<1> QED BY <1>1, <1>2 DEF Connections, Authentications, Subscriptions, Gaps,
           CounterExhaustions, Exhaustions

LEMMA UnprovenFacts ==
  ASSUME NEW s \in UserWsStates, NEW u, u = Unproven(SocketDown(s))
  PROVE  /\ u \in UserWsStates
         /\ SameFrontiers(s, u)
         /\ u.connection = "Disconnected"
         /\ u.authentication = "Inactive"
         /\ u.subscription = "Inactive"
         /\ u.catch_up_generation = 0
         /\ u.rest_proof = NoProof
         /\ u.gap_version = s.gap_version
         /\ u.gaps = s.gaps
         /\ u.consumer_closed = s.consumer_closed
         /\ u.authority_poisoned = s.authority_poisoned
         /\ u.counter_exhaustion = s.counter_exhaustion
  BY ValueTypes DEF Unproven, SocketDown, UserWsStates, SameFrontiers

LEMMA FailCounterFacts ==
  ASSUME NEW s \in UserWsStates, NEW which \in Exhaustions,
         NEW t, t = FailCounter(s, which)
  PROVE  /\ t \in UserWsStates
         /\ SameFrontiers(s, t)
         /\ Failed(t)
         /\ t.gap_version = s.gap_version
         /\ t.consumer_closed = s.consumer_closed
         /\ t.authority_poisoned = s.authority_poisoned
<1> DEFINE u == Unproven(SocketDown(s))
           kept == IF u.counter_exhaustion = "None" THEN which ELSE u.counter_exhaustion
<1>1. u \in UserWsStates
  BY UnprovenFacts
<1>2. kept \in CounterExhaustions /\ kept # "None" /\ GapKinds \in Gaps
  <2>1. u.counter_exhaustion \in CounterExhaustions
    BY <1>1 DEF UserWsStates
  <2> QED BY <2>1, ValueTypes DEF CounterExhaustions
<1>3. t = [u EXCEPT !.gaps = GapKinds, !.counter_exhaustion = kept]
  BY DEF FailCounter
<1> HIDE DEF u, kept
<1>4. /\ t \in UserWsStates
      /\ SameFrontiers(u, t)
      /\ t.gaps = GapKinds
      /\ t.counter_exhaustion # "None"
      /\ t.connection = u.connection
      /\ t.authentication = u.authentication
      /\ t.subscription = u.subscription
      /\ t.catch_up_generation = u.catch_up_generation
      /\ t.rest_proof = u.rest_proof
      /\ t.gap_version = u.gap_version
      /\ t.consumer_closed = u.consumer_closed
      /\ t.authority_poisoned = u.authority_poisoned
  BY <1>1, <1>2, <1>3 DEF UserWsStates, SameFrontiers
<1> QED BY <1>2, <1>4, UnprovenFacts DEF u, SameFrontiers, Failed

(* advance_gap_version either counts the gap or fails the cell closed.     *)
LEMMA RaiseGapFacts ==
  ASSUME NEW s \in UserWsStates, NEW kinds \in Gaps,
         NEW t, t = RaiseGap(s, kinds)
  PROVE  /\ t \in UserWsStates
         /\ SameFrontiers(s, t)
         /\ s.gaps \cup kinds \subseteq t.gaps
         /\ t.gaps \subseteq GapKinds
         /\ t.consumer_closed = s.consumer_closed
         /\ t.authority_poisoned = s.authority_poisoned
         /\ \/ /\ t.gap_version = s.gap_version
               /\ Failed(t)
            \/ /\ t.gap_version = s.gap_version + 1
               /\ t.connection = s.connection
               /\ t.authentication = s.authentication
               /\ t.subscription = s.subscription
               /\ t.catch_up_generation = s.catch_up_generation
               /\ t.rest_proof = s.rest_proof
               /\ t.gaps = s.gaps \cup kinds
               /\ t.counter_exhaustion = s.counter_exhaustion
<1> DEFINE r == [s EXCEPT !.gaps = @ \cup kinds]
<1>1. s.gaps \cup kinds \in Gaps
  BY DEF UserWsStates, Gaps
<1>2. /\ r \in UserWsStates
      /\ SameFrontiers(s, r)
      /\ r.connection = s.connection
      /\ r.authentication = s.authentication
      /\ r.subscription = s.subscription
      /\ r.catch_up_generation = s.catch_up_generation
      /\ r.rest_proof = s.rest_proof
      /\ r.gaps = s.gaps \cup kinds
      /\ r.gap_version = s.gap_version
      /\ r.consumer_closed = s.consumer_closed
      /\ r.authority_poisoned = s.authority_poisoned
      /\ r.counter_exhaustion = s.counter_exhaustion
  BY <1>1 DEF UserWsStates, SameFrontiers
<1>3. t = IF r.gap_version < GapMax
          THEN [r EXCEPT !.gap_version = @ + 1]
          ELSE FailCounter(r, "GapVersion")
  BY DEF RaiseGap, AdvanceGapVersion
<1> HIDE DEF r
<1>4. CASE r.gap_version < GapMax
  <2>1. r.gap_version + 1 \in GapVersions
    BY <1>2, <1>4, CounterAssumption DEF UserWsStates, GapVersions
  <2>2. t = [r EXCEPT !.gap_version = @ + 1]
    BY <1>3, <1>4
  <2>3. /\ t \in UserWsStates
        /\ SameFrontiers(r, t)
        /\ t.gap_version = r.gap_version + 1
        /\ t.connection = r.connection
        /\ t.authentication = r.authentication
        /\ t.subscription = r.subscription
        /\ t.catch_up_generation = r.catch_up_generation
        /\ t.rest_proof = r.rest_proof
        /\ t.gaps = r.gaps
        /\ t.consumer_closed = r.consumer_closed
        /\ t.authority_poisoned = r.authority_poisoned
        /\ t.counter_exhaustion = r.counter_exhaustion
    BY <1>2, <2>1, <2>2 DEF UserWsStates, SameFrontiers
  <2> QED BY <1>1, <1>2, <2>3 DEF SameFrontiers, Gaps
<1>5. CASE ~(r.gap_version < GapMax)
  <2>1. /\ t \in UserWsStates
        /\ SameFrontiers(r, t)
        /\ Failed(t)
        /\ t.gap_version = r.gap_version
        /\ t.consumer_closed = r.consumer_closed
        /\ t.authority_poisoned = r.authority_poisoned
    BY <1>2, <1>3, <1>5, FailCounterFacts DEF Exhaustions
  <2> QED BY <1>1, <1>2, <2>1 DEF SameFrontiers, Failed, Gaps
<1> QED BY <1>4, <1>5

-----------------------------------------------------------------------------
(* What every operation but the acknowledgement and the commit does to the *)
(* state: sound states stay sound, nothing goes back, no gap is cleared,   *)
(* no permanent failure is lifted, and the recovery identity moves with    *)
(* whatever is lost.                                                       *)

Monotone(s, t) ==
    /\ s.generation <= t.generation
    /\ s.liveness_version <= t.liveness_version
    /\ s.gap_version <= t.gap_version
    /\ s.transport_sequence <= t.transport_sequence
    /\ s.enqueued_sequence <= t.enqueued_sequence
    /\ s.durable_sequence <= t.durable_sequence
    /\ s.raw_frame_sequence <= t.raw_frame_sequence

IdentityMoves(s, t) ==
    /\ RecoveryIdentity(s)
    /\ RecoveryIdentity(t)
    /\ t.generation = s.generation
    /\ t.gap_version = s.gap_version
    => /\ t.gaps \subseteq s.gaps
       /\ Dead(t) => Dead(s)
       /\ s.rest_proof # NoProof => t.rest_proof # NoProof

ControlStep(s, t) ==
    /\ t \in UserWsStates
    /\ ProofSound(t)
    /\ Monotone(s, t)
    /\ t.durable_sequence = s.durable_sequence
    /\ \/ t.enqueued_sequence = s.enqueued_sequence
       \/ t.enqueued_sequence <= t.transport_sequence
    /\ s.gaps \subseteq t.gaps
    /\ Dead(s) => Dead(t)
    /\ IdentityMoves(s, t)

LEMMA CounterTypes ==
  ASSUME NEW s \in UserWsStates
  PROVE  /\ s.generation \in Nat
         /\ s.liveness_version \in Nat
         /\ s.gap_version \in Nat
         /\ s.transport_sequence \in Nat
         /\ s.enqueued_sequence \in Nat
         /\ s.durable_sequence \in Nat
         /\ s.raw_frame_sequence \in Nat
<1>1. /\ s.generation \in Generations
      /\ s.liveness_version \in LivenessVersions
      /\ s.gap_version \in GapVersions
      /\ s.transport_sequence \in TransportSequences
      /\ s.enqueued_sequence \in TransportSequences
      /\ s.durable_sequence \in TransportSequences
      /\ s.raw_frame_sequence \in FrameSequences
  BY DEF UserWsStates
<1> QED BY <1>1 DEF Generations, LivenessVersions, GapVersions,
           TransportSequences, FrameSequences

(* Failing a counter closes the cell for good.                             *)
LEMMA FailedControlStep ==
  ASSUME NEW s \in UserWsStates, NEW t \in UserWsStates,
         SameFrontiers(s, t), Failed(t),
         s.gap_version <= t.gap_version,
         s.gaps \subseteq GapKinds
  PROVE  ControlStep(s, t)
  BY CounterTypes DEF ControlStep, ProofSound, Monotone, SameFrontiers, Failed,
     Dead, IdentityMoves, RecoveryIdentity

(* A gap raised on a state r that differs from s only in what the          *)
(* operation assigned first.                                               *)
LEMMA RaiseGapControlStep ==
  ASSUME NEW s \in UserWsStates, NEW r \in UserWsStates, NEW kinds \in Gaps,
         NEW t, t = RaiseGap(r, kinds),
         ProofSound(r),
         s.generation <= r.generation,
         r.liveness_version = s.liveness_version,
         r.transport_sequence = s.transport_sequence,
         r.enqueued_sequence = s.enqueued_sequence,
         r.durable_sequence = s.durable_sequence,
         r.raw_frame_sequence = s.raw_frame_sequence,
         r.gap_version = s.gap_version,
         s.gaps \subseteq r.gaps,
         r.counter_exhaustion = s.counter_exhaustion,
         s.consumer_closed => r.consumer_closed,
         s.authority_poisoned => r.authority_poisoned
  PROVE  ControlStep(s, t)
<1>1. /\ t \in UserWsStates
      /\ SameFrontiers(r, t)
      /\ s.gaps \subseteq t.gaps
      /\ t.consumer_closed = r.consumer_closed
      /\ t.authority_poisoned = r.authority_poisoned
  BY RaiseGapFacts
<1>2. CASE Failed(t) /\ t.gap_version = r.gap_version
  BY <1>1, <1>2, CounterTypes DEF ControlStep, ProofSound, Monotone, SameFrontiers,
     Failed, Dead, IdentityMoves, RecoveryIdentity
<1>3. CASE /\ t.gap_version = r.gap_version + 1
           /\ t.connection = r.connection
           /\ t.authentication = r.authentication
           /\ t.subscription = r.subscription
           /\ t.rest_proof = r.rest_proof
           /\ t.counter_exhaustion = r.counter_exhaustion
  BY <1>1, <1>3, CounterTypes DEF ControlStep, ProofSound, Monotone, SameFrontiers,
     Dead, IdentityMoves, RecoveryIdentity
<1> QED BY <1>2, <1>3, RaiseGapFacts

LEMMA PoisonControlStep ==
  ASSUME NEW s \in UserWsStates
  PROVE  ControlStep(s, FailClosedAfterPoison(s))
<1> DEFINE u == Unproven(SocketDown(s))
           r == [u EXCEPT !.consumer_closed = TRUE, !.authority_poisoned = TRUE]
<1>1. u \in UserWsStates /\ SameFrontiers(s, u)
  BY UnprovenFacts
<1> HIDE DEF u
<1>2. /\ r \in UserWsStates
      /\ SameFrontiers(u, r)
      /\ r.rest_proof = u.rest_proof
      /\ r.gap_version = u.gap_version
      /\ r.gaps = u.gaps
      /\ r.counter_exhaustion = u.counter_exhaustion
      /\ r.consumer_closed = TRUE
      /\ r.authority_poisoned = TRUE
  BY <1>1 DEF UserWsStates, SameFrontiers
<1>3. FailClosedAfterPoison(s) = RaiseGap(r, GapKinds)
  BY DEF FailClosedAfterPoison, u
<1>4. /\ u.rest_proof = NoProof
      /\ u.gap_version = s.gap_version
      /\ u.gaps = s.gaps
      /\ u.counter_exhaustion = s.counter_exhaustion
  BY UnprovenFacts DEF u
<1> HIDE DEF r
<1> QED BY <1>1, <1>2, <1>3, <1>4, RaiseGapControlStep, ValueTypes, CounterTypes
        DEF SameFrontiers, ProofSound

LEMMA ConnectingControlStep ==
  ASSUME NEW s \in UserWsStates, NEW t,
         t = [s EXCEPT !.connection = "Connecting",
                       !.authentication = "Inactive",
                       !.subscription = "Inactive",
                       !.rest_proof = NoProof]
  PROVE  ControlStep(s, t)
<1>1. t \in UserWsStates
  BY ValueTypes DEF UserWsStates
<1>2. /\ SameFrontiers(s, t)
      /\ t.connection = "Connecting"
      /\ t.rest_proof = NoProof
      /\ t.gap_version = s.gap_version
      /\ t.gaps = s.gaps
      /\ t.consumer_closed = s.consumer_closed
      /\ t.authority_poisoned = s.authority_poisoned
      /\ t.counter_exhaustion = s.counter_exhaustion
  BY DEF UserWsStates, SameFrontiers
<1> QED BY <1>1, <1>2, CounterTypes DEF ControlStep, ProofSound, Monotone,
        SameFrontiers, Dead, IdentityMoves, RecoveryIdentity

LEMMA ConnectedControlStep ==
  ASSUME NEW s \in UserWsStates
  PROVE  ControlStep(s, Connected(s))
<1> DEFINE u == Unproven(SocketDown(s))
           r == [u EXCEPT !.generation = @ + 1, !.connection = "Connected"]
<1>1. u \in UserWsStates /\ SameFrontiers(s, u)
  BY UnprovenFacts
<1>2. /\ u.rest_proof = NoProof
      /\ u.gap_version = s.gap_version
      /\ u.gaps = s.gaps
      /\ u.consumer_closed = s.consumer_closed
      /\ u.authority_poisoned = s.authority_poisoned
      /\ u.counter_exhaustion = s.counter_exhaustion
  BY UnprovenFacts
<1>3. CASE s.generation < GenerationMax
  <2>1. Connected(s) = RaiseGap(r, {"evidence"})
    BY <1>3 DEF Connected
  <2> HIDE DEF u
  <2>2. u.generation + 1 \in Generations
    BY <1>1, <1>3, CounterAssumption, CounterTypes DEF Generations, SameFrontiers
  <2>3. /\ r \in UserWsStates
        /\ r.generation = u.generation + 1
        /\ r.liveness_version = u.liveness_version
        /\ r.transport_sequence = u.transport_sequence
        /\ r.enqueued_sequence = u.enqueued_sequence
        /\ r.durable_sequence = u.durable_sequence
        /\ r.raw_frame_sequence = u.raw_frame_sequence
        /\ r.rest_proof = u.rest_proof
        /\ r.gap_version = u.gap_version
        /\ r.gaps = u.gaps
        /\ r.consumer_closed = u.consumer_closed
        /\ r.authority_poisoned = u.authority_poisoned
        /\ r.counter_exhaustion = u.counter_exhaustion
    BY <1>1, <2>2, ValueTypes DEF UserWsStates
  <2>4. {"evidence"} \in Gaps
    BY DEF Gaps, GapKinds
  <2> HIDE DEF r
  <2> QED BY <1>1, <1>2, <2>1, <2>3, <2>4, RaiseGapControlStep, CounterTypes
          DEF SameFrontiers, ProofSound
<1>4. CASE ~(s.generation < GenerationMax)
  <2>1. Connected(s) = FailCounter(s, "Generation")
    BY <1>4 DEF Connected
  <2>2. s.gaps \subseteq GapKinds
    BY DEF UserWsStates, Gaps
  <2> QED BY <2>1, <2>2, FailCounterFacts, FailedControlStep, CounterTypes DEF Exhaustions
<1> QED BY <1>3, <1>4

LEMMA SubscriptionWrittenControlStep ==
  ASSUME NEW s \in UserWsStates, ProofSound(s), s.connection = "Connected", NEW t,
         t = [s EXCEPT !.authentication = "CredentialsSubmitted",
                       !.subscription = "AwaitingServerProof"]
  PROVE  ControlStep(s, t)
<1>1. t \in UserWsStates
  BY ValueTypes DEF UserWsStates
<1>2. /\ SameFrontiers(s, t)
      /\ t.connection = s.connection
      /\ t.authentication = "CredentialsSubmitted"
      /\ t.subscription = "AwaitingServerProof"
      /\ t.rest_proof = s.rest_proof
      /\ t.gap_version = s.gap_version
      /\ t.gaps = s.gaps
      /\ t.consumer_closed = s.consumer_closed
      /\ t.authority_poisoned = s.authority_poisoned
      /\ t.counter_exhaustion = s.counter_exhaustion
  BY DEF UserWsStates, SameFrontiers
<1> QED BY <1>1, <1>2, CounterTypes DEF ControlStep, ProofSound, Monotone,
        SameFrontiers, Dead, IdentityMoves, RecoveryIdentity

LEMMA LivenessProvenControlStep ==
  ASSUME NEW s \in UserWsStates, ProofSound(s)
  PROVE  ControlStep(s, LivenessProven(s))
<1> DEFINE t == LivenessProven(s)
<1>1. CASE s.liveness_version < LivenessMax
  <2>1. t = [s EXCEPT !.liveness_version = @ + 1, !.subscription = "ServerResponsive"]
    BY <1>1 DEF LivenessProven
  <2>2. s.liveness_version + 1 \in LivenessVersions
    BY <1>1, CounterTypes, CounterAssumption DEF LivenessVersions
  <2> HIDE DEF t
  <2>3. t \in UserWsStates
    BY <2>1, <2>2, ValueTypes DEF UserWsStates
  <2>4. /\ t.generation = s.generation
        /\ t.liveness_version = s.liveness_version + 1
        /\ t.transport_sequence = s.transport_sequence
        /\ t.enqueued_sequence = s.enqueued_sequence
        /\ t.durable_sequence = s.durable_sequence
        /\ t.raw_frame_sequence = s.raw_frame_sequence
        /\ t.connection = s.connection
        /\ t.authentication = s.authentication
        /\ t.subscription = "ServerResponsive"
        /\ t.rest_proof = s.rest_proof
        /\ t.gap_version = s.gap_version
        /\ t.gaps = s.gaps
        /\ t.consumer_closed = s.consumer_closed
        /\ t.authority_poisoned = s.authority_poisoned
        /\ t.counter_exhaustion = s.counter_exhaustion
    BY <2>1 DEF UserWsStates
  <2>5. s.rest_proof.floor \in Nat
    <3>1. s.rest_proof \in RestProof
      BY DEF UserWsStates
    <3> QED BY <3>1 DEF RestProof, LivenessVersions
  <2>6. ProofSound(t) /\ Monotone(s, t)
    BY <2>4, <2>5, CounterTypes DEF ProofSound, Monotone
  <2>7. ControlStep(s, t)
    BY <2>3, <2>4, <2>6 DEF ControlStep, Dead, IdentityMoves, RecoveryIdentity
  <2> QED BY <2>7 DEF t
<1>2. CASE ~(s.liveness_version < LivenessMax)
  <2>1. t = FailCounter(s, "Liveness")
    BY <1>2 DEF LivenessProven
  <2>2. s.gaps \subseteq GapKinds
    BY DEF UserWsStates, Gaps
  <2> QED BY <2>1, <2>2, FailCounterFacts, FailedControlStep, CounterTypes DEF Exhaustions
<1> QED BY <1>1, <1>2

LEMMA RestProvenControlStep ==
  ASSUME NEW s \in UserWsStates, ProofSound(s), RecoveryToken(s),
         NEW authority \in OwnAuthorities
  PROVE  ControlStep(s, RestProven(s, authority))
<1> DEFINE proof == [generation |-> s.generation, authority |-> authority,
                     floor |-> s.liveness_version]
           t == RestProven(s, authority)
<1>1. s.generation \in Generations /\ s.liveness_version \in LivenessVersions
  BY DEF UserWsStates
<1>2. proof \in RestProof
  BY <1>1 DEF RestProof
<1>3. t = [s EXCEPT !.rest_proof = proof, !.subscription = "AwaitingServerProof"]
  BY DEF RestProven
<1>4. /\ proof.generation = s.generation
      /\ proof.authority = authority
      /\ proof.floor = s.liveness_version
      /\ proof # NoProof
  BY AuthorityAssumption DEF NoProof
<1> HIDE DEF t, proof
<1>5. t \in UserWsStates
  BY <1>2, <1>3, ValueTypes DEF UserWsStates
<1>6. /\ SameFrontiers(s, t)
      /\ t.connection = s.connection
      /\ t.authentication = s.authentication
      /\ t.subscription = "AwaitingServerProof"
      /\ t.rest_proof = proof
      /\ t.gap_version = s.gap_version
      /\ t.gaps = s.gaps
      /\ t.consumer_closed = s.consumer_closed
      /\ t.authority_poisoned = s.authority_poisoned
      /\ t.counter_exhaustion = s.counter_exhaustion
  BY <1>3 DEF UserWsStates, SameFrontiers
<1>7. ProofSound(t) /\ Monotone(s, t)
  BY <1>4, <1>6, CounterTypes DEF ProofSound, Monotone, SameFrontiers,
     RecoveryToken, RecoveryIdentity
<1>8. ControlStep(s, t)
  BY <1>4, <1>5, <1>6, <1>7 DEF ControlStep, SameFrontiers, Dead, IdentityMoves,
     RecoveryIdentity
<1> QED BY <1>8 DEF t

LEMMA DisconnectedControlStep ==
  ASSUME NEW s \in UserWsStates
  PROVE  ControlStep(s, Disconnected(s))
<1> DEFINE u == Unproven(SocketDown(s))
<1>1. /\ u \in UserWsStates
      /\ SameFrontiers(s, u)
      /\ u.rest_proof = NoProof
      /\ u.gap_version = s.gap_version
      /\ u.gaps = s.gaps
      /\ u.consumer_closed = s.consumer_closed
      /\ u.authority_poisoned = s.authority_poisoned
      /\ u.counter_exhaustion = s.counter_exhaustion
  BY UnprovenFacts
<1>2. Disconnected(s) = RaiseGap(u, {"evidence"}) /\ {"evidence"} \in Gaps
  BY DEF Disconnected, Gaps, GapKinds
<1> HIDE DEF u
<1> QED BY <1>1, <1>2, RaiseGapControlStep, CounterTypes DEF SameFrontiers, ProofSound

LEMMA RevokeControlStep ==
  ASSUME NEW s \in UserWsStates, NEW kinds \in Gaps
  PROVE  /\ ControlStep(s, RaiseGapAndRevoke(s, kinds))
         /\ ControlStep(s, RaiseGapAndRevoke([s EXCEPT !.consumer_closed = TRUE], kinds))
<1>1. ASSUME NEW c \in {s, [s EXCEPT !.consumer_closed = TRUE]}
      PROVE  ControlStep(s, RaiseGapAndRevoke(c, kinds))
  <2>1. /\ c \in UserWsStates
        /\ SameFrontiers(s, c)
        /\ c.gap_version = s.gap_version
        /\ c.gaps = s.gaps
        /\ s.consumer_closed => c.consumer_closed
        /\ c.authority_poisoned = s.authority_poisoned
        /\ c.counter_exhaustion = s.counter_exhaustion
    BY <1>1 DEF UserWsStates, SameFrontiers
  <2> DEFINE r == [c EXCEPT !.subscription = "AwaitingServerProof",
                            !.rest_proof = NoProof]
  <2>2. r \in UserWsStates
    BY <2>1, ValueTypes DEF UserWsStates
  <2>3. /\ SameFrontiers(c, r)
        /\ r.rest_proof = NoProof
        /\ r.gap_version = c.gap_version
        /\ r.gaps = c.gaps
        /\ r.consumer_closed = c.consumer_closed
        /\ r.authority_poisoned = c.authority_poisoned
        /\ r.counter_exhaustion = c.counter_exhaustion
    BY <2>1 DEF UserWsStates, SameFrontiers
  <2>4. RaiseGapAndRevoke(c, kinds) = RaiseGap(r, kinds)
    BY DEF RaiseGapAndRevoke
  <2> HIDE DEF r
  <2> QED BY <2>1, <2>2, <2>3, <2>4, RaiseGapControlStep, CounterTypes
          DEF SameFrontiers, ProofSound
<1> QED BY <1>1

(* mark_dropped and an overflowing acknowledgement keep the REST proof.    *)
LEMMA KeepProofControlStep ==
  ASSUME NEW s \in UserWsStates, ProofSound(s), NEW kinds \in Gaps
  PROVE  /\ ControlStep(s, RaiseGap(s, kinds))
         /\ ControlStep(s, RaiseGap([s EXCEPT !.consumer_closed = TRUE], kinds))
<1>1. ASSUME NEW c \in {s, [s EXCEPT !.consumer_closed = TRUE]}
      PROVE  ControlStep(s, RaiseGap(c, kinds))
  <2>1. /\ c \in UserWsStates
        /\ SameFrontiers(s, c)
        /\ c.connection = s.connection
        /\ c.authentication = s.authentication
        /\ c.subscription = s.subscription
        /\ c.rest_proof = s.rest_proof
        /\ c.gap_version = s.gap_version
        /\ c.gaps = s.gaps
        /\ s.consumer_closed => c.consumer_closed
        /\ c.authority_poisoned = s.authority_poisoned
        /\ c.counter_exhaustion = s.counter_exhaustion
    BY <1>1 DEF UserWsStates, SameFrontiers
  <2>2. ProofSound(c)
    BY <2>1 DEF ProofSound, SameFrontiers
  <2> QED BY <2>1, <2>2, RaiseGapControlStep, CounterTypes DEF SameFrontiers
<1> QED BY <1>1

LEMMA ReserveControlStep ==
  ASSUME NEW s \in UserWsStates, ProofSound(s), NEW count \in Nat
  PROVE  /\ ControlStep(s, Reserved(s, count))
         /\ ControlStep(s, FrameReserved(s))
<1>1. s.gaps \subseteq GapKinds
  BY DEF UserWsStates, Gaps
<1>2. ASSUME NEW t \in UserWsStates,
             t.generation = s.generation,
             t.liveness_version = s.liveness_version,
             t.enqueued_sequence = s.enqueued_sequence,
             t.durable_sequence = s.durable_sequence,
             s.transport_sequence <= t.transport_sequence,
             s.raw_frame_sequence <= t.raw_frame_sequence,
             t.connection = s.connection,
             t.authentication = s.authentication,
             t.subscription = s.subscription,
             t.rest_proof = s.rest_proof,
             t.gap_version = s.gap_version,
             t.gaps = s.gaps,
             t.consumer_closed = s.consumer_closed,
             t.authority_poisoned = s.authority_poisoned,
             t.counter_exhaustion = s.counter_exhaustion
      PROVE  ControlStep(s, t)
  <2>1. ProofSound(t) /\ Monotone(s, t)
    BY <1>2, CounterTypes DEF ProofSound, Monotone
  <2> QED BY <1>2, <2>1 DEF ControlStep, Dead, IdentityMoves, RecoveryIdentity
<1>3. ControlStep(s, Reserved(s, count))
  <2>1. CASE s.transport_sequence + count <= TransportMax
    <3> DEFINE t == [s EXCEPT !.transport_sequence = @ + count]
    <3>1. s.transport_sequence + count \in TransportSequences
      BY <2>1, CounterTypes, CounterAssumption DEF TransportSequences
    <3>2. t \in UserWsStates
      BY <3>1 DEF UserWsStates
    <3>3. s.transport_sequence <= t.transport_sequence
      BY CounterTypes DEF UserWsStates
    <3>4. ControlStep(s, t)
      BY <1>2, <3>2, <3>3, CounterTypes DEF UserWsStates
    <3> QED BY <2>1, <3>4 DEF Reserved
  <2>2. CASE ~(s.transport_sequence + count <= TransportMax)
    BY <1>1, <2>2, FailCounterFacts, FailedControlStep, CounterTypes DEF Exhaustions, Reserved
  <2> QED BY <2>1, <2>2
<1>4. ControlStep(s, FrameReserved(s))
  <2>1. CASE s.raw_frame_sequence < FrameMax
    <3> DEFINE t == [s EXCEPT !.raw_frame_sequence = @ + 1]
    <3>1. s.raw_frame_sequence + 1 \in FrameSequences
      BY <2>1, CounterTypes, CounterAssumption DEF FrameSequences
    <3>2. t \in UserWsStates
      BY <3>1 DEF UserWsStates
    <3>3. s.raw_frame_sequence <= t.raw_frame_sequence
      BY CounterTypes DEF UserWsStates
    <3>4. ControlStep(s, t)
      BY <1>2, <3>2, <3>3, CounterTypes DEF UserWsStates
    <3> QED BY <2>1, <3>4 DEF FrameReserved
  <2>2. CASE ~(s.raw_frame_sequence < FrameMax)
    BY <1>1, <2>2, FailCounterFacts, FailedControlStep, CounterTypes DEF Exhaustions, FrameReserved
  <2> QED BY <2>1, <2>2
<1> QED BY <1>3, <1>4

LEMMA EnqueuedControlStep ==
  ASSUME NEW s \in UserWsStates, ProofSound(s),
         NEW last \in Nat, last <= s.transport_sequence
  PROVE  ControlStep(s, Enqueued(s, last))
<1>1. CASE s.enqueued_sequence < last
  <2> DEFINE t == [s EXCEPT !.enqueued_sequence = last]
  <2>1. s.transport_sequence \in TransportSequences
    BY DEF UserWsStates
  <2>2. last \in TransportSequences
    BY <2>1, CounterAssumption DEF TransportSequences
  <2>3. t \in UserWsStates
    BY <2>2 DEF UserWsStates
  <2>4. /\ t.generation = s.generation
        /\ t.liveness_version = s.liveness_version
        /\ t.enqueued_sequence = last
        /\ t.durable_sequence = s.durable_sequence
        /\ t.transport_sequence = s.transport_sequence
        /\ t.raw_frame_sequence = s.raw_frame_sequence
        /\ t.connection = s.connection
        /\ t.authentication = s.authentication
        /\ t.subscription = s.subscription
        /\ t.rest_proof = s.rest_proof
        /\ t.gap_version = s.gap_version
        /\ t.gaps = s.gaps
        /\ t.consumer_closed = s.consumer_closed
        /\ t.authority_poisoned = s.authority_poisoned
        /\ t.counter_exhaustion = s.counter_exhaustion
    BY DEF UserWsStates
  <2> HIDE DEF t
  <2>5. ProofSound(t) /\ Monotone(s, t)
    BY <1>1, <2>4, CounterTypes DEF ProofSound, Monotone
  <2>6. ControlStep(s, t)
    BY <2>3, <2>4, <2>5 DEF ControlStep, Dead, IdentityMoves, RecoveryIdentity
  <2> QED BY <1>1, <2>6 DEF t, Enqueued
<1>2. CASE ~(s.enqueued_sequence < last)
  <2>1. ProofSound(s) /\ Monotone(s, s)
    BY CounterTypes DEF Monotone
  <2> QED BY <1>2, <2>1 DEF Enqueued, ControlStep, IdentityMoves
<1> QED BY <1>1, <1>2

-----------------------------------------------------------------------------
(* The inductive invariant.                                                *)

(* The acknowledged sequences above the frontier, and the frontiers.       *)
FrontierInv ==
    /\ out_of_order \subseteq acked
    /\ out_of_order \subseteq 1 .. ws.transport_sequence
    /\ ws.durable_sequence <= ws.transport_sequence
    /\ ws.enqueued_sequence <= ws.transport_sequence
    /\ FrontierAccounted
    /\ FrontierMaximal

(* A retained dropped range is made of sequences that were recorded lost.  *)
DroppedInv ==
    \A range \in dropped_ranges :
        /\ range.first \in 1 .. TransportMax
        /\ range.last \in 1 .. ws.transport_sequence
        /\ range.first .. range.last \subseteq lost

(* A finalization describes a cell that its commit makes ready.            *)
PreparedInv ==
    \A finalization \in prepared :
        IsReady(RecoveredState(finalization.state), finalization.raw_frames)

IInv ==
    /\ TypeOK
    /\ ProofSound(ws)
    /\ FrontierInv
    /\ DroppedInv
    /\ PreparedInv

LEMMA ControlPreserves ==
  ASSUME IInv, ControlStep(ws, ws'),
         out_of_order' = out_of_order,
         raw_frames' \subseteq 1 .. FrameMax,
         acked' = acked,
         lost \subseteq lost', lost' \subseteq 1 .. TransportMax,
         dropped_ranges' \subseteq Ranges,
         proof_gap' \in GapVersions,
         prepared' \subseteq prepared,
         DroppedInv'
  PROVE  IInv'
<1> USE DEF IInv, ControlStep
<1>1. TypeOK'
  BY DEF TypeOK
<1>2. /\ ws \in UserWsStates /\ ws' \in UserWsStates
      /\ ws.transport_sequence <= ws'.transport_sequence
  BY DEF TypeOK, Monotone
<1>3. FrontierAccounted'
  BY <1>2 DEF FrontierInv, FrontierAccounted
<1>4. FrontierMaximal'
  BY <1>2, CounterTypes DEF FrontierInv, FrontierMaximal
<1>5. FrontierInv'
  BY <1>2, <1>3, <1>4, CounterTypes DEF FrontierInv
<1>6. PreparedInv'
  BY DEF PreparedInv
<1> QED BY <1>1, <1>5, <1>6

LEMMA DroppedUnchanged ==
  ASSUME IInv, ControlStep(ws, ws'), UNCHANGED <<dropped_ranges, lost>>
  PROVE  DroppedInv' /\ dropped_ranges' \subseteq Ranges
                     /\ lost \subseteq lost' /\ lost' \subseteq 1 .. TransportMax
<1>1. /\ ws \in UserWsStates /\ ws' \in UserWsStates
      /\ ws.transport_sequence <= ws'.transport_sequence
  BY DEF IInv, TypeOK, ControlStep, Monotone
<1> QED BY <1>1, CounterTypes DEF IInv, DroppedInv, TypeOK

(* An operation that only updates the state.                               *)
LEMMA UpdatePreserves ==
  ASSUME IInv, ControlStep(ws, ws'),
         UNCHANGED <<out_of_order, dropped_ranges, raw_frames, prepared, acked, lost>>,
         proof_gap' \in GapVersions
  PROVE  IInv'
  BY ControlPreserves, DroppedUnchanged DEF IInv, TypeOK

-----------------------------------------------------------------------------
(* One step of the specification, action by action.                        *)

AckStep ==
    \E to \in ws.durable_sequence .. ws.transport_sequence :
        ws' = [ws EXCEPT !.durable_sequence = to]

CommitStep ==
    /\ ws' = RecoveredState(ws)
    /\ IsReady(ws', raw_frames')

LEMMA InitSound == Init => IInv
<1> SUFFICES ASSUME Init PROVE IInv
  OBVIOUS
<1>1. /\ 0 \in Generations /\ 0 \in LivenessVersions /\ 0 \in GapVersions
      /\ 0 \in TransportSequences /\ 0 \in FrameSequences /\ {} \in Gaps
      /\ "None" \in CounterExhaustions
  BY CounterAssumption DEF Generations, LivenessVersions, GapVersions,
     TransportSequences, FrameSequences, Gaps, CounterExhaustions
<1>2. ws \in UserWsStates
  BY <1>1, ValueTypes DEF Init, UserWsStates
<1>3. TypeOK
  BY <1>1, <1>2 DEF Init, TypeOK
<1>4. ProofSound(ws)
  BY DEF Init, ProofSound
<1>5. FrontierInv
  BY DEF Init, FrontierInv, FrontierAccounted, FrontierMaximal
<1>6. DroppedInv /\ PreparedInv
  BY DEF Init, DroppedInv, PreparedInv
<1> QED BY <1>3, <1>4, <1>5, <1>6 DEF IInv

(* The operations that only update the state.                              *)
LEMMA UpdateStep ==
  ASSUME IInv,
         \/ MarkAuthorityPoisoned
         \/ MarkConnecting
         \/ TryMarkConnected
         \/ MarkSubscriptionWritten
         \/ MarkServerLivenessProven
         \/ \E authority \in Authorities : MarkAuthenticatedRestProven(authority)
         \/ MarkDisconnected
         \/ \E kind \in GapKinds : MarkGap(kind)
         \/ MarkConsumerClosed
         \/ \E count \in 1 .. TransportMax + 1 : ReserveTransportSequences(count)
         \/ ReserveRawFrameSequence
         \/ \E range \in Ranges : MarkEnqueued(range)
  PROVE  IInv' /\ ControlStep(ws, ws')
<1> DEFINE Quiet == UNCHANGED <<out_of_order, dropped_ranges, raw_frames, prepared,
                                acked, lost>>
<1>1. ws \in UserWsStates /\ ProofSound(ws) /\ proof_gap \in GapVersions
  BY DEF IInv, TypeOK
<1>2. ws.gap_version \in GapVersions
  BY <1>1 DEF UserWsStates
<1> SUFFICES ControlStep(ws, ws') /\ Quiet /\ proof_gap' \in GapVersions
  BY UpdatePreserves
<1>3. CASE MarkAuthorityPoisoned
  BY <1>1, <1>3, PoisonControlStep DEF MarkAuthorityPoisoned, Update, history
<1>4. CASE MarkConnecting
  BY <1>1, <1>4, ConnectingControlStep DEF MarkConnecting, Update, history
<1>5. CASE TryMarkConnected
  BY <1>1, <1>5, ConnectedControlStep DEF TryMarkConnected, Update, history
<1>6. CASE MarkSubscriptionWritten
  BY <1>1, <1>6, SubscriptionWrittenControlStep DEF MarkSubscriptionWritten, Update, history
<1>7. CASE MarkServerLivenessProven
  BY <1>1, <1>7, LivenessProvenControlStep DEF MarkServerLivenessProven, Update, history
<1>8. ASSUME NEW authority \in Authorities, MarkAuthenticatedRestProven(authority)
      PROVE  ControlStep(ws, ws') /\ Quiet /\ proof_gap' \in GapVersions
  BY <1>1, <1>2, <1>8, RestProvenControlStep DEF MarkAuthenticatedRestProven, Update
<1>9. CASE MarkDisconnected
  BY <1>1, <1>9, DisconnectedControlStep DEF MarkDisconnected, Update, history
<1>10. ASSUME NEW kind \in GapKinds, MarkGap(kind)
       PROVE  ControlStep(ws, ws') /\ Quiet /\ proof_gap' \in GapVersions
  <2>1. {kind} \in Gaps
    BY DEF Gaps
  <2> QED BY <1>1, <1>10, <2>1, RevokeControlStep DEF MarkGap, Update, history
<1>11. CASE MarkConsumerClosed
  <2>1. {"delivery"} \in Gaps
    BY DEF Gaps, GapKinds
  <2> QED BY <1>1, <1>11, <2>1, RevokeControlStep DEF MarkConsumerClosed, Update, history
<1>12. ASSUME NEW count \in 1 .. TransportMax + 1, ReserveTransportSequences(count)
       PROVE  ControlStep(ws, ws') /\ Quiet /\ proof_gap' \in GapVersions
  <2>1. count \in Nat
    BY CounterAssumption
  <2> QED BY <1>1, <1>12, <2>1, ReserveControlStep DEF ReserveTransportSequences, Update, history
<1>13. CASE ReserveRawFrameSequence
  BY <1>1, <1>13, ReserveControlStep DEF ReserveRawFrameSequence, Update, history
<1>14. ASSUME NEW range \in Ranges, MarkEnqueued(range)
       PROVE  ControlStep(ws, ws') /\ Quiet /\ proof_gap' \in GapVersions
  <2>1. range.last \in Nat
    BY CounterAssumption DEF Ranges
  <2>2. {"delivery"} \in Gaps
    BY DEF Gaps, GapKinds
  <2>3. CASE ValidRange(range)
    BY <1>1, <1>14, <2>1, <2>3, EnqueuedControlStep DEF MarkEnqueued, Update, history, ValidRange
  <2>4. CASE ~ValidRange(range)
    BY <1>1, <1>14, <2>2, <2>4, KeepProofControlStep DEF MarkEnqueued, Update, history
  <2> QED BY <2>3, <2>4
<1> QED BY <1>3, <1>4, <1>5, <1>6, <1>7, <1>8, <1>9, <1>10, <1>11, <1>12, <1>13, <1>14

LEMMA SameControlStep ==
  ASSUME IInv, ws' = ws
  PROVE  ControlStep(ws, ws')
  BY CounterTypes DEF IInv, TypeOK, ControlStep, Monotone, IdentityMoves

LEMMA RetainStep ==
  ASSUME IInv, NEW frame \in 1 .. ws.raw_frame_sequence, RetainRawFrame(frame)
  PROVE  IInv' /\ ControlStep(ws, ws')
<1>1. /\ ws \in UserWsStates /\ ProofSound(ws) /\ proof_gap \in GapVersions
      /\ raw_frames \subseteq 1 .. FrameMax
  BY DEF IInv, TypeOK
<1>2. {"evidence"} \in Gaps
  BY DEF Gaps, GapKinds
<1>3. ControlStep(ws, ws')
  BY <1>1, <1>2, KeepProofControlStep, SameControlStep DEF RetainRawFrame
<1>4. frame \in 1 .. FrameMax
  <2>1. ws.raw_frame_sequence \in FrameSequences
    BY <1>1 DEF UserWsStates
  <2> QED BY <2>1, CounterAssumption DEF FrameSequences
<1>5. raw_frames' \subseteq 1 .. FrameMax
  BY <1>1, <1>4 DEF RetainRawFrame
<1> QED BY <1>1, <1>3, <1>5, ControlPreserves, DroppedUnchanged DEF RetainRawFrame, history

LEMMA AckFrameStep ==
  ASSUME IInv, NEW frame \in raw_frames, AcknowledgeRawFrameDurable(frame)
  PROVE  IInv' /\ ControlStep(ws, ws')
<1>1. raw_frames' \subseteq 1 .. FrameMax /\ proof_gap \in GapVersions
  BY DEF IInv, TypeOK, AcknowledgeRawFrameDurable
<1>2. ControlStep(ws, ws')
  BY SameControlStep DEF AcknowledgeRawFrameDurable
<1> QED BY <1>1, <1>2, ControlPreserves, DroppedUnchanged
        DEF AcknowledgeRawFrameDurable, history

LEMMA DroppedStep ==
  ASSUME IInv, NEW range \in Ranges, MarkDropped(range)
  PROVE  IInv' /\ ControlStep(ws, ws')
<1>1. /\ ws \in UserWsStates /\ ProofSound(ws) /\ proof_gap \in GapVersions
      /\ raw_frames \subseteq 1 .. FrameMax
      /\ dropped_ranges \subseteq Ranges
      /\ lost \subseteq 1 .. TransportMax
  BY DEF IInv, TypeOK
<1>2. {"delivery"} \in Gaps
  BY DEF Gaps, GapKinds
<1>3. ControlStep(ws, ws')
  BY <1>1, <1>2, KeepProofControlStep DEF MarkDropped, DropInvalid, DropRetained, DropOverflow
<1>4. CASE UNCHANGED <<dropped_ranges, lost>>
  BY <1>1, <1>3, <1>4, ControlPreserves, DroppedUnchanged DEF MarkDropped
<1>5. CASE DropRetained(range)
  <2>1. /\ range.first \in 1 .. TransportMax
        /\ range.last \in 1 .. ws.transport_sequence
        /\ range.first .. range.last \subseteq 1 .. TransportMax
    <3>1. ws.transport_sequence \in TransportSequences
      BY <1>1 DEF UserWsStates
    <3>2. range.first \in Nat /\ range.last \in Nat
      BY CounterAssumption DEF Ranges
    <3> QED BY <1>5, <3>1, <3>2, CounterAssumption
            DEF DropRetained, ValidRange, TransportSequences
  <2>2. /\ lost' = lost \cup (range.first .. range.last)
        /\ lost' \subseteq 1 .. TransportMax
    BY <1>1, <1>5, <2>1 DEF DropRetained
  <2>3. /\ ws' \in UserWsStates
        /\ ws.transport_sequence \in Nat
        /\ ws'.transport_sequence \in Nat
        /\ ws.transport_sequence <= ws'.transport_sequence
    BY <1>1, <1>3, CounterTypes DEF ControlStep, Monotone
  <2>4. CASE dropped_ranges' = {range}
    <3>1. DroppedInv'
      BY <2>1, <2>2, <2>3, <2>4 DEF DroppedInv
    <3> QED BY <1>1, <1>3, <2>2, <2>4, <3>1, ControlPreserves DEF MarkDropped
  <2>5. ASSUME NEW p \in Adjacent(range),
               dropped_ranges' = {[first |-> p.first, last |-> range.last]}
        PROVE  IInv'
    <3>1. /\ p \in dropped_ranges /\ p \in Ranges
          /\ p.last + 1 = range.first
          /\ p.first \in 1 .. TransportMax
          /\ p.last \in 1 .. ws.transport_sequence
          /\ p.first .. p.last \subseteq lost
      BY <1>1, <2>5 DEF Adjacent, IInv, DroppedInv
    <3> DEFINE q == [first |-> p.first, last |-> range.last]
    <3>2. q.first .. q.last \subseteq lost'
      BY <2>1, <2>2, <2>3, <3>1, CounterAssumption
    <3>3. q \in Ranges
      BY <3>1 DEF Ranges
    <3>4. DroppedInv'
      BY <2>1, <2>3, <2>5, <3>1, <3>2 DEF DroppedInv
    <3> QED BY <1>1, <1>3, <2>2, <2>5, <3>3, <3>4, ControlPreserves DEF MarkDropped
  <2> QED BY <1>3, <1>5, <2>4, <2>5 DEF DropRetained
<1> QED BY <1>3, <1>4, <1>5 DEF MarkDropped, DropInvalid, DropOverflow

LEMMA AckRetainedStep ==
  ASSUME IInv, NEW sequence \in 1 .. TransportMax, AcknowledgeDurable(sequence),
         AckRetained(sequence)
  PROVE  IInv' /\ AckStep
<1>1. /\ ws \in UserWsStates /\ ProofSound(ws)
      /\ ws.transport_sequence \in TransportSequences
  BY DEF IInv, TypeOK, UserWsStates
<1> DEFINE held == out_of_order \cup {sequence}
<1>2. PICK to \in ws.durable_sequence .. ws.transport_sequence :
         /\ MaximalRun(ws.durable_sequence, to, held, ws.transport_sequence)
         /\ ws' = [ws EXCEPT !.durable_sequence = to]
         /\ out_of_order' = held \ ((ws.durable_sequence + 1) .. to)
  BY DEF AckRetained
<1>3. /\ acked' = acked \cup {sequence}
      /\ UNCHANGED <<dropped_ranges, raw_frames, prepared, lost, proof_gap>>
      /\ sequence <= ws.transport_sequence
      /\ ws.durable_sequence < sequence
  BY DEF AckRetained, AcknowledgeDurable
<1>4. /\ ws.durable_sequence \in Nat /\ ws.transport_sequence \in Nat /\ to \in Nat
      /\ to \in TransportSequences
      /\ ws.durable_sequence <= to /\ to <= ws.transport_sequence
  BY <1>1, CounterTypes, CounterAssumption DEF TransportSequences
<1>5. ws' \in UserWsStates
  BY <1>1, <1>2, <1>4 DEF UserWsStates
<1>6. /\ ws'.durable_sequence = to
      /\ ws'.transport_sequence = ws.transport_sequence
      /\ ws'.enqueued_sequence = ws.enqueued_sequence
      /\ ws'.generation = ws.generation
      /\ ws'.liveness_version = ws.liveness_version
      /\ ws'.connection = ws.connection
      /\ ws'.authentication = ws.authentication
      /\ ws'.subscription = ws.subscription
      /\ ws'.rest_proof = ws.rest_proof
  BY <1>1, <1>2 DEF UserWsStates
<1>7. TypeOK'
  BY <1>2, <1>3, <1>5 DEF IInv, TypeOK
<1>8. ProofSound(ws')
  BY <1>1, <1>6 DEF ProofSound
<1>9. held \subseteq acked' /\ held \subseteq 1 .. ws.transport_sequence
  BY <1>3, <1>4 DEF IInv, FrontierInv
<1>10. FrontierAccounted'
  <2> SUFFICES ASSUME NEW q \in 1 .. to PROVE q \in acked' \cup lost'
    BY <1>6 DEF FrontierAccounted
  <2>1. CASE q <= ws.durable_sequence
    BY <1>3, <1>4, <2>1 DEF IInv, FrontierInv, FrontierAccounted
  <2>2. CASE ~(q <= ws.durable_sequence)
    BY <1>2, <1>4, <1>9, <2>2 DEF MaximalRun, Contiguous
  <2> QED BY <2>1, <2>2
<1>11. FrontierMaximal'
  BY <1>2, <1>4, <1>6, <1>9 DEF FrontierMaximal, MaximalRun
<1>12. FrontierInv'
  BY <1>2, <1>4, <1>6, <1>9, <1>10, <1>11 DEF IInv, FrontierInv
<1>13. DroppedInv' /\ PreparedInv'
  BY <1>3, <1>6 DEF IInv, DroppedInv, PreparedInv
<1> QED BY <1>2, <1>7, <1>8, <1>12, <1>13 DEF IInv, AckStep

LEMMA AckOverflowStep ==
  ASSUME IInv, NEW sequence \in 1 .. TransportMax, AcknowledgeDurable(sequence),
         AckOverflow(sequence)
  PROVE  IInv' /\ ControlStep(ws, ws')
<1>1. /\ ws \in UserWsStates /\ ProofSound(ws) /\ proof_gap \in GapVersions
  BY DEF IInv, TypeOK
<1>2. {"delivery"} \in Gaps
  BY DEF Gaps, GapKinds
<1>3. ControlStep(ws, ws')
  BY <1>1, <1>2, KeepProofControlStep DEF AckOverflow
<1> QED BY <1>1, <1>3, UpdatePreserves DEF AckOverflow, AcknowledgeDurable

LEMMA PrepareStep ==
  ASSUME IInv, PrepareCatchUpFinalization
  PROVE  IInv' /\ ControlStep(ws, ws')
<1>1. UNCHANGED <<ws, out_of_order, dropped_ranges, raw_frames, acked, lost, proof_gap>>
  BY DEF PrepareCatchUpFinalization, ledger, history
<1>2. PreparedInv'
  <2> SUFFICES ASSUME NEW finalization \in prepared'
               PROVE  IsReady(RecoveredState(finalization.state), finalization.raw_frames)
    BY <1>1 DEF PreparedInv
  <2>1. CASE finalization \in prepared
    BY <2>1 DEF IInv, PreparedInv
  <2>2. CASE finalization = Cell
    BY <2>2 DEF Cell, PrepareCatchUpFinalization
  <2> QED BY <2>1, <2>2 DEF PrepareCatchUpFinalization
<1>3. TypeOK' /\ ProofSound(ws')
  BY <1>1 DEF IInv, TypeOK
<1>4. FrontierInv' /\ DroppedInv'
  BY <1>1 DEF IInv, FrontierInv, FrontierAccounted, FrontierMaximal, DroppedInv
<1> QED BY <1>1, <1>2, <1>3, <1>4, SameControlStep DEF IInv

(* A recovered state is a state; only the frontier, the gaps and the       *)
(* catch-up generation have moved.                                         *)
LEMMA RecoveredFacts ==
  ASSUME NEW s \in UserWsStates, NEW t, t = RecoveredState(s)
  PROVE  /\ t \in UserWsStates
         /\ t.generation = s.generation
         /\ t.liveness_version = s.liveness_version
         /\ t.gap_version = s.gap_version
         /\ t.transport_sequence = s.transport_sequence
         /\ t.enqueued_sequence = s.enqueued_sequence
         /\ t.durable_sequence = s.transport_sequence
         /\ t.raw_frame_sequence = s.raw_frame_sequence
         /\ t.connection = s.connection
         /\ t.authentication = s.authentication
         /\ t.subscription = s.subscription
         /\ t.rest_proof = s.rest_proof
         /\ t.catch_up_generation = s.generation
         /\ t.gaps = {}
         /\ t.consumer_closed = s.consumer_closed
         /\ t.authority_poisoned = s.authority_poisoned
         /\ t.counter_exhaustion = s.counter_exhaustion
<1>1. /\ s.transport_sequence \in TransportSequences
      /\ s.generation \in Generations
      /\ {} \in Gaps
  BY DEF UserWsStates, Gaps
<1> QED BY <1>1 DEF RecoveredState, UserWsStates

(* Every sequence up to the watermark is accounted for when the walk       *)
(* reaches it.                                                             *)
LEMMA WalkAccounted ==
  ASSUME IInv, WalkFrontier
  PROVE  /\ \A q \in 1 .. ws.transport_sequence : q \in acked \cup lost
         /\ out_of_order' \subseteq out_of_order
         /\ dropped_ranges' \subseteq dropped_ranges
<1>1. /\ ws \in UserWsStates
      /\ ws.durable_sequence \in Nat
      /\ ws.transport_sequence \in Nat
      /\ ws.durable_sequence <= ws.transport_sequence
      /\ out_of_order \subseteq acked
      /\ \A q \in 1 .. ws.durable_sequence : q \in acked \cup lost
  BY CounterTypes DEF IInv, TypeOK, FrontierInv, FrontierAccounted
<1>2. CASE /\ WalksDirectly(Cell)
           /\ out_of_order' = out_of_order
                                 \ ((ws.durable_sequence + 1) .. ws.transport_sequence)
           /\ UNCHANGED dropped_ranges
  BY <1>1, <1>2 DEF WalksDirectly, Cell, Contiguous
<1>3. ASSUME NEW to \in 0 .. TransportMax, NEW range \in dropped_ranges,
             WalksAcross(Cell, to, range),
             out_of_order' = out_of_order
                                \ (((ws.durable_sequence + 1) .. to)
                                   \cup ((AtMost(range.last, ws.transport_sequence) + 1)
                                         .. ws.transport_sequence)),
             dropped_ranges' = dropped_ranges \ {range}
      PROVE  /\ \A q \in 1 .. ws.transport_sequence : q \in acked \cup lost
             /\ out_of_order' \subseteq out_of_order
             /\ dropped_ranges' \subseteq dropped_ranges
  <2>1. /\ range.first \in 1 .. TransportMax
        /\ range.last \in 1 .. ws.transport_sequence
        /\ range.first .. range.last \subseteq lost
    BY DEF IInv, DroppedInv
  <2>2. AtMost(range.last, ws.transport_sequence) = range.last
    BY <1>1, <2>1 DEF AtMost
  <2>3. /\ Contiguous(ws.durable_sequence, to, out_of_order)
        /\ range.first <= to + 1
        /\ Contiguous(range.last, ws.transport_sequence, out_of_order)
    BY <1>3, <2>2 DEF WalksAcross, Cell, MaximalRun
  <2>4. to \in Nat /\ range.first \in Nat /\ range.last \in Nat
    BY <1>1, <2>1, CounterAssumption
  <2>5. ASSUME NEW q \in 1 .. ws.transport_sequence
        PROVE  q \in acked \cup lost
    <3>1. CASE q <= ws.durable_sequence
      BY <1>1, <3>1
    <3>2. CASE ws.durable_sequence < q /\ q <= to
      BY <1>1, <2>3, <2>4, <3>2 DEF Contiguous
    <3>3. CASE to < q /\ q <= range.last
      BY <2>1, <2>3, <2>4, <3>3
    <3>4. CASE range.last < q
      BY <1>1, <2>3, <2>4, <3>4 DEF Contiguous
    <3> QED BY <1>1, <2>4, <3>1, <3>2, <3>3, <3>4
  <2> QED BY <1>3, <2>5
<1> QED BY <1>2, <1>3 DEF WalkFrontier

LEMMA CommitAcceptedStep ==
  ASSUME IInv, NEW finalization \in prepared,
         CommitCatchUpFinalization(finalization), CommitAccepted(finalization)
  PROVE  IInv' /\ CommitStep
<1>1. /\ ws \in UserWsStates /\ ProofSound(ws)
      /\ ws' = RecoveredState(ws)
      /\ WalkFrontier
      /\ UNCHANGED <<raw_frames, acked, lost, proof_gap>>
      /\ prepared' \subseteq prepared
  BY DEF IInv, TypeOK, CommitAccepted, CommitCatchUpFinalization, history
<1>2. /\ ws' \in UserWsStates
      /\ ws'.transport_sequence = ws.transport_sequence
      /\ ws'.enqueued_sequence = ws.enqueued_sequence
      /\ ws'.durable_sequence = ws.transport_sequence
      /\ ws.transport_sequence \in Nat
  BY <1>1, RecoveredFacts, CounterTypes
<1>3. ProofSound(ws')
  BY <1>1, RecoveredFacts DEF ProofSound
<1>4. /\ \A q \in 1 .. ws.transport_sequence : q \in acked \cup lost
      /\ out_of_order' \subseteq out_of_order
      /\ dropped_ranges' \subseteq dropped_ranges
  BY <1>1, WalkAccounted
<1>5. TypeOK'
  BY <1>1, <1>2, <1>4 DEF IInv, TypeOK
<1>6. FrontierInv'
  BY <1>1, <1>2, <1>4 DEF IInv, FrontierInv, FrontierAccounted, FrontierMaximal
<1>7. DroppedInv' /\ PreparedInv'
  BY <1>1, <1>2, <1>4 DEF IInv, DroppedInv, PreparedInv
<1>8. IsReady(ws', raw_frames')
  <2>1. finalization.state = ws /\ finalization.raw_frames = raw_frames
    BY DEF CommitAccepted, Cell
  <2> QED BY <1>1, <2>1 DEF IInv, PreparedInv
<1> QED BY <1>1, <1>3, <1>5, <1>6, <1>7, <1>8 DEF IInv, CommitStep

LEMMA CommitRejectedStep ==
  ASSUME IInv, NEW finalization \in prepared,
         CommitCatchUpFinalization(finalization), CommitRejected(finalization)
  PROVE  IInv' /\ ControlStep(ws, ws')
<1>1. /\ UNCHANGED <<ws, out_of_order, dropped_ranges, raw_frames, acked, lost, proof_gap>>
      /\ prepared' \subseteq prepared
  BY DEF CommitCatchUpFinalization, CommitRejected, history
<1>2. raw_frames \subseteq 1 .. FrameMax /\ proof_gap \in GapVersions
  BY DEF IInv, TypeOK
<1> QED BY <1>1, <1>2, SameControlStep, ControlPreserves, DroppedUnchanged

LEMMA StepSound ==
  ASSUME IInv, [Next]_vars
  PROVE  IInv' /\ (ControlStep(ws, ws') \/ AckStep \/ CommitStep)
<1>1. ASSUME NEW frame \in 1 .. ws.raw_frame_sequence, RetainRawFrame(frame)
      PROVE  IInv' /\ ControlStep(ws, ws')
  BY <1>1, RetainStep
<1>2. ASSUME NEW frame \in raw_frames, AcknowledgeRawFrameDurable(frame)
      PROVE  IInv' /\ ControlStep(ws, ws')
  BY <1>2, AckFrameStep
<1>3. ASSUME NEW range \in Ranges, MarkDropped(range)
      PROVE  IInv' /\ ControlStep(ws, ws')
  BY <1>3, DroppedStep
<1>4. ASSUME NEW sequence \in 1 .. TransportMax, AcknowledgeDurable(sequence)
      PROVE  IInv' /\ (ControlStep(ws, ws') \/ AckStep)
  BY <1>4, AckRetainedStep, AckOverflowStep DEF AcknowledgeDurable
<1>5. CASE PrepareCatchUpFinalization
  BY <1>5, PrepareStep
<1>6. ASSUME NEW finalization \in prepared, CommitCatchUpFinalization(finalization)
      PROVE  IInv' /\ (ControlStep(ws, ws') \/ CommitStep)
  BY <1>6, CommitAcceptedStep, CommitRejectedStep DEF CommitCatchUpFinalization
<1>7. CASE UNCHANGED vars
  <2>1. UNCHANGED <<ws, out_of_order, dropped_ranges, raw_frames, prepared,
                    acked, lost, proof_gap>>
    BY <1>7 DEF vars
  <2>2. proof_gap \in GapVersions
    BY DEF IInv, TypeOK
  <2> QED BY <2>1, <2>2, SameControlStep, UpdatePreserves
<1> QED BY <1>1, <1>2, <1>3, <1>4, <1>5, <1>6, <1>7, UpdateStep DEF Next

-----------------------------------------------------------------------------
(* What the acknowledgement and the commit do to the state, in the terms   *)
(* of the step properties.                                                 *)

LEMMA AckStepFacts ==
  ASSUME IInv, AckStep
  PROVE  /\ Monotone(ws, ws')
         /\ ws'.gaps = ws.gaps
         /\ Dead(ws') <=> Dead(ws)
         /\ ws'.rest_proof = ws.rest_proof
<1>1. ws \in UserWsStates
  BY DEF IInv, TypeOK
<1>2. PICK to \in ws.durable_sequence .. ws.transport_sequence :
         ws' = [ws EXCEPT !.durable_sequence = to]
  BY DEF AckStep
<1>3. /\ ws'.durable_sequence = to
      /\ ws'.transport_sequence = ws.transport_sequence
      /\ ws'.enqueued_sequence = ws.enqueued_sequence
      /\ ws'.raw_frame_sequence = ws.raw_frame_sequence
      /\ ws'.generation = ws.generation
      /\ ws'.liveness_version = ws.liveness_version
      /\ ws'.gap_version = ws.gap_version
      /\ ws'.gaps = ws.gaps
      /\ ws'.rest_proof = ws.rest_proof
      /\ ws'.consumer_closed = ws.consumer_closed
      /\ ws'.authority_poisoned = ws.authority_poisoned
      /\ ws'.counter_exhaustion = ws.counter_exhaustion
  BY <1>1, <1>2 DEF UserWsStates
<1>4. ws.durable_sequence <= to
  BY <1>1, CounterTypes
<1> QED BY <1>1, <1>3, <1>4, CounterTypes DEF Monotone, Dead

LEMMA CommitStepFacts ==
  ASSUME IInv, CommitStep
  PROVE  /\ Monotone(ws, ws')
         /\ ws'.gaps = {}
         /\ ~Dead(ws') /\ ~Dead(ws)
         /\ ws'.rest_proof = ws.rest_proof
         /\ ws'.generation = ws.generation
         /\ ws'.gap_version = ws.gap_version
         /\ IsReady(ws', raw_frames')
<1>1. /\ ws \in UserWsStates
      /\ ws' = RecoveredState(ws)
      /\ IsReady(ws', raw_frames')
      /\ ws.durable_sequence <= ws.transport_sequence
  BY DEF IInv, TypeOK, FrontierInv, CommitStep
<1>2. Monotone(ws, ws')
  BY <1>1, RecoveredFacts, CounterTypes DEF Monotone
<1>3. ~Dead(ws')
  BY <1>1 DEF IsReady, ChannelAuthorityIntact
<1>4. ~Dead(ws)
  BY <1>1, <1>3, RecoveredFacts DEF Dead
<1> QED BY <1>1, <1>2, <1>3, <1>4, RecoveredFacts

-----------------------------------------------------------------------------
(* The inductive invariant holds of every behaviour: whatever the callers  *)
(* of StateCell do, the cell is well typed, its REST proof belongs to the  *)
(* current socket, its frontier is accounted for, and every finalization a *)
(* caller holds describes a cell that its commit would make ready.         *)
THEOREM InductiveInvariant == Spec => []IInv
<1>1. Init => IInv
  BY InitSound
<1>2. IInv /\ [Next]_vars => IInv'
  BY StepSound
<1> QED BY <1>1, <1>2, PTL DEF Spec

(* The state of StateCell is well typed whatever its callers do.           *)
THEOREM TypeCorrect == Spec => []TypeOK
<1>1. IInv => TypeOK
  BY DEF IInv
<1> QED BY <1>1, InductiveInvariant, PTL

(* channel_authority_intact implies a REST proof by a credential of this   *)
(* socket, in this generation, and a PONG counted after it.                *)
THEOREM ReadyIsProven == Spec => []ReadyHasLaterPong
<1>1. IInv => ReadyHasLaterPong
  BY DEF IInv, ProofSound, ReadyHasLaterPong, ChannelAuthorityIntact, NoProof
<1> QED BY <1>1, InductiveInvariant, PTL

(* The durable frontier passes only acknowledged or dropped events.        *)
THEOREM FrontierIsExact == Spec => []FrontierAccounted
<1>1. IInv => FrontierAccounted
  BY DEF IInv, FrontierInv
<1> QED BY <1>1, InductiveInvariant, PTL

(* The frontier never stops before an acknowledgement it already holds,    *)
(* whatever the order of acknowledgements, drops and commits.              *)
THEOREM FrontierNeverStuck == Spec => []FrontierMaximal
<1>1. IInv => FrontierMaximal
  BY DEF IInv, FrontierInv
<1> QED BY <1>1, InductiveInvariant, PTL

(* A closed consumer, a poisoned authority and an exhausted counter are    *)
(* for ever: no operation, commits of old finalizations included, takes    *)
(* the channel out of them.                                                *)
THEOREM DeathIsFinal == Spec => DeadIsFinal
<1>1. IInv /\ [Next]_vars => [Dead(ws) => Dead(ws')]_vars
  BY StepSound, AckStepFacts, CommitStepFacts DEF ControlStep
<1> QED BY <1>1, InductiveInvariant, PTL DEF Spec, DeadIsFinal

(* No counter goes back, so a token or a sequence is never reused.         *)
THEOREM CountersNeverGoBack == Spec => CountersMonotone
<1>1. IInv /\ [Next]_vars =>
        [/\ ws.generation <= ws'.generation
         /\ ws.liveness_version <= ws'.liveness_version
         /\ ws.gap_version <= ws'.gap_version
         /\ ws.transport_sequence <= ws'.transport_sequence
         /\ ws.enqueued_sequence <= ws'.enqueued_sequence
         /\ ws.durable_sequence <= ws'.durable_sequence
         /\ ws.raw_frame_sequence <= ws'.raw_frame_sequence]_vars
  BY StepSound, AckStepFacts, CommitStepFacts DEF ControlStep, Monotone
<1> QED BY <1>1, InductiveInvariant, PTL DEF Spec, CountersMonotone

(* The only step that clears a sticky gap is a commit of a finalization    *)
(* that describes the whole current cell, and it leaves the channel ready. *)
THEOREM OnlyCommitsClearGaps == Spec => GapsClearOnlyIntoReady
<1>1. IInv /\ [Next]_vars =>
        [~(ws.gaps \subseteq ws'.gaps) =>
            /\ IsReady(ws', raw_frames')
            /\ ws'.generation = ws.generation
            /\ ws'.gap_version = ws.gap_version
            /\ ws'.rest_proof = ws.rest_proof]_vars
  BY StepSound, AckStepFacts, CommitStepFacts DEF ControlStep
<1> QED BY <1>1, InductiveInvariant, PTL DEF Spec, GapsClearOnlyIntoReady

(* While the recovery identity stands still, nothing of what it promises   *)
(* has been lost: every abort path moves the generation or the gap         *)
(* version, or takes the identity away.                                    *)
THEOREM EveryAbortMovesIdentity == Spec => AbortsMoveIdentity
<1>1. IInv /\ [Next]_vars =>
        [SameIdentity =>
            /\ ws'.gaps \subseteq ws.gaps
            /\ Dead(ws') => Dead(ws)
            /\ ws.rest_proof # NoProof => ws'.rest_proof # NoProof]_vars
  BY StepSound, AckStepFacts, CommitStepFacts
     DEF ControlStep, IdentityMoves, SameIdentity
<1> QED BY <1>1, InductiveInvariant, PTL DEF Spec, AbortsMoveIdentity

=============================================================================

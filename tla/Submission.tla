----------------------------- MODULE Submission -----------------------------
(***************************************************************************)
(* Order submission: the SubmissionController of clob/submission.rs, the   *)
(* ProtocolSubmissionGate and the submission paths of clob/client.rs, and  *)
(* the recovery that closes, rebuilds and reopens both.                    *)
(*                                                                         *)
(* A submission goes through the places between its awaits.  Locks are not *)
(* variables: the fence, the serial section and the client guard are held  *)
(* in sets of places (Fenced, Serial, Guarding), and authority_refresh is  *)
(* held while refresh is not idle.                                         *)
(*                                                                         *)
(* Abstractions.  A protocol authority is its generation; what the venue   *)
(* answers to a version request is a choice.  Consecutive checks without   *)
(* an await between them are one step.  Orders have no content.            *)
(***************************************************************************)
EXTENDS Naturals, FiniteSets

CONSTANTS
    Submitters,      \* tasks in submit_fak, submit_gtc_*, submit_prepared
    Preparers,       \* tasks in prepare_fak, prepare_gtc_*
    EpochMax,        \* the largest revocation_epoch, u64::MAX in the code
    GenerationMax,   \* the largest protocol generation, u64::MAX in the code
    MaxTries         \* RetryPolicy::max_attempts

ASSUME SubmissionAssumption ==
    /\ EpochMax \in Nat
    /\ GenerationMax \in Nat
    /\ MaxTries \in Nat \ {0}
    /\ Submitters \cap Preparers = {}

VARIABLES
    epoch,           \* revocation_epoch
    poisoned,        \* SubmissionControllerState::poisoned
    active,          \* the active authority, generation 0 for None
    gate,            \* ProtocolSubmissionState
    quarantined,     \* quarantined_through_generation
    installed,       \* generation of the installed client, 0 for None
    refresh,         \* what the holder of authority_refresh does
    lease,           \* SubmissionActivationLease
    barrier,         \* the epoch the recovery captured
    call,            \* one submission or preparation per task
    unknown          \* history: generations with an ambiguous POST

controller == <<epoch, poisoned, active>>
latch == <<gate, quarantined>>
recovery == <<installed, refresh, lease, barrier>>
vars == <<controller, latch, recovery, call, unknown>>

-----------------------------------------------------------------------------

Callers == Submitters \cup Preparers

Generations == 0 .. GenerationMax

None == [epoch |-> 0, generation |-> 0]

Closed == [at |-> "closed", generation |-> 0]

Resting == [at |-> "idle", tries |-> 0, epoch |-> 0, generation |-> 0, permit |-> 0]

(* "signed" and before: no byte was sent.  "posted": the POST is out.      *)
Guarding == {"guarded", "building", "signing", "signed", "posted", "settling",
             "limited", "revoking"}
Serial == Guarding \cup {"permitted"}
Fenced == Serial \cup {"queued"}
Places == Fenced \cup {"idle", "authorizing", "waiting", "backoff"}

Settling == {"settling", "limited", "revoking"}

(* Who holds which lock; a preparation has no capability, so no fence.     *)
HoldsFence(c) == c \in Submitters /\ call[c].at \in Fenced
SerialFree == \A c \in Callers : call[c].at \notin Serial
ClientFree == \A c \in Callers : call[c].at \notin Guarding

Init ==
    /\ epoch = 0
    /\ poisoned = FALSE
    /\ active = None
    /\ gate = Closed
    /\ quarantined = 0
    /\ installed = 0
    /\ refresh = "idle"
    /\ lease = "none"
    /\ barrier = 0
    /\ call = [c \in Callers |-> Resting]
    /\ unknown = {}

-----------------------------------------------------------------------------
(* ProtocolSubmissionGate.                                                 *)

Higher(a, b) == IF a < b THEN b ELSE a

Matches(generation) ==
    /\ gate = [at |-> "active", generation |-> generation]
    /\ generation > quarantined

(* Variant: closing the latch forgets an indeterminate POST.               *)
CloseForgets ==
    /\ gate' = Closed
    /\ quarantined' = Higher(quarantined, gate.generation)

CloseGate ==
    IF gate.at = "active"
    THEN gate' = Closed /\ quarantined' = Higher(quarantined, gate.generation)
    ELSE UNCHANGED latch

Quarantine(generation) ==
    /\ quarantined' = Higher(quarantined, generation)
    /\ gate' = IF gate.at = "indeterminate" THEN gate ELSE Closed

MarkIndeterminate(generation) ==
    /\ quarantined' = Higher(quarantined, generation)
    /\ gate' = [at |-> "indeterminate", generation |-> generation]

CanActivate(generation) == generation > quarantined /\ gate.at # "active"

-----------------------------------------------------------------------------
(* SubmissionController.                                                   *)

Revoke ==
    /\ active' = None
    /\ IF epoch < EpochMax
       THEN epoch' = epoch + 1 /\ UNCHANGED poisoned
       ELSE poisoned' = TRUE /\ UNCHANGED epoch

Poison ==
    /\ poisoned' = TRUE
    /\ active' = None
    /\ UNCHANGED epoch

(* SubmissionAttemptAuthority::revalidate.                                 *)
Authorized(c) ==
    /\ ~poisoned
    /\ epoch = call[c].epoch
    /\ active = [epoch |-> call[c].epoch, generation |-> call[c].generation]
    /\ call[c].generation = call[c].permit

Move(c, place) == call' = [call EXCEPT ![c].at = place]

Finish(c) == call' = [call EXCEPT ![c] = Resting]

-----------------------------------------------------------------------------
(* One attempt: authorize_attempt, then attempt_fn of retry_post_order.    *)

Start(c) ==
    /\ call[c].at = "idle"
    /\ IF c \in Submitters
       THEN call' = [call EXCEPT ![c].at = "authorizing", ![c].tries = 1]
       ELSE Move(c, "waiting")
    /\ UNCHANGED <<controller, latch, recovery, unknown>>

(* authorize_if, once the shared fence is held: not while a closer holds   *)
(* it or waits for it.  The engine's own checks may refuse, or panic.      *)
Minted(s, generation) ==
    call' = [call EXCEPT ![s].at = "queued",
                         ![s].epoch = epoch,
                         ![s].generation = generation]

(* Variant: a capability may overtake a closer that waits.                 *)
AuthorizeOvertaking(s, generation) ==
    /\ call[s].at = "authorizing"
    /\ lease # "held"
    /\ IF ~poisoned /\ active = [epoch |-> epoch, generation |-> generation]
       THEN Minted(s, generation) /\ UNCHANGED controller
       ELSE Finish(s) /\ Revoke
    /\ UNCHANGED <<latch, recovery, unknown>>

Authorize(s, generation) ==
    /\ call[s].at = "authorizing"
    /\ lease = "none"
    /\ \/ /\ poisoned
          /\ active' = None
          /\ UNCHANGED <<epoch, poisoned>>
          /\ Finish(s)
       \/ /\ ~poisoned
          /\ active = [epoch |-> epoch, generation |-> generation]
          /\ Minted(s, generation)
          /\ UNCHANGED controller
       \/ /\ ~poisoned
          /\ Revoke
          /\ Finish(s)
       \/ /\ Poison
          /\ Finish(s)
    /\ UNCHANGED <<latch, recovery, unknown>>

(* submission_client takes the permit once the serial section is free.     *)
(* Variant: there is no serial section.                                    *)
TakePermitUnserialized(c) ==
    /\ call[c].at = IF c \in Submitters THEN "queued" ELSE "waiting"
    /\ IF gate.at = "active"
       THEN call' = [call EXCEPT ![c].at = "permitted", ![c].permit = gate.generation]
       ELSE Finish(c)
    /\ UNCHANGED <<controller, latch, recovery, unknown>>

TakePermit(c) ==
    /\ call[c].at = IF c \in Submitters THEN "queued" ELSE "waiting"
    /\ SerialFree
    /\ IF gate.at = "active"
       THEN call' = [call EXCEPT ![c].at = "permitted", ![c].permit = gate.generation]
       ELSE Finish(c)
    /\ UNCHANGED <<controller, latch, recovery, unknown>>

ReadClient(c) ==
    /\ call[c].at = "permitted"
    /\ Move(c, "guarded")
    /\ UNCHANGED <<controller, latch, recovery, unknown>>

(* A check of the authority against the guarded client, the version the    *)
(* venue reports and the latch; a submission also revalidates its          *)
(* capability.                                                             *)
Unchanged(c) ==
    /\ installed = call[c].permit
    /\ Matches(call[c].permit)
    /\ c \in Submitters => Authorized(c)

Refused(c) ==
    /\ Quarantine(call[c].permit)
    /\ Finish(c)
    /\ UNCHANGED <<controller, recovery, unknown>>

Fails(c) ==
    /\ Finish(c)
    /\ UNCHANGED <<controller, latch, recovery, unknown>>

Passes(c, place) ==
    /\ Move(c, place)
    /\ UNCHANGED <<controller, latch, recovery, unknown>>

(* submission_client's check, then the one before signing.  A prepared     *)
(* order is not signed again; a version that differs refuses.  A 429 of a  *)
(* version read or of the build is retried like one of the POST.           *)
Check(c, from, to) ==
    /\ call[c].at = from
    /\ \/ Unchanged(c) /\ Passes(c, to)
       \/ c \in Submitters /\ Passes(c, "backoff")
       \/ Refused(c)
       \/ Fails(c)

FirstCheck(c) == Check(c, "guarded", "building")

SecondCheck(s) ==
    \/ Check(s, "building", "signing")
    \/ Check(s, "building", "signed")

Sign(s) ==
    /\ call[s].at = "signing"
    /\ \/ Matches(call[s].permit) /\ Passes(s, "signed")
       \/ ~Matches(call[s].permit) /\ Refused(s)
       \/ Fails(s)

(* prepare_limit_order builds, signs and posts nothing.                    *)
FinishPreparation(p) ==
    /\ call[p].at = "building"
    /\ \/ ~Matches(call[p].permit) /\ Refused(p)
       \/ Fails(p)

(* poll_first_transport, under the mutex that revocation takes.            *)
(* Variant: the capability is not checked again.                           *)
FirstPollUnchecked(s) ==
    /\ call[s].at = "signed"
    /\ Passes(s, "posted")

FirstPoll(s) ==
    /\ call[s].at = "signed"
    /\ \/ Authorized(s) /\ Passes(s, "posted")
       \/ ~Authorized(s) /\ Refused(s)
       \/ /\ Authorized(s)
          /\ Poison
          /\ Finish(s)
          /\ UNCHANGED <<latch, recovery, unknown>>

(* Nothing tells whether the venue took the order.                         *)
AmbiguousResponse(s) ==
    /\ call[s].at = "posted"
    /\ MarkIndeterminate(call[s].permit)
    /\ unknown' = unknown \cup {call[s].permit}
    /\ Finish(s)
    /\ UNCHANGED <<controller, recovery>>

(* Accepted or rejected, rate limited, or a rejection of the authority.    *)
DefiniteResponse(s) ==
    /\ call[s].at = "posted"
    /\ \E answer \in Settling : Move(s, answer)
    /\ UNCHANGED <<controller, latch, recovery, unknown>>

(* The version is read once more; the answer stands either way.            *)
Settle(s) ==
    /\ call[s].at \in Settling
    /\ IF call[s].at = "limited" THEN Move(s, "backoff") ELSE Finish(s)
    /\ \/ call[s].at # "revoking" /\ Matches(call[s].permit) /\ UNCHANGED latch
       \/ Quarantine(call[s].permit)
    /\ UNCHANGED <<controller, recovery, unknown>>

(* Variant: one attempt too many.                                          *)
RetryOnceMore(s) ==
    /\ call[s].at = "backoff"
    /\ call[s].tries <= MaxTries
    /\ call' = [call EXCEPT ![s] = [Resting EXCEPT !.at = "authorizing",
                                                   !.tries = call[s].tries + 1]]
    /\ UNCHANGED <<controller, latch, recovery, unknown>>

Retry(s) ==
    /\ call[s].at = "backoff"
    /\ IF gate.at = "active" /\ call[s].tries < MaxTries
       THEN call' = [call EXCEPT ![s] = [Resting EXCEPT !.at = "authorizing",
                                                        !.tries = call[s].tries + 1]]
       ELSE Finish(s)
    /\ UNCHANGED <<controller, latch, recovery, unknown>>

(* The caller drops the future where it waits.                             *)
Abandon(c) ==
    /\ call[c].at \notin {"idle", "signed"}
    /\ Fails(c)

SubmitterStep(s) ==
    \/ \E generation \in 1 .. installed : Authorize(s, generation)
    \/ ReadClient(s)
    \/ FirstCheck(s)
    \/ SecondCheck(s)
    \/ Sign(s)
    \/ FirstPoll(s)
    \/ AmbiguousResponse(s)
    \/ DefiniteResponse(s)
    \/ Settle(s)
    \/ Retry(s)

PreparerStep(p) == ReadClient(p) \/ FirstCheck(p) \/ FinishPreparation(p)

-----------------------------------------------------------------------------
(* Recovery: the engine revokes, drains, refreshes and reopens.            *)

RequestRevocation ==
    /\ Revoke
    /\ UNCHANGED <<latch, recovery, call, unknown>>

RevokeProtocolAuthority ==
    /\ CloseGate
    /\ UNCHANGED <<controller, recovery, call, unknown>>

RequestExclusive ==
    /\ lease = "none"
    /\ lease' = "waiting"
    /\ barrier' = epoch
    /\ UNCHANGED <<controller, latch, installed, refresh, call, unknown>>

(* Variant: the fence is not held across the POST.                         *)
AcquireWithoutDrain ==
    /\ lease = "waiting"
    /\ \A s \in Submitters : call[s].at \notin Fenced \ (Settling \cup {"posted"})
    /\ lease' = "held"
    /\ UNCHANGED <<controller, latch, installed, refresh, barrier, call, unknown>>

AcquireExclusive ==
    /\ lease = "waiting"
    /\ \A s \in Submitters : ~HoldsFence(s)
    /\ lease' = "held"
    /\ UNCHANGED <<controller, latch, installed, refresh, barrier, call, unknown>>

ReleaseExclusive ==
    /\ lease = "held"
    /\ lease' = "none"
    /\ UNCHANGED <<controller, latch, installed, refresh, barrier, call, unknown>>

Refreshing(place) ==
    /\ refresh' = place
    /\ UNCHANGED <<lease, barrier, unknown>>

(* Variant: the latch stays open while the client is rebuilt.              *)
StartRefreshOpen ==
    /\ refresh = "idle"
    /\ Refreshing("building")
    /\ UNCHANGED <<controller, latch, installed, call>>

StartRefresh ==
    /\ refresh = "idle"
    /\ CloseGate
    /\ Refreshing("building")
    /\ UNCHANGED <<controller, installed, call>>

(* Variant: the client is replaced under a submission that reads it.       *)
InstallUnderReaders ==
    /\ refresh = "building"
    /\ installed < GenerationMax
    /\ installed' = installed + 1
    /\ Refreshing("idle")
    /\ UNCHANGED <<controller, latch, call>>

FinishRefresh ==
    /\ refresh = "building"
    /\ \/ UNCHANGED installed
       \/ /\ installed < GenerationMax
          /\ ClientFree
          /\ installed' = installed + 1
    /\ Refreshing("idle")
    /\ UNCHANGED <<controller, latch, call>>

StartActivation ==
    /\ refresh = "idle"
    /\ installed # 0
    /\ Refreshing("checking")
    /\ UNCHANGED <<controller, latch, installed, call>>

(* SubmissionActivationLease::activate, called by the engine's closure.    *)
(* Variant: what was revoked since the barrier is not asked for.           *)
LeaseActivatesAnyway ==
    /\ lease = "held"
    /\ ~poisoned
    /\ active = None

LeaseActivates ==
    /\ lease = "held"
    /\ ~poisoned
    /\ epoch = barrier
    /\ active = None

FinishActivation ==
    /\ refresh = "checking"
    /\ \/ /\ CanActivate(installed)
          /\ LeaseActivates
          /\ active' = [epoch |-> epoch, generation |-> installed]
          /\ gate' = [at |-> "active", generation |-> installed]
       \/ UNCHANGED <<active, gate>>
    /\ Refreshing("idle")
    /\ UNCHANGED <<epoch, poisoned, quarantined, installed, call>>

RecoveryStep ==
    \/ RequestRevocation
    \/ RevokeProtocolAuthority
    \/ RequestExclusive
    \/ AcquireExclusive
    \/ ReleaseExclusive
    \/ StartRefresh
    \/ FinishRefresh
    \/ StartActivation
    \/ FinishActivation

-----------------------------------------------------------------------------

Next ==
    \/ \E c \in Callers : Start(c) \/ TakePermit(c) \/ Abandon(c)
    \/ \E s \in Submitters : SubmitterStep(s)
    \/ \E p \in Preparers : PreparerStep(p)
    \/ RecoveryStep

Spec == Init /\ [][Next]_vars

(* Every request is answered or fails, a free fence is granted, and the    *)
(* serial section is handed out in the order of arrival.                   *)
FairSpec ==
    /\ Spec
    /\ \A c \in Callers : SF_vars(TakePermit(c))
    /\ \A s \in Submitters : WF_vars(SubmitterStep(s))
    /\ \A p \in Preparers : WF_vars(PreparerStep(p))
    /\ WF_vars(AcquireExclusive)

-----------------------------------------------------------------------------
(* Properties.                                                             *)

Calls == [at : Places, tries : 0 .. MaxTries, epoch : 0 .. EpochMax,
          generation : Generations, permit : Generations]

(* Every variable has its type.                                            *)
TypeOK ==
    /\ epoch \in 0 .. EpochMax
    /\ poisoned \in BOOLEAN
    /\ active \in [epoch : 0 .. EpochMax, generation : Generations]
    /\ gate \in [at : {"closed", "active", "indeterminate"}, generation : Generations]
    /\ quarantined \in Generations
    /\ installed \in Generations
    /\ refresh \in {"idle", "building", "checking"}
    /\ lease \in {"none", "waiting", "held"}
    /\ barrier \in 0 .. EpochMax
    /\ call \in [Callers -> Calls]
    /\ unknown \subseteq Generations

(* The latch is only ever open for the client that is installed, and never *)
(* for a generation that was quarantined, although a stale submission, a   *)
(* refresh and an activation move the two under different locks            *)
(* (client.rs, ProtocolSubmissionGate).                                    *)
OpenMatchesInstalled ==
    gate.at = "active" =>
        /\ gate.generation = installed
        /\ gate.generation > quarantined

(* A submission that holds the venue's attention uses the client its       *)
(* permit named: no refresh replaced it under the POST.                    *)
PostedByInstalled ==
    \A s \in Submitters : call[s].at \in Settling \cup {"signed", "posted"} =>
        call[s].permit = installed /\ call[s].generation = installed

(* While the exclusive lease is held no POST is out and none is about to   *)
(* be (submission.rs: drain every capability minted before this boundary). *)
LeaseMeansDrained ==
    lease = "held" => \A s \in Submitters : call[s].at \notin Fenced

Begins(s) == call[s].at # "posted" /\ call'[s].at = "posted"

(* No POST begins under a generation that has an ambiguous POST: the       *)
(* serial section lets the latch close first (doc comment of ClobClient).  *)
AmbiguityBlocksPost ==
    [][\A s \in Submitters : Begins(s) => call[s].permit \notin unknown]_vars

(* A POST begins only under the epoch of the controller: a revocation that *)
(* came first leaves the transport without a poll.                         *)
RevocationBlocksPost ==
    [][\A s \in Submitters : Begins(s) => ~poisoned /\ call[s].epoch = epoch]_vars

(* An indeterminate latch is reopened by a newer generation only.          *)
IndeterminateIsSticky ==
    [][gate.at = "indeterminate" =>
          \/ gate' = gate
          \/ gate'.generation > gate.generation]_vars

(* A closer is not kept waiting by submissions that keep coming.           *)
ExclusiveGranted == lease = "waiting" ~> lease = "held"

-----------------------------------------------------------------------------
(* Refinement: controller, latch, fence, serial section and client guard   *)
(* together are the authority of PostingAuthority.                         *)

Posting == {s \in Submitters : call[s].at \in Settling \cup {"posted"}}

Authority == INSTANCE PostingAuthority
                 WITH Tasks <- Submitters, client <- installed,
                      authority <- active.generation, halted <- poisoned,
                      drain <- lease, fresh <- (epoch = barrier),
                      posting <- Posting

(* Every step of submission and recovery is a step of the abstract         *)
(* authority, or is invisible to it: an authority is granted on a drained  *)
(* fence if nothing was revoked since the barrier (submission.rs), and     *)
(* one POST at a time is begun under it (client.rs).                       *)
ImplementsPostingAuthority == Authority!Spec

=============================================================================

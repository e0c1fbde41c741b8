-------------------------- MODULE Submission_proofs --------------------------
(***************************************************************************)
(* Machine-checked theorems about Submission, for every number of tasks,   *)
(* epochs, generations and attempts.                                       *)
(***************************************************************************)
EXTENDS Submission, TLAPS

-----------------------------------------------------------------------------
(* The inductive invariant.                                                *)

(* Places a submission reaches only after a check under the client guard.  *)
Checked == {"building", "signing", "signed", "posted"} \cup Settling

(* The latch against the installed client, the refresh and the history of  *)
(* ambiguous POSTs.                                                        *)
LatchSound ==
    /\ OpenMatchesInstalled
    /\ refresh = "building" => gate.at # "active"
    /\ gate.at = "indeterminate" =>
          gate.generation <= quarantined /\ gate.generation <= installed
    /\ \A generation \in unknown : generation <= quarantined

(* What a submission or preparation may rely on in its place.              *)
PlaceSound(c) ==
    /\ call[c].at \in Serial => call[c].permit \notin unknown
    /\ c \in Submitters /\ call[c].at \in Checked =>
          call[c].permit = installed /\ call[c].generation = installed
    /\ c \in Submitters /\ lease = "held" => call[c].at \notin Fenced

SerialExclusive ==
    \A c, d \in Callers : call[c].at \in Serial /\ call[d].at \in Serial => c = d

CallsSound == SerialExclusive /\ \A c \in Callers : PlaceSound(c)

IInv == TypeOK /\ LatchSound /\ CallsSound

-----------------------------------------------------------------------------
(* Values and updates.                                                     *)

(* The values the actions assign have the types of their variables.        *)
LEMMA ValueTypes ==
  /\ 0 \in Generations
  /\ 0 \in 0 .. EpochMax
  /\ None \in [epoch : 0 .. EpochMax, generation : Generations]
  /\ Closed \in [at : {"closed", "active", "indeterminate"}, generation : Generations]
  /\ Resting \in Calls
<1>1. 0 \in Generations /\ 0 \in 0 .. EpochMax /\ 0 \in 0 .. MaxTries
  BY SubmissionAssumption DEF Generations
<1>2. "idle" \in Places
  BY DEF Places
<1> QED BY <1>1, <1>2 DEF None, Closed, Resting, Calls

(* The places are nested: what is served exclusively is fenced.            *)
LEMMA PlaceFacts ==
  /\ Guarding \subseteq Serial
  /\ Serial \subseteq Fenced
  /\ Fenced \subseteq Places
  /\ Checked \subseteq Guarding
  /\ "idle" \in Places \ Fenced
  /\ "authorizing" \in Places \ Fenced
  /\ "waiting" \in Places \ Fenced
  /\ "backoff" \in Places \ Fenced
BY DEF Guarding, Serial, Fenced, Places, Checked, Settling

LEMMA CallUpdate ==
  ASSUME TypeOK, NEW c \in Callers, NEW r \in Calls,
         call' = [call EXCEPT ![c] = r]
  PROVE  /\ call' \in [Callers -> Calls]
         /\ call'[c] = r
         /\ \A d \in Callers : d # c => call'[d] = call[d]
BY DEF TypeOK

LEMMA CallMoved ==
  ASSUME TypeOK, NEW c \in Callers, NEW place \in Places, Move(c, place)
  PROVE  LET r == [call[c] EXCEPT !.at = place]
         IN /\ r \in Calls
            /\ call' = [call EXCEPT ![c] = r]
            /\ r.at = place
            /\ r.permit = call[c].permit
            /\ r.generation = call[c].generation
BY DEF TypeOK, Move, Calls

LEMMA CallFields ==
  ASSUME TypeOK, NEW c \in Callers
  PROVE  /\ call[c] \in Calls
         /\ call[c].at \in Places
         /\ call[c].tries \in 0 .. MaxTries
         /\ call[c].epoch \in 0 .. EpochMax
         /\ call[c].generation \in Generations
         /\ call[c].permit \in Generations
BY DEF TypeOK, Calls

LEMMA HigherFacts ==
  ASSUME NEW a \in Generations, NEW b \in Generations
  PROVE  /\ Higher(a, b) \in Generations
         /\ a <= Higher(a, b)
         /\ b <= Higher(a, b)
BY SubmissionAssumption DEF Higher, Generations

LEMMA RevokeTypes ==
  ASSUME TypeOK, Revoke \/ Poison
  PROVE  /\ epoch' \in 0 .. EpochMax
         /\ poisoned' \in BOOLEAN
         /\ active' \in [epoch : 0 .. EpochMax, generation : Generations]
<1>1. epoch' = epoch \/ (epoch < EpochMax /\ epoch' = epoch + 1)
  BY DEF Revoke, Poison
<1>2. epoch' \in 0 .. EpochMax
  BY <1>1, SubmissionAssumption DEF TypeOK
<1>3. poisoned' = poisoned \/ poisoned' = TRUE
  BY DEF Revoke, Poison
<1>4. poisoned' \in BOOLEAN
  BY <1>3 DEF TypeOK
<1>5. active' = None
  BY DEF Revoke, Poison
<1> QED BY <1>2, <1>4, <1>5, ValueTypes

-----------------------------------------------------------------------------
(* The latch: closing it, raising the quarantine or marking an ambiguous   *)
(* POST keeps it sound.                                                    *)

LatchTypes ==
    /\ gate \in [at : {"closed", "active", "indeterminate"}, generation : Generations]
    /\ quarantined \in Generations

LEMMA CloseGateSound ==
  ASSUME TypeOK, LatchSound, CloseGate, UNCHANGED <<installed, unknown>>
  PROVE  LatchTypes' /\ LatchSound' /\ gate'.at # "active"
<1>1. /\ gate.generation \in Generations
      /\ quarantined \in Generations
      /\ unknown \subseteq Generations
  BY DEF TypeOK
<1>2. gate'.at # "active"
  BY ValueTypes DEF CloseGate, Closed, latch
<1>3. LatchTypes' /\ quarantined <= quarantined'
  <2>1. CASE gate.at = "active"
    <3>1. gate' = Closed /\ quarantined' = Higher(quarantined, gate.generation)
      BY <2>1 DEF CloseGate
    <3> QED BY <1>1, <3>1, ValueTypes, HigherFacts DEF LatchTypes
  <2>2. CASE gate.at # "active"
    <3>1. gate' = gate /\ quarantined' = quarantined
      BY <2>2 DEF CloseGate, latch
    <3> QED BY <1>1, <3>1 DEF LatchTypes, TypeOK, Generations
  <2> QED BY <2>1, <2>2
<1>4. gate'.at = "indeterminate" => gate' = gate /\ quarantined' = quarantined
  BY DEF CloseGate, Closed, latch
<1> QED BY <1>1, <1>2, <1>3, <1>4 DEF LatchSound, OpenMatchesInstalled, LatchTypes, Generations

LEMMA QuarantineSound ==
  ASSUME TypeOK, LatchSound, NEW g \in Generations, Quarantine(g),
         UNCHANGED <<installed, refresh, unknown>>
  PROVE  LatchTypes' /\ LatchSound'
<1>1. quarantined \in Generations /\ unknown \subseteq Generations
      /\ gate.generation \in Generations /\ installed \in Generations
  BY DEF TypeOK
<1>2. quarantined' \in Generations /\ quarantined <= quarantined'
  BY <1>1, HigherFacts DEF Quarantine
<1>3. gate' = gate \/ gate' = Closed
  BY DEF Quarantine
<1>4. gate'.at # "active"
  BY DEF Quarantine, Closed
<1>5. LatchTypes'
  BY <1>2, <1>3, ValueTypes DEF LatchTypes, TypeOK
<1>6. gate'.at = "indeterminate" => gate' = gate
  BY <1>3 DEF Closed
<1> QED BY <1>1, <1>2, <1>4, <1>5, <1>6
        DEF LatchSound, OpenMatchesInstalled, Generations

LEMMA IndeterminateSound ==
  ASSUME TypeOK, LatchSound, NEW g \in Generations, g <= installed,
         MarkIndeterminate(g), unknown' = unknown \cup {g},
         UNCHANGED <<installed, refresh>>
  PROVE  LatchTypes' /\ LatchSound'
<1>1. quarantined \in Generations /\ unknown \subseteq Generations
  BY DEF TypeOK
<1>2. quarantined' \in Generations /\ quarantined <= quarantined' /\ g <= quarantined'
  BY <1>1, HigherFacts DEF MarkIndeterminate
<1>3. gate'.at = "indeterminate" /\ gate'.generation = g
  BY DEF MarkIndeterminate
<1>4. LatchTypes'
  BY <1>2 DEF LatchTypes, MarkIndeterminate
<1> QED BY <1>1, <1>2, <1>3, <1>4 DEF LatchSound, OpenMatchesInstalled, Generations

-----------------------------------------------------------------------------
(* One caller moves: the others keep what they rely on, also when the      *)
(* mover records an ambiguous POST, because nobody else is in the serial   *)
(* section.                                                                *)

LEMMA OneCallMoves ==
  ASSUME TypeOK, CallsSound, NEW c \in Callers, NEW r \in Calls,
         call' = [call EXCEPT ![c] = r],
         UNCHANGED <<installed, lease>>,
         unknown' = unknown \/ call[c].at \in Serial,
         r.at \in Serial => call[c].at \in Serial \/ SerialFree,
         r.at \in Serial => r.permit \notin unknown',
         c \in Submitters /\ r.at \in Checked =>
             r.permit = installed /\ r.generation = installed,
         c \in Submitters /\ lease = "held" => r.at \notin Fenced
  PROVE  CallsSound'
<1>1. /\ call'[c] = r
      /\ \A d \in Callers : d # c => call'[d] = call[d]
  BY CallUpdate
<1>2. \A d \in Callers : d # c /\ r.at \in Serial => call[d].at \notin Serial
  BY DEF CallsSound, SerialExclusive, SerialFree
<1>3. SerialExclusive'
  BY <1>1, <1>2 DEF CallsSound, SerialExclusive
<1>4. PlaceSound(c)'
  BY <1>1 DEF PlaceSound
<1>5. ASSUME NEW d \in Callers, d # c
      PROVE  PlaceSound(d)'
  <2>1. call[d].at \in Serial => unknown' = unknown
    BY <1>5 DEF CallsSound, SerialExclusive
  <2> QED BY <1>1, <1>5, <2>1 DEF CallsSound, PlaceSound
<1> QED BY <1>3, <1>4, <1>5 DEF CallsSound

(* A caller that ends its call relies on nothing.                          *)
LEMMA CallEnds ==
  ASSUME TypeOK, CallsSound, NEW c \in Callers, Finish(c),
         UNCHANGED <<installed, lease>>,
         unknown' = unknown \/ call[c].at \in Serial
  PROVE  CallsSound' /\ call' \in [Callers -> Calls]
<1>1. Resting \in Calls /\ call' = [call EXCEPT ![c] = Resting]
  BY ValueTypes DEF Finish
<1>2. Resting.at \notin Fenced /\ Resting.at \notin Serial /\ Resting.at \notin Checked
  BY PlaceFacts DEF Resting
<1> QED BY <1>1, <1>2, OneCallMoves, CallUpdate

(* A caller that stays in the serial section.                              *)
LEMMA SerialMove ==
  ASSUME TypeOK, CallsSound, NEW c \in Callers, NEW place \in Places,
         call[c].at \in Serial, Move(c, place),
         UNCHANGED <<installed, lease, unknown>>,
         c \in Submitters /\ place \in Checked =>
             call[c].permit = installed /\ call[c].generation = installed
  PROVE  CallsSound' /\ call' \in [Callers -> Calls]
<1> DEFINE r == [call[c] EXCEPT !.at = place]
<1>1. /\ r \in Calls
      /\ call' = [call EXCEPT ![c] = r]
      /\ r.at = place
      /\ r.permit = call[c].permit
      /\ r.generation = call[c].generation
  BY CallMoved
<1>2. call[c].permit \notin unknown
  BY DEF CallsSound, PlaceSound
<1>3. c \in Submitters => lease # "held"
  BY PlaceFacts DEF CallsSound, PlaceSound
<1>4. CallsSound'
  <2> HIDE DEF r
  <2> QED BY <1>1, <1>2, <1>3, OneCallMoves
<1>5. call' \in [Callers -> Calls]
  <2> HIDE DEF r
  <2> QED BY <1>1, CallUpdate
<1> QED BY <1>4, <1>5


-----------------------------------------------------------------------------
(* Assembling the invariant after a step.                                  *)

ControllerTypes ==
    /\ epoch \in 0 .. EpochMax
    /\ poisoned \in BOOLEAN
    /\ active \in [epoch : 0 .. EpochMax, generation : Generations]

LEMMA ControllerKept ==
  ASSUME TypeOK, UNCHANGED controller
  PROVE  ControllerTypes'
BY DEF TypeOK, ControllerTypes, controller

LEMMA LatchKept ==
  ASSUME TypeOK, LatchSound, UNCHANGED <<latch, installed, refresh, unknown>>
  PROVE  LatchTypes' /\ LatchSound'
BY DEF TypeOK, LatchTypes, LatchSound, OpenMatchesInstalled, latch

LEMMA CallsKept ==
  ASSUME CallsSound, UNCHANGED <<call, installed, lease, unknown>>
  PROVE  CallsSound'
BY DEF CallsSound, SerialExclusive, PlaceSound

LEMMA CallerStepSound ==
  ASSUME IInv, ControllerTypes', LatchTypes', LatchSound', CallsSound',
         call' \in [Callers -> Calls], UNCHANGED recovery,
         unknown' \subseteq Generations
  PROVE  IInv'
<1>1. /\ installed' = installed
      /\ refresh' = refresh
      /\ lease' = lease
      /\ barrier' = barrier
  BY DEF recovery
<1>2. TypeOK'
  BY <1>1 DEF IInv, TypeOK, ControllerTypes, LatchTypes
<1> QED BY <1>2 DEF IInv

LEMMA UnknownTyped ==
  ASSUME TypeOK, UNCHANGED unknown
  PROVE  unknown' \subseteq Generations
BY DEF TypeOK

(* The three ways a check ends.                                            *)
LEMMA PassesSound ==
  ASSUME IInv, NEW c \in Callers, NEW place \in Places,
         call[c].at \in Serial, Passes(c, place),
         c \in Submitters /\ place \in Checked =>
             call[c].permit = installed /\ call[c].generation = installed
  PROVE  IInv'
<1>1. ControllerTypes'
  BY ControllerKept DEF IInv, Passes
<1>2. LatchTypes' /\ LatchSound'
  BY LatchKept DEF IInv, Passes, recovery
<1>3. CallsSound' /\ call' \in [Callers -> Calls]
  BY SerialMove DEF IInv, Passes, recovery
<1> QED BY <1>1, <1>2, <1>3, CallerStepSound, UnknownTyped DEF IInv, Passes

LEMMA RefusedSound ==
  ASSUME IInv, NEW c \in Callers, Refused(c)
  PROVE  IInv'
<1>1. ControllerTypes'
  BY ControllerKept DEF IInv, Refused
<1>2. LatchTypes' /\ LatchSound'
  BY CallFields, QuarantineSound DEF IInv, Refused, recovery
<1>3. CallsSound' /\ call' \in [Callers -> Calls]
  BY CallEnds DEF IInv, Refused, recovery
<1> QED BY <1>1, <1>2, <1>3, CallerStepSound, UnknownTyped DEF IInv, Refused

LEMMA FailsSound ==
  ASSUME IInv, NEW c \in Callers, Fails(c)
  PROVE  IInv'
<1>1. ControllerTypes'
  BY ControllerKept DEF IInv, Fails
<1>2. LatchTypes' /\ LatchSound'
  BY LatchKept DEF IInv, Fails, recovery
<1>3. CallsSound' /\ call' \in [Callers -> Calls]
  BY CallEnds DEF IInv, Fails, recovery
<1> QED BY <1>1, <1>2, <1>3, CallerStepSound, UnknownTyped DEF IInv, Fails

(* A call that starts, waits for its capability or starts again is outside *)
(* the serial section.                                                     *)
LEMMA OutsideSound ==
  ASSUME IInv, NEW c \in Callers, NEW r \in Calls,
         call' = [call EXCEPT ![c] = r],
         r.at \notin Serial,
         r.at \in Fenced => lease # "held",
         UNCHANGED <<controller, latch, recovery, unknown>>
  PROVE  IInv'
<1>1. ControllerTypes'
  BY ControllerKept DEF IInv
<1>2. LatchTypes' /\ LatchSound'
  BY LatchKept DEF IInv, recovery
<1>3. r.at \notin Checked
  BY PlaceFacts
<1>4. CallsSound'
  BY <1>3, OneCallMoves DEF IInv, recovery
<1>5. call' \in [Callers -> Calls]
  BY CallUpdate DEF IInv
<1> QED BY <1>1, <1>2, <1>4, <1>5, CallerStepSound, UnknownTyped DEF IInv

-----------------------------------------------------------------------------
(* The steps of the callers.                                               *)

LEMMA StartSound ==
  ASSUME IInv, NEW c \in Callers, Start(c)
  PROVE  IInv'
<1>1. CASE c \in Submitters
  <2> DEFINE r == [call[c] EXCEPT !.at = "authorizing", !.tries = 1]
  <2>1. 1 \in 0 .. MaxTries
    BY SubmissionAssumption
  <2>2. r \in Calls /\ r.at = "authorizing"
    BY <2>1, CallFields, PlaceFacts DEF IInv, Calls
  <2>3. call' = [call EXCEPT ![c] = r]
    BY <1>1 DEF Start
  <2>4. UNCHANGED <<controller, latch, recovery, unknown>>
    BY DEF Start
  <2> HIDE DEF r
  <2> QED BY <2>2, <2>3, <2>4, PlaceFacts, OutsideSound
<1>2. CASE c \notin Submitters
  <2> DEFINE r == [call[c] EXCEPT !.at = "waiting"]
  <2>1. Move(c, "waiting") /\ UNCHANGED <<controller, latch, recovery, unknown>>
    BY <1>2 DEF Start
  <2>2. r \in Calls /\ call' = [call EXCEPT ![c] = r] /\ r.at = "waiting"
    BY <2>1, CallMoved, PlaceFacts DEF IInv
  <2> HIDE DEF r
  <2> QED BY <2>1, <2>2, PlaceFacts, OutsideSound
<1> QED BY <1>1, <1>2

LEMMA AuthorizeSound ==
  ASSUME IInv, NEW s \in Submitters, NEW generation \in 1 .. installed,
         Authorize(s, generation)
  PROVE  IInv'
<1> s \in Callers
  BY DEF Callers
<1>1. UNCHANGED <<latch, recovery, unknown>> /\ lease = "none"
  BY DEF Authorize
<1>2. CASE Minted(s, generation) /\ UNCHANGED controller
  <2> DEFINE r == [call[s] EXCEPT !.at = "queued", !.epoch = epoch,
                                  !.generation = generation]
  <2>1. generation \in Generations /\ epoch \in 0 .. EpochMax
    BY SubmissionAssumption DEF IInv, TypeOK, Generations
  <2>2. "queued" \in Places /\ "queued" \notin Serial
    BY DEF Places, Fenced, Serial, Guarding
  <2>3. r \in Calls /\ r.at = "queued"
    BY <2>1, <2>2, CallFields DEF IInv, Calls
  <2>4. call' = [call EXCEPT ![s] = r]
    BY <1>2 DEF Minted
  <2> HIDE DEF r
  <2> QED BY <1>1, <1>2, <2>2, <2>3, <2>4, OutsideSound
<1>3. CASE Finish(s) /\ ControllerTypes'
  <2>1. CallsSound' /\ call' \in [Callers -> Calls]
    BY <1>1, <1>3, CallEnds DEF IInv, recovery
  <2>2. LatchTypes' /\ LatchSound'
    BY <1>1, LatchKept DEF IInv, recovery
  <2> QED BY <1>1, <1>3, <2>1, <2>2, CallerStepSound, UnknownTyped DEF IInv
<1>4. \/ Minted(s, generation) /\ UNCHANGED controller
      \/ Finish(s) /\ (Revoke \/ Poison)
      \/ Finish(s) /\ active' = None /\ UNCHANGED <<epoch, poisoned>>
  BY DEF Authorize
<1>5. Revoke \/ Poison => ControllerTypes'
  BY RevokeTypes DEF IInv, ControllerTypes
<1>6. active' = None /\ UNCHANGED <<epoch, poisoned>> => ControllerTypes'
  BY ValueTypes DEF IInv, TypeOK, ControllerTypes
<1> QED BY <1>2, <1>3, <1>4, <1>5, <1>6

LEMMA TakePermitSound ==
  ASSUME IInv, NEW c \in Callers, TakePermit(c)
  PROVE  IInv'
<1>1. CASE gate.at = "active"
  <2> DEFINE r == [call[c] EXCEPT !.at = "permitted", !.permit = gate.generation]
  <2>1. "permitted" \in Places /\ "permitted" \notin Checked
    BY DEF Places, Fenced, Serial, Checked, Settling
  <2>2. gate.generation \in Generations
    BY DEF IInv, TypeOK
  <2>3. r \in Calls /\ r.at = "permitted" /\ r.permit = gate.generation
    BY <2>1, <2>2, CallFields DEF IInv, Calls
  <2>4. call' = [call EXCEPT ![c] = r] /\ SerialFree
        /\ UNCHANGED <<controller, latch, recovery, unknown>>
    BY <1>1 DEF TakePermit
  <2>5. gate.generation \notin unknown
    BY <1>1, <2>2 DEF IInv, TypeOK, LatchSound, OpenMatchesInstalled, Generations
  <2>6. c \in Submitters => lease # "held"
    BY DEF TakePermit, IInv, CallsSound, PlaceSound, Fenced
  <2> HIDE DEF r
  <2>7. CallsSound'
    BY <2>1, <2>3, <2>4, <2>5, <2>6, OneCallMoves DEF IInv, recovery
  <2>8. call' \in [Callers -> Calls]
    BY <2>3, <2>4, CallUpdate DEF IInv
  <2>9. ControllerTypes' /\ LatchTypes' /\ LatchSound'
    BY <2>4, ControllerKept, LatchKept DEF IInv, recovery
  <2> QED BY <2>4, <2>7, <2>8, <2>9, CallerStepSound, UnknownTyped DEF IInv
<1>2. CASE gate.at # "active"
  <2>1. Fails(c)
    BY <1>2 DEF TakePermit, Fails
  <2> QED BY <2>1, FailsSound
<1> QED BY <1>1, <1>2

LEMMA CheckSound ==
  ASSUME IInv, NEW c \in Callers, NEW from \in Serial, NEW to \in Serial,
         Check(c, from, to)
  PROVE  IInv'
<1> USE PlaceFacts
<1>1. CASE Unchanged(c) /\ Passes(c, to)
  <2>1. c \in Submitters => call[c].permit = installed /\ call[c].generation = installed
    BY <1>1 DEF Unchanged, Authorized
  <2>2. call[c].at \in Serial /\ to \in Places
    BY DEF Check
  <2> QED BY <1>1, <2>1, <2>2, PassesSound
<1>2. CASE Refused(c)
  BY <1>2, RefusedSound
<1>3. CASE Fails(c)
  BY <1>3, FailsSound
<1>4. CASE c \in Submitters /\ Passes(c, "backoff")
  <2>1. call[c].at \in Serial /\ "backoff" \in Places \ Checked
    BY DEF Check, Places, Checked, Settling
  <2> QED BY <1>4, <2>1, PassesSound
<1> QED BY <1>1, <1>2, <1>3, <1>4 DEF Check

LEMMA SignSound ==
  ASSUME IInv, NEW s \in Submitters, Sign(s)
  PROVE  IInv'
<1> s \in Callers /\ "signing" \in Serial \cap Checked /\ "signed" \in Places
  BY DEF Callers, Serial, Guarding, Checked, Places, Fenced
<1>1. CASE Passes(s, "signed")
  <2>1. call[s].permit = installed /\ call[s].generation = installed
    BY DEF Sign, IInv, CallsSound, PlaceSound
  <2> QED BY <1>1, <2>1, PassesSound DEF Sign
<1>2. CASE Refused(s)
  BY <1>2, RefusedSound
<1>3. CASE Fails(s)
  BY <1>3, FailsSound
<1> QED BY <1>1, <1>2, <1>3 DEF Sign

LEMMA FinishPreparationSound ==
  ASSUME IInv, NEW p \in Preparers, FinishPreparation(p)
  PROVE  IInv'
BY RefusedSound, FailsSound DEF FinishPreparation, Callers

LEMMA FirstPollSound ==
  ASSUME IInv, NEW s \in Submitters, FirstPoll(s)
  PROVE  IInv'
<1> s \in Callers /\ "signed" \in Serial \cap Checked /\ "posted" \in Places
  BY DEF Callers, Serial, Guarding, Checked, Places, Fenced
<1>1. CASE Passes(s, "posted")
  <2>1. call[s].permit = installed /\ call[s].generation = installed
    BY DEF FirstPoll, IInv, CallsSound, PlaceSound
  <2> QED BY <1>1, <2>1, PassesSound DEF FirstPoll
<1>2. CASE Refused(s)
  BY <1>2, RefusedSound
<1>3. CASE Poison /\ Finish(s) /\ UNCHANGED <<latch, recovery, unknown>>
  <2>1. ControllerTypes'
    BY <1>3, RevokeTypes DEF IInv, ControllerTypes
  <2>2. CallsSound' /\ call' \in [Callers -> Calls]
    BY <1>3, CallEnds DEF IInv, recovery
  <2>3. LatchTypes' /\ LatchSound'
    BY <1>3, LatchKept DEF IInv, recovery
  <2> QED BY <1>3, <2>1, <2>2, <2>3, CallerStepSound, UnknownTyped DEF IInv
<1> QED BY <1>1, <1>2, <1>3 DEF FirstPoll

LEMMA AmbiguousResponseSound ==
  ASSUME IInv, NEW s \in Submitters, AmbiguousResponse(s)
  PROVE  IInv'
<1> s \in Callers /\ "posted" \in Serial \cap Checked
  BY DEF Callers, Serial, Guarding, Checked
<1>1. call[s].at \in Serial \cap Checked /\ call[s].permit \in Generations
  BY CallFields DEF AmbiguousResponse, IInv
<1>2. call[s].permit = installed
  BY <1>1 DEF IInv, CallsSound, PlaceSound
<1>3. ControllerTypes'
  BY ControllerKept DEF IInv, AmbiguousResponse
<1>4. call[s].permit <= installed
  BY <1>1, <1>2 DEF Generations
<1>5. LatchTypes' /\ LatchSound'
  BY <1>1, <1>4, IndeterminateSound DEF IInv, AmbiguousResponse, recovery
<1>6. CallsSound' /\ call' \in [Callers -> Calls]
  BY <1>1, CallEnds DEF IInv, AmbiguousResponse, recovery
<1>7. unknown' \subseteq Generations
  BY <1>1 DEF IInv, TypeOK, AmbiguousResponse
<1> QED BY <1>3, <1>5, <1>6, <1>7, CallerStepSound DEF AmbiguousResponse

LEMMA DefiniteResponseSound ==
  ASSUME IInv, NEW s \in Submitters, DefiniteResponse(s)
  PROVE  IInv'
<1> s \in Callers /\ "posted" \in Serial \cap Checked /\ Settling \subseteq Places
  BY DEF Callers, Serial, Guarding, Checked, Settling, Places, Fenced
<1>1. PICK answer \in Settling : Passes(s, answer)
  BY DEF DefiniteResponse, Passes
<1>2. call[s].permit = installed /\ call[s].generation = installed
  BY DEF DefiniteResponse, IInv, CallsSound, PlaceSound
<1> QED BY <1>1, <1>2, PassesSound DEF DefiniteResponse

LEMMA SettleSound ==
  ASSUME IInv, NEW s \in Submitters, Settle(s)
  PROVE  IInv'
<1> s \in Callers /\ "backoff" \in Places \ Checked
  BY DEF Callers, Checked, Settling, Places
<1>1. call[s].at \in Serial /\ call[s].permit \in Generations
  BY CallFields DEF Settle, IInv, Settling, Serial, Guarding
<1>2. ControllerTypes'
  BY ControllerKept DEF IInv, Settle
<1>3. LatchTypes' /\ LatchSound'
  <2>1. CASE UNCHANGED latch
    BY <2>1, LatchKept DEF IInv, Settle, recovery
  <2>2. CASE Quarantine(call[s].permit)
    BY <2>2, <1>1, QuarantineSound DEF IInv, Settle, recovery
  <2> QED BY <2>1, <2>2 DEF Settle
<1>4. CallsSound' /\ call' \in [Callers -> Calls]
  <2>1. CASE Move(s, "backoff")
    BY <1>1, <2>1, SerialMove DEF IInv, Settle, recovery
  <2>2. CASE Finish(s)
    BY <2>2, CallEnds DEF IInv, Settle, recovery
  <2> QED BY <2>1, <2>2 DEF Settle
<1> QED BY <1>2, <1>3, <1>4, CallerStepSound, UnknownTyped DEF IInv, Settle

LEMMA RetrySound ==
  ASSUME IInv, NEW s \in Submitters, Retry(s)
  PROVE  IInv'
<1> s \in Callers
  BY DEF Callers
<1>1. CASE gate.at = "active" /\ call[s].tries < MaxTries
  <2> DEFINE r == [Resting EXCEPT !.at = "authorizing", !.tries = call[s].tries + 1]
  <2>1. call[s].tries + 1 \in 0 .. MaxTries
    BY <1>1, CallFields, SubmissionAssumption DEF IInv
  <2>2. r \in Calls /\ r.at = "authorizing"
    BY <2>1, ValueTypes, PlaceFacts DEF Calls
  <2>3. call' = [call EXCEPT ![s] = r] /\ UNCHANGED <<controller, latch, recovery, unknown>>
    BY <1>1 DEF Retry
  <2> HIDE DEF r
  <2> QED BY <2>2, <2>3, PlaceFacts, OutsideSound
<1>2. CASE ~(gate.at = "active" /\ call[s].tries < MaxTries)
  <2>1. Fails(s)
    BY <1>2 DEF Retry, Fails
  <2> QED BY <2>1, FailsSound
<1> QED BY <1>1, <1>2

LEMMA SubmitterStepSound ==
  ASSUME IInv, NEW s \in Submitters, SubmitterStep(s)
  PROVE  IInv'
<1> s \in Callers
  BY DEF Callers
<1>1. "guarded" \in Serial /\ "building" \in Serial /\ "signing" \in Serial
      /\ "signed" \in Serial /\ "permitted" \in Serial
  BY DEF Serial, Guarding
<1>2. CASE ReadClient(s)
  <2>1. Passes(s, "guarded") /\ call[s].at \in Serial
    BY <1>1, <1>2 DEF ReadClient, Passes
  <2>2. "guarded" \in Places \ Checked
    BY DEF Places, Fenced, Serial, Guarding, Checked, Settling
  <2> QED BY <2>1, <2>2, PassesSound
<1>3. CASE FirstCheck(s) \/ SecondCheck(s)
  BY <1>1, <1>3, CheckSound DEF FirstCheck, SecondCheck
<1> QED BY <1>2, <1>3, AuthorizeSound, SignSound, FirstPollSound, AmbiguousResponseSound,
           DefiniteResponseSound, SettleSound, RetrySound DEF SubmitterStep

LEMMA PreparerStepSound ==
  ASSUME IInv, NEW p \in Preparers, PreparerStep(p)
  PROVE  IInv'
<1> p \in Callers /\ "guarded" \in Serial /\ "building" \in Serial /\ "permitted" \in Serial
  BY DEF Callers, Serial, Guarding
<1>1. CASE ReadClient(p)
  <2>1. Passes(p, "guarded") /\ call[p].at \in Serial
    BY <1>1 DEF ReadClient, Passes
  <2>2. "guarded" \in Places \ Checked
    BY DEF Places, Fenced, Serial, Guarding, Checked, Settling
  <2> QED BY <2>1, <2>2, PassesSound
<1>2. CASE FirstCheck(p)
  BY <1>2, CheckSound DEF FirstCheck
<1> QED BY <1>1, <1>2, FinishPreparationSound DEF PreparerStep

-----------------------------------------------------------------------------
(* The steps of the recovery.                                              *)

LEMMA RevocationSound ==
  ASSUME IInv, RequestRevocation
  PROVE  IInv'
<1>1. ControllerTypes'
  BY RevokeTypes DEF IInv, RequestRevocation, ControllerTypes
<1>2. LatchTypes' /\ LatchSound'
  BY LatchKept DEF IInv, RequestRevocation, recovery
<1>3. CallsSound'
  BY CallsKept DEF IInv, RequestRevocation, recovery
<1>4. call' \in [Callers -> Calls] /\ unknown' \subseteq Generations /\ UNCHANGED recovery
  BY DEF IInv, TypeOK, RequestRevocation
<1> QED BY <1>1, <1>2, <1>3, <1>4, CallerStepSound

LEMMA RevokeProtocolSound ==
  ASSUME IInv, RevokeProtocolAuthority
  PROVE  IInv'
<1>1. ControllerTypes'
  BY ControllerKept DEF IInv, RevokeProtocolAuthority
<1>2. LatchTypes' /\ LatchSound'
  BY CloseGateSound DEF IInv, RevokeProtocolAuthority, recovery
<1>3. CallsSound'
  BY CallsKept DEF IInv, RevokeProtocolAuthority, recovery
<1>4. call' \in [Callers -> Calls] /\ unknown' \subseteq Generations /\ UNCHANGED recovery
  BY DEF IInv, TypeOK, RevokeProtocolAuthority
<1> QED BY <1>1, <1>2, <1>3, <1>4, CallerStepSound

LEMMA LeaseStepSound ==
  ASSUME IInv, RequestExclusive \/ AcquireExclusive \/ ReleaseExclusive
  PROVE  IInv'
<1>1. UNCHANGED <<controller, latch, installed, refresh, call, unknown>>
  BY DEF RequestExclusive, AcquireExclusive, ReleaseExclusive
<1>2. ControllerTypes' /\ LatchTypes' /\ LatchSound'
  BY <1>1, ControllerKept, LatchKept DEF IInv
<1>3. lease' \in {"none", "waiting", "held"} /\ barrier' \in 0 .. EpochMax
  BY DEF IInv, TypeOK, RequestExclusive, AcquireExclusive, ReleaseExclusive
<1>4. TypeOK'
  BY <1>1, <1>2, <1>3 DEF IInv, TypeOK, ControllerTypes, LatchTypes
<1>5. lease' = "held" => \A s \in Submitters : call[s].at \notin Fenced
  BY DEF RequestExclusive, AcquireExclusive, ReleaseExclusive, HoldsFence
<1>6. CallsSound'
  BY <1>1, <1>5 DEF IInv, CallsSound, SerialExclusive, PlaceSound
<1> QED BY <1>2, <1>4, <1>6 DEF IInv

LEMMA RefreshSound ==
  ASSUME IInv, StartRefresh \/ FinishRefresh \/ StartActivation
  PROVE  IInv'
<1>1. UNCHANGED <<controller, lease, barrier, call, unknown>>
  BY DEF StartRefresh, FinishRefresh, StartActivation, Refreshing
<1>2. /\ refresh' \in {"idle", "building", "checking"}
      /\ installed' \in Generations
      /\ installed <= installed'
      /\ installed' = installed \/ ClientFree
  BY SubmissionAssumption
     DEF IInv, TypeOK, StartRefresh, FinishRefresh, StartActivation, Refreshing, Generations
<1>3. LatchTypes' /\ LatchSound'
  <2>1. CASE StartRefresh
    BY <1>1, <2>1, CloseGateSound DEF IInv, StartRefresh
  <2>2. CASE FinishRefresh
    <3>1. /\ gate' = gate
          /\ quarantined' = quarantined
          /\ gate.at # "active"
          /\ refresh' = "idle"
          /\ gate.generation \in Generations
          /\ installed \in Generations
      BY <2>2 DEF FinishRefresh, latch, IInv, LatchSound, Refreshing, TypeOK
    <3>2. gate.at = "indeterminate" => gate.generation <= installed'
      BY <1>2, <3>1 DEF IInv, LatchSound, Generations
    <3> QED BY <1>1, <3>1, <3>2
            DEF IInv, TypeOK, LatchTypes, LatchSound, OpenMatchesInstalled
  <2>3. CASE StartActivation
    <3>1. /\ gate' = gate
          /\ quarantined' = quarantined
          /\ installed' = installed
          /\ unknown' = unknown
          /\ refresh' = "checking"
      BY <1>1, <2>3 DEF StartActivation, Refreshing, latch
    <3>2. LatchTypes'
      BY <3>1 DEF IInv, TypeOK, LatchTypes
    <3> QED BY <3>1, <3>2 DEF IInv, LatchSound, OpenMatchesInstalled
  <2> QED BY <2>1, <2>2, <2>3
<1>4. CallsSound'
  BY <1>1, <1>2, PlaceFacts DEF IInv, CallsSound, SerialExclusive, PlaceSound, ClientFree, Callers
<1>5. TypeOK'
  BY <1>1, <1>2, <1>3, ControllerKept DEF IInv, TypeOK, ControllerTypes, LatchTypes
<1> QED BY <1>3, <1>4, <1>5 DEF IInv

LEMMA FinishActivationSound ==
  ASSUME IInv, FinishActivation
  PROVE  IInv'
<1>1. UNCHANGED <<epoch, poisoned, quarantined, installed, lease, barrier, call, unknown>>
      /\ refresh' = "idle"
  BY DEF FinishActivation, Refreshing
<1>2. CASE /\ CanActivate(installed)
           /\ active' = [epoch |-> epoch, generation |-> installed]
           /\ gate' = [at |-> "active", generation |-> installed]
  <2>1. ControllerTypes' /\ LatchTypes'
    BY <1>1, <1>2 DEF IInv, TypeOK, ControllerTypes, LatchTypes
  <2>2. LatchSound'
    BY <1>1, <1>2 DEF IInv, LatchSound, OpenMatchesInstalled, CanActivate
  <2> QED BY <1>1, <2>1, <2>2, CallsKept DEF IInv, TypeOK, ControllerTypes, LatchTypes
<1>3. CASE UNCHANGED <<active, gate>>
  <2>1. ControllerTypes' /\ LatchTypes'
    BY <1>1, <1>3 DEF IInv, TypeOK, ControllerTypes, LatchTypes
  <2>2. LatchSound'
    BY <1>1, <1>3 DEF IInv, LatchSound, OpenMatchesInstalled
  <2> QED BY <1>1, <2>1, <2>2, CallsKept DEF IInv, TypeOK, ControllerTypes, LatchTypes
<1> QED BY <1>2, <1>3 DEF FinishActivation

-----------------------------------------------------------------------------
(* The invariant is inductive.                                             *)

LEMMA InitSound == Init => IInv
<1> SUFFICES ASSUME Init PROVE IInv
  OBVIOUS
<1>1. TypeOK
  <2>1. call \in [Callers -> Calls]
    BY ValueTypes DEF Init
  <2> QED BY <2>1, ValueTypes DEF Init, TypeOK
<1>2. LatchSound
  BY DEF Init, LatchSound, OpenMatchesInstalled, Closed
<1>3. \A c \in Callers : call[c].at = "idle"
  BY DEF Init, Resting
<1>4. "idle" \notin Serial /\ "idle" \notin Checked /\ "idle" \notin Fenced
  BY PlaceFacts
<1>5. CallsSound
  BY <1>3, <1>4 DEF CallsSound, SerialExclusive, PlaceSound
<1> QED BY <1>1, <1>2, <1>5 DEF IInv

LEMMA StepSound == IInv /\ [Next]_vars => IInv'
<1> SUFFICES ASSUME IInv, [Next]_vars PROVE IInv'
  OBVIOUS
<1>1. CASE UNCHANGED vars
  <2>1. UNCHANGED <<controller, latch, recovery, call, unknown>>
    BY <1>1 DEF vars
  <2>2. ControllerTypes' /\ LatchTypes' /\ LatchSound' /\ CallsSound'
    BY <2>1, ControllerKept, LatchKept, CallsKept DEF IInv, recovery
  <2>3. call' \in [Callers -> Calls]
    BY <2>1 DEF IInv, TypeOK
  <2> QED BY <2>1, <2>2, <2>3, CallerStepSound, UnknownTyped DEF IInv
<1>2. CASE \E c \in Callers : Start(c) \/ TakePermit(c) \/ Abandon(c)
  BY <1>2, StartSound, TakePermitSound, FailsSound DEF Abandon
<1>3. CASE \E s \in Submitters : SubmitterStep(s)
  BY <1>3, SubmitterStepSound
<1>4. CASE \E p \in Preparers : PreparerStep(p)
  BY <1>4, PreparerStepSound
<1>5. CASE RecoveryStep
  BY <1>5, RevocationSound, RevokeProtocolSound, LeaseStepSound, RefreshSound,
     FinishActivationSound DEF RecoveryStep
<1> QED BY <1>1, <1>2, <1>3, <1>4, <1>5 DEF Next


(***************************************************************************)
(* In every reachable state of Submission the types hold, the latch agrees *)
(* with the installed client and the history of ambiguous POSTs, and each  *)
(* submission may rely on what its place promises (client.rs and           *)
(* submission.rs together).                                                *)
(***************************************************************************)
THEOREM InductiveInvariant == Spec => []IInv
<1> QED BY InitSound, StepSound, PTL DEF Spec

(* Every variable keeps its type: in particular the revocation epoch and   *)
(* the attempts of retry_post_order stay within their limits.              *)
THEOREM TypeCorrect == Spec => []TypeOK
<1>1. IInv => TypeOK
  BY DEF IInv
<1> QED BY <1>1, InductiveInvariant, PTL

(* The latch is only ever open for the installed client and never for a    *)
(* quarantined generation (ProtocolSubmissionGate of client.rs).           *)
THEOREM LatchMatchesClient == Spec => []OpenMatchesInstalled
<1>1. IInv => OpenMatchesInstalled
  BY DEF IInv, LatchSound
<1> QED BY <1>1, InductiveInvariant, PTL

(* No refresh replaces the client under a submission that has signed       *)
(* (refresh_authenticated_capital_authority against sign_and_post_sdk).    *)
THEOREM ClientStandsUnderPost == Spec => []PostedByInstalled
<1>1. IInv => PostedByInstalled
  BY DEF IInv, CallsSound, PlaceSound, PostedByInstalled, Checked, Callers
<1> QED BY <1>1, InductiveInvariant, PTL

(* The exclusive lease means that every submission minted before it has    *)
(* left the fence (SubmissionController::acquire_exclusive).               *)
THEOREM LeaseDrains == Spec => []LeaseMeansDrained
<1>1. IInv => LeaseMeansDrained
  BY DEF IInv, CallsSound, PlaceSound, LeaseMeansDrained, Callers
<1> QED BY <1>1, InductiveInvariant, PTL

-----------------------------------------------------------------------------
(* Which steps begin a POST.                                               *)

(* What a step writes into the call of a caller that is not the end of a   *)
(* first poll is never "posted", and no step writes into two calls.        *)
LEMMA OnlyFirstPollBegins ==
  ASSUME TypeOK, [Next]_vars, NEW s \in Submitters, Begins(s)
  PROVE  FirstPoll(s) /\ Authorized(s) /\ call[s].at = "signed" /\ UNCHANGED unknown
         /\ call'[s].permit = call[s].permit
<1> s \in Callers
  BY DEF Callers
<1>1. call' # call
  BY DEF Begins
<1>2. ASSUME NEW c \in Callers, NEW r \in Calls, call' = [call EXCEPT ![c] = r]
      PROVE  c = s /\ r.at = "posted"
  <2>1. call'[c] = r /\ \A d \in Callers : d # c => call'[d] = call[d]
    BY <1>2, CallUpdate
  <2> QED BY <2>1 DEF Begins
<1>3. ASSUME NEW c \in Callers PROVE ~Finish(c)
  <2> SUFFICES ASSUME Finish(c) PROVE FALSE
    OBVIOUS
  <2>1. Resting \in Calls /\ call' = [call EXCEPT ![c] = Resting] /\ Resting.at # "posted"
    BY ValueTypes DEF Finish, Resting
  <2> QED BY <2>1, <1>2
<1>4. ASSUME NEW c \in Callers, NEW place \in Places, Move(c, place)
      PROVE  c = s /\ place = "posted"
  <2> DEFINE r == [call[c] EXCEPT !.at = place]
  <2>1. r \in Calls /\ call' = [call EXCEPT ![c] = r] /\ r.at = place
    BY <1>4, CallMoved
  <2> HIDE DEF r
  <2> QED BY <2>1, <1>2
<1>5. ASSUME NEW c \in Callers, NEW place \in Places, place # "posted"
      PROVE  ~Move(c, place)
  BY <1>4, <1>5
<1>6. /\ {"waiting", "guarded", "building", "signing", "signed", "posted", "backoff"} \subseteq Places
      /\ "authorizing" \in Places /\ "queued" \in Places /\ "permitted" \in Places
      /\ Settling \subseteq Places \ {"posted"}
  BY DEF Places, Fenced, Serial, Guarding, Settling
<1>7. ASSUME NEW c \in Callers, Start(c) PROVE FALSE
  <2>1. CASE c \in Submitters
    <3> DEFINE r == [call[c] EXCEPT !.at = "authorizing", !.tries = 1]
    <3>1. 1 \in 0 .. MaxTries
      BY SubmissionAssumption
    <3>2. r \in Calls /\ r.at = "authorizing"
      BY <3>1, <1>6, CallFields DEF Calls
    <3>3. call' = [call EXCEPT ![c] = r]
      BY <1>7, <2>1 DEF Start
    <3> HIDE DEF r
    <3> QED BY <3>2, <3>3, <1>2
  <2>2. CASE c \notin Submitters
    BY <1>5, <1>6, <1>7, <2>2 DEF Start
  <2> QED BY <2>1, <2>2
<1>8. ASSUME NEW c \in Callers, TakePermit(c) PROVE FALSE
  <2>1. CASE gate.at = "active"
    <3> DEFINE r == [call[c] EXCEPT !.at = "permitted", !.permit = gate.generation]
    <3>1. gate.generation \in Generations
      BY DEF TypeOK
    <3>2. r \in Calls /\ r.at = "permitted"
      BY <3>1, <1>6, CallFields DEF Calls
    <3>3. call' = [call EXCEPT ![c] = r]
      BY <1>8, <2>1 DEF TakePermit
    <3> HIDE DEF r
    <3> QED BY <3>2, <3>3, <1>2
  <2>2. CASE gate.at # "active"
    BY <1>3, <1>8, <2>2 DEF TakePermit
  <2> QED BY <2>1, <2>2
<1>9. ASSUME NEW t \in Submitters, NEW generation \in 1 .. installed, Authorize(t, generation)
      PROVE  FALSE
  <2> t \in Callers
    BY DEF Callers
  <2>1. ~Minted(t, generation)
    <3> SUFFICES ASSUME Minted(t, generation) PROVE FALSE
      OBVIOUS
    <3> DEFINE r == [call[t] EXCEPT !.at = "queued", !.epoch = epoch,
                                    !.generation = generation]
    <3>1. generation \in Generations /\ epoch \in 0 .. EpochMax
      BY SubmissionAssumption DEF TypeOK, Generations
    <3>2. r \in Calls /\ r.at = "queued"
      BY <3>1, <1>6, CallFields DEF Calls
    <3>3. call' = [call EXCEPT ![t] = r]
      BY DEF Minted
    <3> HIDE DEF r
    <3> QED BY <3>2, <3>3, <1>2
  <2> QED BY <1>3, <1>9, <2>1 DEF Authorize
<1>10. ASSUME NEW t \in Submitters, Retry(t) PROVE FALSE
  <2> t \in Callers
    BY DEF Callers
  <2>1. CASE gate.at = "active" /\ call[t].tries < MaxTries
    <3> DEFINE r == [Resting EXCEPT !.at = "authorizing", !.tries = call[t].tries + 1]
    <3>1. call[t].tries + 1 \in 0 .. MaxTries
      BY <2>1, CallFields, SubmissionAssumption
    <3>2. r \in Calls /\ r.at = "authorizing"
      BY <3>1, <1>6, ValueTypes DEF Calls
    <3>3. call' = [call EXCEPT ![t] = r]
      BY <1>10, <2>1 DEF Retry
    <3> HIDE DEF r
    <3> QED BY <3>2, <3>3, <1>2
  <2>2. CASE ~(gate.at = "active" /\ call[t].tries < MaxTries)
    BY <1>3, <1>10, <2>2 DEF Retry
  <2> QED BY <2>1, <2>2
<1>11. ASSUME NEW c \in Callers, ReadClient(c) \/ FirstCheck(c) \/ Abandon(c)
       PROVE  FALSE
  BY <1>3, <1>5, <1>6, <1>11
     DEF ReadClient, FirstCheck, Check, Abandon, Passes, Refused, Fails
<1>12. ASSUME NEW t \in Submitters, SecondCheck(t) \/ Sign(t)
       PROVE  FALSE
  BY <1>3, <1>5, <1>6, <1>12
     DEF SecondCheck, Check, Sign, Passes, Refused, Fails, Callers
<1>13. ASSUME NEW t \in Submitters, AmbiguousResponse(t) \/ DefiniteResponse(t) \/ Settle(t)
       PROVE  FALSE
  BY <1>3, <1>5, <1>6, <1>13
     DEF AmbiguousResponse, DefiniteResponse, Settle, Callers
<1>14. ASSUME NEW p \in Preparers, PreparerStep(p)
       PROVE  FALSE
  BY <1>3, <1>11, <1>14 DEF PreparerStep, FinishPreparation, Refused, Fails, Callers
<1>15. RecoveryStep => call' = call
  BY DEF RecoveryStep, RequestRevocation, RevokeProtocolAuthority, RequestExclusive,
         AcquireExclusive, ReleaseExclusive, StartRefresh, FinishRefresh, StartActivation,
         FinishActivation
<1>16. UNCHANGED vars => call' = call
  BY DEF vars
<1>17. PICK t \in Submitters : FirstPoll(t)
  <2>1. (\E c \in Callers : Start(c) \/ TakePermit(c) \/ Abandon(c)) => FALSE
    BY <1>7, <1>8, <1>11
  <2>2. (\E p \in Preparers : PreparerStep(p)) => FALSE
    BY <1>14
  <2>3. PICK t \in Submitters : SubmitterStep(t)
    BY <1>1, <1>15, <1>16, <2>1, <2>2 DEF Next
  <2>4. t \in Callers
    BY DEF Callers
  <2> QED BY <1>9, <1>10, <1>11, <1>12, <1>13, <2>3, <2>4 DEF SubmitterStep
<1>18. t \in Callers
  BY DEF Callers
<1>19. ~Finish(t)
  BY <1>3, <1>18
<1>20. call[t].at = "signed" /\ Authorized(t) /\ Passes(t, "posted")
  BY <1>17, <1>19 DEF FirstPoll, Refused
<1>21. t = s
  BY <1>4, <1>6, <1>18, <1>20 DEF Passes
<1>22. call'[s].permit = call[s].permit
  <2> DEFINE r == [call[s] EXCEPT !.at = "posted"]
  <2>1. r \in Calls /\ call' = [call EXCEPT ![s] = r] /\ r.permit = call[s].permit
    BY <1>6, <1>20, <1>21, CallMoved DEF Passes
  <2> HIDE DEF r
  <2> QED BY <2>1, CallUpdate
<1> QED BY <1>17, <1>20, <1>21, <1>22 DEF Passes

(* A POST begins only under the epoch of a controller that is not          *)
(* poisoned: the first poll revalidates the capability under the mutex     *)
(* that a revocation takes (poll_first_transport in submission.rs).        *)
THEOREM RevokedNeverPosts == Spec => RevocationBlocksPost
<1>1. TypeOK /\ [Next]_vars =>
        [\A s \in Submitters : Begins(s) => ~poisoned /\ call[s].epoch = epoch]_vars
  <2> SUFFICES ASSUME TypeOK, [Next]_vars, NEW s \in Submitters, Begins(s)
               PROVE  ~poisoned /\ call[s].epoch = epoch
    OBVIOUS
  <2>1. Authorized(s)
    BY OnlyFirstPollBegins
  <2> QED BY <2>1 DEF Authorized
<1> QED BY <1>1, TypeCorrect, PTL DEF Spec, RevocationBlocksPost

(* No POST begins under a generation that has an ambiguous POST: whoever   *)
(* is in the serial section took its permit after the ambiguity closed the *)
(* latch (doc comment of ClobClient on the serialization of submissions).  *)
THEOREM AmbiguousGenerationNeverPosts == Spec => AmbiguityBlocksPost
<1>1. IInv /\ [Next]_vars =>
        [\A s \in Submitters : Begins(s) => call[s].permit \notin unknown]_vars
  <2> SUFFICES ASSUME IInv, [Next]_vars, NEW s \in Submitters, Begins(s)
               PROVE  call[s].permit \notin unknown
    OBVIOUS
  <2>1. call[s].at = "signed"
    BY OnlyFirstPollBegins DEF IInv
  <2>2. "signed" \in Serial /\ s \in Callers
    BY DEF Serial, Guarding, Callers
  <2> QED BY <2>1, <2>2 DEF IInv, CallsSound, PlaceSound
<1> QED BY <1>1, InductiveInvariant, PTL DEF Spec, AmbiguityBlocksPost

-----------------------------------------------------------------------------
(* What opens an indeterminate latch.                                      *)

LEMMA GateSteps ==
  ASSUME IInv, [Next]_vars, gate.at = "indeterminate"
  PROVE  \/ gate' = gate
         \/ gate' = [at |-> "indeterminate", generation |-> installed]
         \/ gate' = [at |-> "active", generation |-> installed] /\ installed > quarantined
<1>1. ASSUME NEW c \in Callers, Refused(c) PROVE gate' = gate
  BY <1>1 DEF Refused, Quarantine
<1>2. ASSUME NEW c \in Callers, Fails(c) PROVE gate' = gate
  BY <1>2 DEF Fails, latch
<1>3. ASSUME NEW c \in Callers, NEW place, Passes(c, place) PROVE gate' = gate
  BY <1>3 DEF Passes, latch
<1>4. ASSUME NEW c \in Callers, Start(c) \/ TakePermit(c) \/ Abandon(c) \/ ReadClient(c)
      PROVE  gate' = gate
  BY <1>2, <1>4 DEF Start, TakePermit, Abandon, ReadClient, latch
<1>5. ASSUME NEW c \in Callers, NEW from, NEW to, Check(c, from, to) PROVE gate' = gate
  BY <1>1, <1>2, <1>3, <1>5 DEF Check
<1>6. ASSUME NEW s \in Submitters, SubmitterStep(s)
      PROVE  gate' = gate \/ gate' = [at |-> "indeterminate", generation |-> installed]
  <2> s \in Callers
    BY DEF Callers
  <2>1. ASSUME AmbiguousResponse(s)
        PROVE  gate' = [at |-> "indeterminate", generation |-> installed]
    <3>1. call[s].permit = installed
      BY <2>1 DEF AmbiguousResponse, IInv, CallsSound, PlaceSound, Checked
    <3> QED BY <2>1, <3>1 DEF AmbiguousResponse, MarkIndeterminate
  <2>2. Settle(s) => gate' = gate
    BY DEF Settle, Quarantine, latch
  <2>3. DefiniteResponse(s) \/ Retry(s) => gate' = gate
    BY DEF DefiniteResponse, Retry, latch
  <2>4. (\E generation \in 1 .. installed : Authorize(s, generation)) => gate' = gate
    BY DEF Authorize, latch
  <2>5. FirstCheck(s) \/ SecondCheck(s) => gate' = gate
    BY <1>5 DEF FirstCheck, SecondCheck
  <2>6. Sign(s) => gate' = gate
    BY <1>1, <1>2, <1>3 DEF Sign
  <2>7. FirstPoll(s) => gate' = gate
    BY <1>1, <1>3 DEF FirstPoll, latch
  <2> QED BY <1>4, <1>6, <2>1, <2>2, <2>3, <2>4, <2>5, <2>6, <2>7 DEF SubmitterStep
<1>7. ASSUME NEW p \in Preparers, PreparerStep(p) PROVE gate' = gate
  BY <1>1, <1>2, <1>4, <1>5, <1>7 DEF PreparerStep, FirstCheck, FinishPreparation, Callers
<1>8. CASE RecoveryStep
  <2>1. CASE FinishActivation
    BY <2>1 DEF FinishActivation, CanActivate
  <2>2. CASE RevokeProtocolAuthority \/ StartRefresh
    BY <2>2 DEF RevokeProtocolAuthority, StartRefresh, CloseGate, latch
  <2>3. CASE RequestRevocation \/ RequestExclusive \/ AcquireExclusive \/ ReleaseExclusive
             \/ FinishRefresh \/ StartActivation
    BY <2>3 DEF RequestRevocation, RequestExclusive, AcquireExclusive, ReleaseExclusive,
                FinishRefresh, StartActivation, latch
  <2> QED BY <1>8, <2>1, <2>2, <2>3 DEF RecoveryStep
<1>9. CASE UNCHANGED vars
  BY <1>9 DEF vars, latch
<1> QED BY <1>4, <1>6, <1>7, <1>8, <1>9 DEF Next

(* An ambiguous POST closes its generation for good: whatever closes,      *)
(* quarantines or reactivates the latch afterwards, only a newer           *)
(* generation opens it (ProtocolSubmissionGate of client.rs).              *)
THEOREM AmbiguityIsSticky == Spec => IndeterminateIsSticky
<1>1. IInv /\ [Next]_vars =>
        [gate.at = "indeterminate" =>
            \/ gate' = gate
            \/ gate'.generation > gate.generation]_vars
  <2> SUFFICES ASSUME IInv, [Next]_vars, gate.at = "indeterminate", gate' # gate
               PROVE  gate'.generation > gate.generation
    OBVIOUS
  <2>1. /\ gate.generation <= quarantined
        /\ gate.generation <= installed
        /\ gate.generation \in Nat
        /\ quarantined \in Nat
        /\ installed \in Nat
    BY SubmissionAssumption DEF IInv, TypeOK, LatchSound, Generations
  <2>2. CASE gate' = [at |-> "indeterminate", generation |-> installed]
    <3>1. gate = [at |-> gate.at, generation |-> gate.generation]
      BY DEF IInv, TypeOK
    <3>2. gate.generation # installed
      BY <2>2, <3>1
    <3> QED BY <2>1, <2>2, <3>2
  <2>3. CASE gate' = [at |-> "active", generation |-> installed] /\ installed > quarantined
    BY <2>1, <2>3
  <2> QED BY <2>2, <2>3, GateSteps
<1> QED BY <1>1, InductiveInvariant, PTL DEF Spec, IndeterminateIsSticky

-----------------------------------------------------------------------------
(* The refinement of PostingAuthority.                                     *)

AuthorityStep == [Authority!Next]_(Authority!vars)

(* Places of a submission whose POST is out or has not settled.            *)
Out == Settling \cup {"posted"}

(* An authority is of the present epoch, no recovery captured a later one, *)
(* a poisoned controller has none; and a capability names a client.        *)
GrantSound ==
    /\ barrier <= epoch
    /\ poisoned => active = None
    /\ active # None => active.epoch = epoch /\ active.generation # 0

MintedSound ==
    \A s \in Submitters : call[s].at \in Fenced => call[s].generation # 0

Refining == IInv /\ GrantSound /\ MintedSound

LEMMA OutFacts ==
  /\ Out \subseteq Checked
  /\ Out \subseteq Guarding
  /\ Out \subseteq Serial
  /\ Out \subseteq Fenced
  /\ "posted" \in Out
BY PlaceFacts DEF Out, Checked, Guarding, Serial, Fenced, Settling

(* Only one task posts at a time, for the client that is installed, and    *)
(* that client has no POST of unknown outcome.                             *)
LEMMA PostingAlone ==
  ASSUME IInv
  PROVE  /\ Posting \subseteq Submitters
         /\ \A s \in Submitters : s \in Posting <=> call[s].at \in Out
         /\ \A s, t \in Posting : s = t
         /\ \A s \in Posting : call[s].permit = installed
         /\ lease = "held" => Posting = {}
         /\ ClientFree => Posting = {}
         /\ SerialFree => Posting = {}
<1>1. /\ Posting \subseteq Submitters
      /\ \A s \in Submitters : s \in Posting <=> call[s].at \in Out
  BY DEF Posting, Out
<1>2. Submitters \subseteq Callers
  BY DEF Callers
<1>3. \A s \in Posting : call[s].at \in Serial /\ call[s].at \in Checked /\ call[s].at \in Fenced
                         /\ call[s].at \in Guarding
  BY <1>1, OutFacts
<1>4. \A s, t \in Posting : s = t
  BY <1>1, <1>2, <1>3 DEF IInv, CallsSound, SerialExclusive
<1>5. \A s \in Posting : call[s].permit = installed
  BY <1>1, <1>2, <1>3 DEF IInv, CallsSound, PlaceSound
<1>6. lease = "held" => Posting = {}
  BY <1>1, <1>2, <1>3 DEF IInv, CallsSound, PlaceSound
<1>7. (ClientFree => Posting = {}) /\ (SerialFree => Posting = {})
  BY <1>1, <1>2, <1>3 DEF ClientFree, SerialFree
<1> QED BY <1>1, <1>4, <1>5, <1>6, <1>7

(* What a step that writes one call does to the set of tasks that post.    *)
LEMMA PostingMoves ==
  ASSUME TypeOK, NEW c \in Callers, NEW r \in Calls, call' = [call EXCEPT ![c] = r]
  PROVE  /\ c \notin Submitters => Posting' = Posting
         /\ c \in Submitters /\ r.at \in Out => Posting' = Posting \cup {c}
         /\ r.at \notin Out => Posting' = Posting \ {c}
<1>1. call'[c] = r /\ \A d \in Callers : d # c => call'[d] = call[d]
  BY CallUpdate
<1>2. Submitters \subseteq Callers
  BY DEF Callers
<1>3. Posting = {s \in Submitters : call[s].at \in Out}
      /\ Posting' = {s \in Submitters : call'[s].at \in Out}
  BY DEF Posting, Out
<1> QED BY <1>1, <1>2, <1>3

LEMMA MintedMoves ==
  ASSUME TypeOK, MintedSound, NEW c \in Callers, NEW r \in Calls,
         call' = [call EXCEPT ![c] = r],
         c \in Submitters /\ r.at \in Fenced => r.generation # 0
  PROVE  MintedSound'
<1>1. call'[c] = r /\ \A d \in Callers : d # c => call'[d] = call[d]
  BY CallUpdate
<1> QED BY <1>1 DEF MintedSound, Callers

LEMMA GrantKept ==
  ASSUME GrantSound, UNCHANGED <<controller, barrier>>
  PROVE  GrantSound'
BY DEF GrantSound, controller, None

LEMMA Stutters ==
  ASSUME UNCHANGED <<controller, recovery, unknown>>, Posting' = Posting
  PROVE  AuthorityStep
BY DEF AuthorityStep, Authority!vars, controller, recovery

(* A step of one caller that neither begins nor settles a POST.            *)
LEMMA QuietStep ==
  ASSUME Refining, NEW c \in Callers, NEW r \in Calls,
         call' = [call EXCEPT ![c] = r],
         c \in Submitters => (r.at \in Out <=> call[c].at \in Out),
         c \in Submitters /\ r.at \in Fenced => r.generation # 0,
         UNCHANGED <<controller, recovery, unknown>>
  PROVE  AuthorityStep /\ GrantSound' /\ MintedSound'
<1>1. TypeOK
  BY DEF Refining, IInv
<1>2. Posting' = Posting
  BY <1>1, PostingMoves, PostingAlone DEF Refining
<1> QED BY <1>1, <1>2, GrantKept, MintedMoves, Stutters DEF Refining, recovery

(* A step that ends the call of one caller, or sends it into the backoff:  *)
(* if its POST was out, this is the abstract Settle.                       *)
LEMMA EndStep ==
  ASSUME Refining, NEW c \in Callers, NEW r \in Calls,
         call' = [call EXCEPT ![c] = r],
         r.at \notin Fenced,
         UNCHANGED <<controller, recovery>>,
         \/ unknown' = unknown
         \/ c \in Posting /\ unknown' = unknown \cup {call[c].permit}
  PROVE  AuthorityStep /\ GrantSound' /\ MintedSound'
<1>1. TypeOK
  BY DEF Refining, IInv
<1>2. Posting' = Posting \ {c}
  BY <1>1, PostingMoves, OutFacts
<1>3. GrantSound' /\ MintedSound'
  BY <1>1, GrantKept, MintedMoves DEF Refining, recovery
<1>4. CASE c \in Posting
  <2>1. Posting = {c} /\ Posting' = {} /\ c \in Submitters /\ call[c].permit = installed
    BY <1>2, <1>4, PostingAlone DEF Refining
  <2>2. unknown' \in {unknown, unknown \cup {installed}}
    BY <2>1
  <2>3. Authority!Settle(c)
    BY <2>1, <2>2 DEF Authority!Settle, controller, recovery
  <2> QED BY <1>3, <2>1, <2>3 DEF AuthorityStep, Authority!Next
<1>5. CASE c \notin Posting
  <2>1. Posting' = Posting /\ unknown' = unknown
    BY <1>2, <1>5
  <2> QED BY <1>3, <2>1, Stutters
<1> QED BY <1>4, <1>5

LEMMA FinishStep ==
  ASSUME Refining, NEW c \in Callers, Finish(c),
         UNCHANGED <<controller, recovery>>,
         \/ unknown' = unknown
         \/ c \in Posting /\ unknown' = unknown \cup {call[c].permit}
  PROVE  AuthorityStep /\ GrantSound' /\ MintedSound'
<1>1. Resting \in Calls /\ Resting.at \notin Fenced
  BY ValueTypes, PlaceFacts DEF Resting
<1>2. call' = [call EXCEPT ![c] = Resting]
  BY DEF Finish
<1> QED BY <1>1, <1>2, EndStep

LEMMA MoveStep ==
  ASSUME Refining, NEW c \in Callers, NEW place \in Places, Move(c, place),
         c \in Submitters => (place \in Out <=> call[c].at \in Out),
         place \in Fenced => call[c].at \in Fenced,
         UNCHANGED <<controller, recovery, unknown>>
  PROVE  AuthorityStep /\ GrantSound' /\ MintedSound'
<1> DEFINE r == [call[c] EXCEPT !.at = place]
<1>1. /\ r \in Calls
      /\ call' = [call EXCEPT ![c] = r]
      /\ r.at = place
      /\ r.generation = call[c].generation
  BY CallMoved DEF Refining, IInv
<1> HIDE DEF r
<1>2. c \in Submitters /\ r.at \in Fenced => r.generation # 0
  BY <1>1 DEF Refining, MintedSound
<1> QED BY <1>1, <1>2, QuietStep

(* A withdrawal of the authority, while nobody's POST begins or settles.   *)
LEMMA WithdrawStep ==
  ASSUME Refining, Revoke \/ Poison, UNCHANGED <<recovery, unknown>>,
         Posting' = Posting
  PROVE  AuthorityStep /\ GrantSound'
<1>1. active' = None /\ active'.generation = 0
  BY DEF Revoke, Poison, None
<1>2. epoch \in Nat /\ barrier \in Nat /\ barrier <= epoch
  BY SubmissionAssumption DEF Refining, IInv, TypeOK, GrantSound
<1>3. CASE epoch' = epoch + 1 /\ UNCHANGED poisoned
  <2>1. barrier' = barrier
    BY DEF recovery
  <2>2. epoch' # barrier'
    BY <1>2, <1>3, <2>1
  <2>3. Authority!Withdraw
    BY <1>1, <1>3, <2>2 DEF Authority!Withdraw, recovery
  <2>4. GrantSound'
    BY <1>1, <1>2, <1>3, <2>1 DEF GrantSound
  <2> QED BY <2>3, <2>4 DEF AuthorityStep, Authority!Next
<1>4. CASE poisoned' = TRUE /\ UNCHANGED epoch
  <2>1. Authority!Halt
    BY <1>1, <1>4 DEF Authority!Halt, recovery
  <2>2. GrantSound'
    BY <1>1, <1>2, <1>4 DEF GrantSound, recovery
  <2> QED BY <2>1, <2>2 DEF AuthorityStep, Authority!Next
<1> QED BY <1>3, <1>4 DEF Revoke, Poison

-----------------------------------------------------------------------------
(* Each action is a step of the abstract authority, or invisible to it.    *)

Refines == AuthorityStep /\ GrantSound' /\ MintedSound'

(* Where the places are: before the POST, out, and outside of the fence.   *)
LEMMA PlaceKinds ==
  /\ {"permitted", "guarded", "building", "signing", "signed"} \subseteq Fenced \ Out
  /\ {"idle", "authorizing", "waiting", "backoff"} \subseteq Places \ (Fenced \cup Out)
  /\ "queued" \in Fenced \ Out
  /\ Fenced \subseteq Places
  /\ Settling \subseteq Out
BY DEF Places, Fenced, Serial, Guarding, Out, Settling

LEMMA FailsRefines ==
  ASSUME Refining, NEW c \in Callers, Fails(c)
  PROVE  Refines
BY FinishStep DEF Fails, Refines

LEMMA RefusedRefines ==
  ASSUME Refining, NEW c \in Callers, Refused(c)
  PROVE  Refines
BY FinishStep DEF Refused, Refines

LEMMA PassesRefines ==
  ASSUME Refining, NEW c \in Callers, NEW place \in Fenced \ Out, Passes(c, place),
         call[c].at \in Fenced \ Out
  PROVE  Refines
BY MoveStep, PlaceKinds DEF Passes, Refines

LEMMA StartRefines ==
  ASSUME Refining, NEW c \in Callers, Start(c)
  PROVE  Refines
<1>1. CASE c \in Submitters
  <2> DEFINE r == [call[c] EXCEPT !.at = "authorizing", !.tries = 1]
  <2>1. 1 \in 0 .. MaxTries
    BY SubmissionAssumption
  <2>2. r \in Calls /\ r.at = "authorizing"
    BY <2>1, CallFields, PlaceFacts DEF Refining, IInv, Calls
  <2>3. call' = [call EXCEPT ![c] = r] /\ call[c].at = "idle"
    BY <1>1 DEF Start
  <2>4. UNCHANGED <<controller, recovery, unknown>>
    BY DEF Start
  <2> HIDE DEF r
  <2> QED BY <2>2, <2>3, <2>4, PlaceKinds, QuietStep DEF Refines
<1>2. CASE c \notin Submitters
  <2>1. Move(c, "waiting") /\ UNCHANGED <<controller, recovery, unknown>>
    BY <1>2 DEF Start
  <2> QED BY <1>2, <2>1, PlaceKinds, MoveStep DEF Refines
<1> QED BY <1>1, <1>2

LEMMA AuthorizeRefines ==
  ASSUME Refining, NEW s \in Submitters, NEW generation \in 1 .. installed,
         Authorize(s, generation)
  PROVE  Refines
<1>1. s \in Callers /\ TypeOK
  BY DEF Callers, Refining, IInv
<1>2. UNCHANGED <<latch, recovery, unknown>> /\ call[s].at = "authorizing"
  BY DEF Authorize
<1>3. generation \in Generations /\ epoch \in 0 .. EpochMax /\ generation # 0
  BY <1>1, SubmissionAssumption DEF TypeOK, Generations
<1>4. CASE Minted(s, generation) /\ UNCHANGED controller
  <2> DEFINE r == [call[s] EXCEPT !.at = "queued", !.epoch = epoch,
                                  !.generation = generation]
  <2>1. r \in Calls /\ r.at = "queued" /\ r.generation = generation
    BY <1>1, <1>3, PlaceKinds, CallFields DEF Calls
  <2>2. call' = [call EXCEPT ![s] = r]
    BY <1>4 DEF Minted
  <2> HIDE DEF r
  <2> QED BY <1>1, <1>2, <1>3, <1>4, <2>1, <2>2, PlaceKinds, QuietStep DEF Refines
<1>5. ASSUME Finish(s) PROVE Posting' = Posting /\ MintedSound'
  <2>1. Resting \in Calls /\ Resting.at = "idle" /\ call' = [call EXCEPT ![s] = Resting]
    BY <1>5, ValueTypes DEF Finish, Resting
  <2>2. Posting' = Posting \ {s}
    BY <1>1, <2>1, PlaceKinds, PostingMoves
  <2>3. s \notin Posting
    BY <1>2, PlaceKinds, PostingAlone DEF Refining
  <2>4. MintedSound'
    BY <1>1, <2>1, PlaceKinds, MintedMoves DEF Refining
  <2> QED BY <2>2, <2>3, <2>4
<1>6. CASE poisoned /\ active' = None /\ UNCHANGED <<epoch, poisoned>> /\ Finish(s)
  <2>1. active' = active
    BY <1>6 DEF Refining, GrantSound
  <2> QED BY <1>1, <1>2, <1>6, <2>1, FinishStep DEF Refines, controller
<1>7. CASE (Revoke \/ Poison) /\ Finish(s)
  BY <1>2, <1>5, <1>7, WithdrawStep DEF Refines
<1> QED BY <1>4, <1>6, <1>7 DEF Authorize

LEMMA TakePermitRefines ==
  ASSUME Refining, NEW c \in Callers, TakePermit(c)
  PROVE  Refines
<1>1. CASE gate.at = "active"
  <2> DEFINE r == [call[c] EXCEPT !.at = "permitted", !.permit = gate.generation]
  <2>1. gate.generation \in Generations
    BY DEF Refining, IInv, TypeOK
  <2>2. "permitted" \in Places
    BY PlaceKinds
  <2>3. r \in Calls /\ r.at = "permitted" /\ r.generation = call[c].generation
    BY <2>1, <2>2, CallFields DEF Refining, IInv, Calls
  <2>4. call' = [call EXCEPT ![c] = r] /\ UNCHANGED <<controller, recovery, unknown>>
    BY <1>1 DEF TakePermit
  <2>5. c \in Submitters => call[c].at = "queued"
    BY DEF TakePermit
  <2>6. c \in Submitters => call[c].generation # 0
    BY <2>5, PlaceKinds DEF Refining, MintedSound
  <2> HIDE DEF r
  <2> QED BY <2>3, <2>4, <2>5, <2>6, PlaceKinds, QuietStep DEF Refines
<1>2. CASE gate.at # "active"
  <2>1. Fails(c)
    BY <1>2 DEF TakePermit, Fails
  <2> QED BY <2>1, FailsRefines
<1> QED BY <1>1, <1>2

LEMMA ReadClientRefines ==
  ASSUME Refining, NEW c \in Callers, ReadClient(c)
  PROVE  Refines
BY MoveStep, PlaceKinds DEF ReadClient, Refines

LEMMA CheckRefines ==
  ASSUME Refining, NEW c \in Callers, NEW from \in Fenced \ Out, NEW to \in Fenced \ Out,
         Check(c, from, to)
  PROVE  Refines
<1>1. CASE c \in Submitters /\ Passes(c, "backoff")
  <2> DEFINE r == [call[c] EXCEPT !.at = "backoff"]
  <2>1. "backoff" \in Places \ Fenced /\ UNCHANGED <<controller, recovery, unknown>>
    BY <1>1, PlaceKinds DEF Passes
  <2>2. r \in Calls /\ call' = [call EXCEPT ![c] = r] /\ r.at = "backoff"
    BY <1>1, <2>1, CallMoved DEF Passes, Refining, IInv
  <2> HIDE DEF r
  <2> QED BY <2>1, <2>2, EndStep DEF Refines
<1> QED BY <1>1, PassesRefines, RefusedRefines, FailsRefines DEF Check

LEMMA SignRefines ==
  ASSUME Refining, NEW s \in Submitters, Sign(s)
  PROVE  Refines
BY PassesRefines, RefusedRefines, FailsRefines, PlaceKinds DEF Sign, Callers

(* The first poll begins the POST: capability, permit and client agree, the *)
(* controller stands, and nobody else is in the serial section.            *)
LEMMA FirstPollRefines ==
  ASSUME Refining, NEW s \in Submitters, FirstPoll(s)
  PROVE  Refines
<1>1. s \in Callers /\ TypeOK /\ call[s].at = "signed"
  BY DEF Callers, Refining, IInv, FirstPoll
<1>2. "signed" \in Serial /\ "signed" \in Checked /\ "signed" \in Fenced /\ "signed" \notin Out
  BY PlaceKinds DEF Serial, Guarding, Checked
<1>3. Posting = {}
  <2>1. \A t \in Submitters : t \in Posting => t = s
    BY <1>1, <1>2, OutFacts, PostingAlone DEF Refining, IInv, CallsSound, SerialExclusive, Callers
  <2> QED BY <1>1, <1>2, <2>1, PostingAlone DEF Refining
<1>4. CASE Authorized(s) /\ Passes(s, "posted")
  <2> DEFINE r == [call[s] EXCEPT !.at = "posted"]
  <2>1. "posted" \in Places
    BY OutFacts, PlaceKinds
  <2>2. r \in Calls /\ call' = [call EXCEPT ![s] = r] /\ r.at = "posted"
        /\ r.generation = call[s].generation
    BY <1>1, <1>4, <2>1, CallMoved DEF Passes
  <2> HIDE DEF r
  <2>3. Posting' = {s}
    BY <1>1, <1>3, <2>2, OutFacts, PostingMoves
  <2>4. /\ call[s].permit = installed
        /\ call[s].generation = installed
        /\ call[s].permit \notin unknown
        /\ lease # "held"
        /\ call[s].generation # 0
    BY <1>1, <1>2 DEF Refining, IInv, CallsSound, PlaceSound, MintedSound
  <2>5. ~poisoned /\ active.generation = installed
    BY <1>4, <2>4 DEF Authorized
  <2>6. Authority!Begin(s)
    BY <1>3, <1>4, <2>3, <2>4, <2>5 DEF Authority!Begin, Passes, controller, recovery
  <2>7. GrantSound' /\ MintedSound'
    BY <1>1, <1>4, <2>2, <2>4, GrantKept, MintedMoves DEF Refining, Passes, recovery
  <2> QED BY <2>6, <2>7 DEF Refines, AuthorityStep, Authority!Next
<1>5. CASE Poison /\ Finish(s) /\ UNCHANGED <<latch, recovery, unknown>>
  <2>1. Resting \in Calls /\ Resting.at = "idle" /\ call' = [call EXCEPT ![s] = Resting]
    BY <1>5, ValueTypes DEF Finish, Resting
  <2>2. Posting' = Posting
    BY <1>1, <1>3, <2>1, PlaceKinds, PostingMoves
  <2>3. MintedSound'
    BY <1>1, <2>1, PlaceKinds, MintedMoves DEF Refining
  <2> QED BY <1>5, <2>2, <2>3, WithdrawStep DEF Refines
<1>6. CASE Refused(s)
  BY <1>1, <1>6, RefusedRefines
<1> QED BY <1>4, <1>5, <1>6 DEF FirstPoll

LEMMA AmbiguousResponseRefines ==
  ASSUME Refining, NEW s \in Submitters, AmbiguousResponse(s)
  PROVE  Refines
<1>1. s \in Callers /\ s \in Posting
  BY OutFacts, PostingAlone DEF AmbiguousResponse, Callers, Refining
<1> QED BY <1>1, FinishStep DEF AmbiguousResponse, Refines

LEMMA DefiniteResponseRefines ==
  ASSUME Refining, NEW s \in Submitters, DefiniteResponse(s)
  PROVE  Refines
<1>1. PICK answer \in Settling : Move(s, answer)
  BY DEF DefiniteResponse
<1>2. answer \in Out /\ answer \in Places /\ call[s].at \in Out /\ call[s].at \in Fenced
  BY PlaceKinds, OutFacts DEF DefiniteResponse
<1> QED BY <1>1, <1>2, MoveStep DEF DefiniteResponse, Refines, Callers

LEMMA SettleRefines ==
  ASSUME Refining, NEW s \in Submitters, Settle(s)
  PROVE  Refines
<1>1. s \in Callers /\ UNCHANGED <<controller, recovery, unknown>>
  BY DEF Settle, Callers
<1>2. CASE Move(s, "backoff")
  <2> DEFINE r == [call[s] EXCEPT !.at = "backoff"]
  <2>1. "backoff" \in Places \ Fenced
    BY PlaceKinds
  <2>2. r \in Calls /\ call' = [call EXCEPT ![s] = r] /\ r.at = "backoff"
    BY <1>1, <1>2, <2>1, CallMoved DEF Refining, IInv
  <2> HIDE DEF r
  <2> QED BY <1>1, <2>1, <2>2, EndStep DEF Refines
<1>3. CASE Finish(s)
  BY <1>1, <1>3, FinishStep DEF Refines
<1> QED BY <1>2, <1>3 DEF Settle

LEMMA RetryRefines ==
  ASSUME Refining, NEW s \in Submitters, Retry(s)
  PROVE  Refines
<1>1. s \in Callers /\ UNCHANGED <<controller, recovery, unknown>> /\ call[s].at = "backoff"
  BY DEF Retry, Callers
<1>2. CASE gate.at = "active" /\ call[s].tries < MaxTries
  <2> DEFINE r == [Resting EXCEPT !.at = "authorizing", !.tries = call[s].tries + 1]
  <2>1. call[s].tries + 1 \in 0 .. MaxTries
    BY <1>1, <1>2, CallFields, SubmissionAssumption DEF Refining, IInv
  <2>2. r \in Calls /\ r.at = "authorizing"
    BY <2>1, PlaceFacts, ValueTypes DEF Calls
  <2>3. call' = [call EXCEPT ![s] = r]
    BY <1>2 DEF Retry
  <2> HIDE DEF r
  <2> QED BY <1>1, <2>2, <2>3, PlaceKinds, QuietStep DEF Refines
<1>3. CASE ~(gate.at = "active" /\ call[s].tries < MaxTries)
  BY <1>1, <1>3, FinishStep DEF Retry, Refines
<1> QED BY <1>2, <1>3

LEMMA SubmitterStepRefines ==
  ASSUME Refining, NEW s \in Submitters, SubmitterStep(s)
  PROVE  Refines
<1>1. s \in Callers
  BY DEF Callers
<1>2. FirstCheck(s) \/ SecondCheck(s) => Refines
  BY <1>1, PlaceKinds, CheckRefines DEF FirstCheck, SecondCheck
<1> QED BY <1>1, <1>2, AuthorizeRefines, ReadClientRefines, SignRefines, FirstPollRefines,
           AmbiguousResponseRefines, DefiniteResponseRefines, SettleRefines, RetryRefines
        DEF SubmitterStep

LEMMA PreparerStepRefines ==
  ASSUME Refining, NEW p \in Preparers, PreparerStep(p)
  PROVE  Refines
<1>1. p \in Callers
  BY DEF Callers
<1>2. FirstCheck(p) => Refines
  BY <1>1, PlaceKinds, CheckRefines DEF FirstCheck
<1>3. FinishPreparation(p) => Refines
  BY <1>1, RefusedRefines, FailsRefines DEF FinishPreparation
<1> QED BY <1>1, <1>2, <1>3, ReadClientRefines DEF PreparerStep

(* Recovery: only the activation grants, on a fence that was drained.      *)
LEMMA RecoveryKeepsCalls ==
  ASSUME MintedSound, UNCHANGED call
  PROVE  MintedSound' /\ Posting' = Posting
BY DEF MintedSound, Posting

LEMMA LeaseRefines ==
  ASSUME Refining, RequestExclusive \/ AcquireExclusive \/ ReleaseExclusive
  PROVE  Refines
<1>1. UNCHANGED <<controller, installed, refresh, call, unknown>>
  BY DEF RequestExclusive, AcquireExclusive, ReleaseExclusive
<1>2. MintedSound' /\ Posting' = Posting
  BY <1>1, RecoveryKeepsCalls DEF Refining
<1>3. CASE RequestExclusive
  <2>1. epoch \in Nat /\ barrier' = epoch /\ epoch' = epoch
    BY <1>1, <1>3, SubmissionAssumption DEF RequestExclusive, Refining, IInv, TypeOK, controller
  <2>2. GrantSound'
    BY <1>1, <2>1 DEF Refining, GrantSound, controller, None
  <2>3. Authority!Ask
    BY <1>1, <1>2, <1>3, <2>1 DEF Authority!Ask, RequestExclusive, controller
  <2> QED BY <1>2, <2>2, <2>3 DEF Refines, AuthorityStep, Authority!Next
<1>4. CASE AcquireExclusive
  <2>1. Posting = {}
    BY <1>4, OutFacts, PostingAlone DEF AcquireExclusive, HoldsFence, Refining
  <2>2. GrantSound'
    BY <1>1, <1>4, GrantKept DEF AcquireExclusive, Refining
  <2>3. Authority!Drained
    BY <1>1, <1>2, <1>4, <2>1 DEF Authority!Drained, AcquireExclusive, controller
  <2> QED BY <1>2, <2>2, <2>3 DEF Refines, AuthorityStep, Authority!Next
<1>5. CASE ReleaseExclusive
  <2>1. GrantSound'
    BY <1>1, <1>5, GrantKept DEF ReleaseExclusive, Refining
  <2>2. Authority!Release
    BY <1>1, <1>2, <1>5 DEF Authority!Release, ReleaseExclusive, controller
  <2> QED BY <1>2, <2>1, <2>2 DEF Refines, AuthorityStep, Authority!Next
<1> QED BY <1>3, <1>4, <1>5

LEMMA RefreshRefines ==
  ASSUME Refining, RevokeProtocolAuthority \/ StartRefresh \/ FinishRefresh \/ StartActivation
  PROVE  Refines
<1>1. UNCHANGED <<controller, lease, barrier, call, unknown>>
  BY DEF RevokeProtocolAuthority, StartRefresh, FinishRefresh, StartActivation, Refreshing,
         recovery
<1>2. MintedSound' /\ GrantSound' /\ Posting' = Posting
  BY <1>1, RecoveryKeepsCalls, GrantKept DEF Refining
<1>3. CASE UNCHANGED installed
  BY <1>1, <1>2, <1>3 DEF Refines, AuthorityStep, Authority!vars, controller
<1>4. CASE installed' = installed + 1 /\ ClientFree
  <2>1. Posting = {}
    BY <1>4, PostingAlone DEF Refining
  <2>2. Authority!Replace
    BY <1>1, <1>2, <1>4, <2>1 DEF Authority!Replace, controller
  <2> QED BY <1>2, <2>2 DEF Refines, AuthorityStep, Authority!Next
<1> QED BY <1>3, <1>4
        DEF RevokeProtocolAuthority, StartRefresh, FinishRefresh, StartActivation, recovery

LEMMA FinishActivationRefines ==
  ASSUME Refining, FinishActivation
  PROVE  Refines
<1>1. UNCHANGED <<epoch, poisoned, installed, lease, barrier, call, unknown>>
  BY DEF FinishActivation, Refreshing
<1>2. MintedSound' /\ Posting' = Posting
  BY <1>1, RecoveryKeepsCalls DEF Refining
<1>3. CASE UNCHANGED active
  BY <1>1, <1>2, <1>3, GrantKept DEF Refining, Refines, AuthorityStep, Authority!vars, controller
<1>4. CASE /\ CanActivate(installed)
           /\ LeaseActivates
           /\ active' = [epoch |-> epoch, generation |-> installed]
  <2>1. installed > quarantined /\ installed \in Nat /\ quarantined \in Nat
    BY <1>4, SubmissionAssumption DEF CanActivate, Refining, IInv, TypeOK, Generations
  <2>2. installed # 0
    BY <2>1
  <2>3. installed \notin unknown
    BY <2>1 DEF Refining, IInv, LatchSound
  <2>4. lease = "held" /\ ~poisoned /\ epoch = barrier /\ active.generation = 0
    BY <1>4 DEF LeaseActivates, None
  <2>5. Posting = {}
    BY <2>4, PostingAlone DEF Refining
  <2>6. active'.generation = installed /\ active'.epoch = epoch
    BY <1>4
  <2>7. Authority!Grant
    BY <1>1, <1>2, <2>2, <2>3, <2>4, <2>5, <2>6 DEF Authority!Grant
  <2>8. GrantSound'
    BY <1>1, <2>2, <2>4, <2>6 DEF Refining, GrantSound
  <2> QED BY <1>2, <2>7, <2>8 DEF Refines, AuthorityStep, Authority!Next
<1> QED BY <1>3, <1>4 DEF FinishActivation

LEMMA RecoveryStepRefines ==
  ASSUME Refining, RecoveryStep
  PROVE  Refines
<1>1. RequestRevocation => Refines
  BY RecoveryKeepsCalls, WithdrawStep DEF RequestRevocation, Refining, Refines
<1> QED BY <1>1, LeaseRefines, RefreshRefines, FinishActivationRefines DEF RecoveryStep

LEMMA NextRefines == Refining /\ [Next]_vars => AuthorityStep /\ Refining'
<1> SUFFICES ASSUME Refining, [Next]_vars PROVE AuthorityStep /\ Refining'
  OBVIOUS
<1>1. IInv'
  BY StepSound DEF Refining
<1>2. CASE \E c \in Callers : Start(c) \/ TakePermit(c) \/ Abandon(c)
  BY <1>1, <1>2, StartRefines, TakePermitRefines, FailsRefines DEF Abandon, Refines, Refining
<1>3. CASE \E s \in Submitters : SubmitterStep(s)
  BY <1>1, <1>3, SubmitterStepRefines DEF Refines, Refining
<1>4. CASE \E p \in Preparers : PreparerStep(p)
  BY <1>1, <1>4, PreparerStepRefines DEF Refines, Refining
<1>5. CASE RecoveryStep
  BY <1>1, <1>5, RecoveryStepRefines DEF Refines, Refining
<1>6. CASE UNCHANGED vars
  <2>1. UNCHANGED <<controller, recovery, call, unknown>>
    BY <1>6 DEF vars
  <2>2. MintedSound' /\ GrantSound' /\ Posting' = Posting
    BY <2>1, RecoveryKeepsCalls, GrantKept DEF Refining, recovery
  <2> QED BY <1>1, <2>1, <2>2, Stutters DEF Refining
<1> QED BY <1>2, <1>3, <1>4, <1>5, <1>6 DEF Next

LEMMA InitRefines == Init => Authority!Init /\ Refining
<1> SUFFICES ASSUME Init PROVE Authority!Init /\ Refining
  OBVIOUS
<1>1. \A c \in Callers : call[c].at = "idle"
  BY DEF Init, Resting
<1>2. MintedSound /\ Posting = {}
  BY <1>1, PlaceKinds DEF MintedSound, Posting, Callers, Settling
<1>3. GrantSound
  BY DEF Init, GrantSound
<1>4. Authority!Init
  BY <1>2 DEF Init, Authority!Init, None
<1> QED BY <1>2, <1>3, <1>4, InitSound DEF Refining

(* Controller, latch, fence, serial section, client guard and retries, for *)
(* any number of tasks, epochs and generations, are the abstract           *)
(* authority: no grant without a drain that nothing revoked, one POST at a *)
(* time, under the authority of the installed client (submission.rs and    *)
(* client.rs together).                                                    *)
THEOREM SubmissionImplementsAuthority == Spec => ImplementsPostingAuthority
<1>1. Init => Authority!Init /\ Refining
  BY InitRefines
<1>2. Refining /\ [Next]_vars => [Authority!Next]_(Authority!vars) /\ Refining'
  BY NextRefines DEF AuthorityStep
<1> QED BY <1>1, <1>2, PTL DEF Spec, ImplementsPostingAuthority, Authority!Spec

=============================================================================

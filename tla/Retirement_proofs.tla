-------------------------- MODULE Retirement_proofs --------------------------
(***************************************************************************)
(* Machine-checked theorems about Retirement, for every number of sessions *)
(* and drains and every capacity.                                          *)
(***************************************************************************)
EXTENDS Retirement, FiniteSetTheorems, TLAPS

-----------------------------------------------------------------------------
(* The inductive invariant.                                                *)

(* Custody decides about the slot; a session is done only when its task    *)
(* ended and its state is terminal; while session or guard own it, nobody  *)
(* has overwritten the state of a task that returned.                      *)
CustodyOf(s) ==
    /\ s \in slot <=> holder[s] \notin {"nobody", "done"}
    /\ holder[s] = "nobody" <=> task[s] = "none"
    /\ holder[s] = "done" => task[s] \in Ended /\ status[s] \in Terminal
    /\ holder[s] \in {"session", "guard"} /\ task[s] = "returned" => status[s] \in Terminal

CustodySound == \A s \in Sessions : CustodyOf(s)

SlotsBounded == Cardinality(slot) <= Capacity

(* A session is queued or being joined at most once, while the process     *)
(* custodian has it.                                                       *)
QueueSound ==
    /\ \A i \in DOMAIN commands : commands[i] \in Sessions =>
          holder[commands[i]] = "process" /\ commands[i] \notin joining
    /\ \A i, j \in DOMAIN commands :
          commands[i] \in Sessions /\ commands[i] = commands[j] => i = j
    /\ \A s \in joining : holder[s] = "process"

(* What a drain waits for stays with the two custodians or is done; a half *)
(* that is true has left nothing behind.                                   *)
DrainOf(d) ==
    /\ \A s \in before[d] : holder[s] \in {"process", "failed", "done"}
    /\ drain[d].process = "true" => \A s \in before[d] : holder[s] # "process"
    /\ drain[d].failed = "true" => \A s \in before[d] : holder[s] # "failed"

DrainsSound == \A d \in Drains : DrainOf(d)

IInv ==
    /\ TypeOK
    /\ CustodySound
    /\ SlotsBounded
    /\ QueueSound
    /\ RetainedIsExact
    /\ DrainsSound

-----------------------------------------------------------------------------
(* The counter.                                                            *)

Counted == {s \in Sessions : holder[s] \in {"counted", "process"}}

LEMMA CountedFinite ==
  ASSUME TypeOK
  PROVE  IsFiniteSet(Counted) /\ Cardinality(Counted) \in Nat
BY RetirementAssumption, FS_Subset, FS_CardinalityType DEF Counted

(* The counter stays exact when a session enters, leaves or does neither.  *)
LEMMA CountKept ==
  ASSUME TypeOK, RetainedIsExact, Counted' = Counted, retained' = retained
  PROVE  RetainedIsExact'
BY DEF RetainedIsExact, Counted

LEMMA CountUp ==
  ASSUME TypeOK, RetainedIsExact, NEW s \in Sessions, s \notin Counted,
         Counted' = Counted \cup {s}, retained' = retained + 1
  PROVE  RetainedIsExact' /\ retained' \in Nat
<1>1. Cardinality(Counted \cup {s}) = Cardinality(Counted) + 1
  BY CountedFinite, FS_AddElement
<1>2. retained = Cardinality(Counted) /\ (RetainedIsExact' <=> retained' = Cardinality(Counted'))
  BY DEF RetainedIsExact, Counted
<1>3. Cardinality(Counted') = Cardinality(Counted) + 1
  BY <1>1
<1> QED BY <1>2, <1>3, CountedFinite

LEMMA CountDown ==
  ASSUME TypeOK, RetainedIsExact, NEW s \in Sessions, s \in Counted,
         Counted' = Counted \ {s}, retained' = retained - 1
  PROVE  RetainedIsExact' /\ retained' \in Nat
<1>1. Cardinality(Counted \ {s}) = Cardinality(Counted) - 1 /\ IsFiniteSet(Counted \ {s})
  BY CountedFinite, FS_RemoveElement
<1>2. retained = Cardinality(Counted) /\ (RetainedIsExact' <=> retained' = Cardinality(Counted'))
  BY DEF RetainedIsExact, Counted
<1>3. Cardinality(Counted') = Cardinality(Counted) - 1 /\ Cardinality(Counted') \in Nat
  BY <1>1, FS_CardinalityType
<1> QED BY <1>2, <1>3

LEMMA CountZero ==
  ASSUME TypeOK, RetainedIsExact, retained = 0
  PROVE  \A s \in Sessions : holder[s] # "process"
<1>1. Counted = {}
  BY CountedFinite, FS_EmptySet DEF RetainedIsExact, Counted
<1> QED BY <1>1 DEF Counted

(* Fewer slots, or one more while there is room.                           *)
LEMMA SlotsReleased ==
  ASSUME TypeOK, SlotsBounded, slot' \subseteq slot
  PROVE  SlotsBounded' /\ slot' \subseteq Sessions
<1>1. IsFiniteSet(slot)
  BY RetirementAssumption, FS_Subset DEF TypeOK
<1>2. IsFiniteSet(slot') /\ Cardinality(slot') <= Cardinality(slot)
  BY <1>1, FS_Subset
<1>3. Cardinality(slot) \in Nat /\ Cardinality(slot') \in Nat
  BY <1>1, <1>2, FS_CardinalityType
<1> QED BY <1>2, <1>3, RetirementAssumption DEF SlotsBounded, TypeOK

LEMMA SlotTaken ==
  ASSUME TypeOK, NEW s \in Sessions, Cardinality(slot) < Capacity, slot' = slot \cup {s}
  PROVE  SlotsBounded' /\ slot' \subseteq Sessions
<1>1. IsFiniteSet(slot)
  BY RetirementAssumption, FS_Subset DEF TypeOK
<1>2. Cardinality(slot \cup {s}) = IF s \in slot THEN Cardinality(slot) ELSE Cardinality(slot) + 1
  BY <1>1, FS_AddElement
<1>3. Cardinality(slot) \in Nat
  BY <1>1, FS_CardinalityType
<1>4. Cardinality(slot') = Cardinality(slot \cup {s})
  OBVIOUS
<1> QED BY <1>2, <1>3, <1>4, RetirementAssumption DEF SlotsBounded, TypeOK

-----------------------------------------------------------------------------
(* A step that changes only one session's task, custody and state.         *)

LEMMA GiveFacts ==
  ASSUME TypeOK, NEW s \in Sessions, NEW to \in Holders, Give(s, to)
  PROVE  /\ holder' \in [Sessions -> Holders]
         /\ holder'[s] = to
         /\ \A r \in Sessions : r # s => holder'[r] = holder[r]
BY DEF TypeOK, Give

LEMMA MarkFacts ==
  ASSUME TypeOK, NEW s \in Sessions, NEW state \in Statuses, Mark(s, state)
  PROVE  /\ status' \in [Sessions -> Statuses]
         /\ status'[s] = state
         /\ \A r \in Sessions : r # s => status'[r] = status[r]
BY DEF TypeOK, Mark

(* How Counted changes when s is given to another holder.                  *)
LEMMA GiveCounted ==
  ASSUME TypeOK, NEW s \in Sessions, NEW to \in Holders, Give(s, to)
  PROVE  /\ to \in {"counted", "process"} => Counted' = Counted \cup {s}
         /\ to \notin {"counted", "process"} => Counted' = Counted \ {s}
<1>1. /\ holder'[s] = to
      /\ \A r \in Sessions : r # s => holder'[r] = holder[r]
  BY GiveFacts
<1>2. CASE to \in {"counted", "process"}
  BY <1>1, <1>2 DEF Counted
<1>3. CASE to \notin {"counted", "process"}
  BY <1>1, <1>3 DEF Counted
<1> QED BY <1>2, <1>3

(* The queue while s does not leave the process custodian.                 *)
LEMMA QueueKept ==
  ASSUME TypeOK, QueueSound, NEW s \in Sessions, NEW to \in Holders, Give(s, to),
         holder[s] # "process", commands' = commands, joining' = joining
  PROVE  QueueSound'
<1>1. \A r \in Sessions : holder[r] = "process" => holder'[r] = "process"
  BY GiveFacts
<1> QED BY <1>1 DEF QueueSound, TypeOK

(* The drains while s goes from one of the owners they do not wait for to  *)
(* another holder, or stays with the custodians and becomes done.          *)
LEMMA DrainsKept ==
  ASSUME TypeOK, DrainsSound, NEW s \in Sessions, NEW to \in Holders, Give(s, to),
         holder[s] \in {"process", "failed", "done"} => to = "done",
         UNCHANGED drains
  PROVE  DrainsSound'
<1>1. \A r \in Sessions : holder'[r] = holder[r] \/ r = s
  BY GiveFacts
<1>2. holder'[s] = to
  BY GiveFacts
<1>3. drain' = drain /\ before' = before
  BY DEF drains
<1>4. ASSUME NEW d \in Drains PROVE DrainOf(d)'
  <2>1. DrainOf(d)
    BY DEF DrainsSound
  <2>2. before[d] \subseteq Sessions
    BY DEF TypeOK
  <2> QED BY <1>1, <1>2, <1>3, <2>1, <2>2 DEF DrainOf
<1> QED BY <1>4 DEF DrainsSound

-----------------------------------------------------------------------------
(* The session.                                                            *)

LEMMA ConnectKeeps ==
  ASSUME IInv, NEW s \in Sessions, Connect(s)
  PROVE  IInv'
<1>0. TypeOK /\ Give(s, "session") /\ "session" \in Holders /\ holder[s] = "nobody"
  BY DEF IInv, Connect, Holders
<1>1. SlotsBounded' /\ slot' \subseteq Sessions
  BY <1>0, SlotTaken DEF Connect
<1>2. TypeOK'
  BY <1>0, <1>1, GiveFacts DEF Connect, TypeOK, Live, Running, thread, flags, drains
<1>3. CustodySound'
  <2>1. \A r \in Sessions : CustodyOf(r)
    BY DEF IInv, CustodySound
  <2>2. \A r \in Sessions : r # s => task'[r] = task[r]
    BY <1>0 DEF Connect, TypeOK
  <2>3. task'[s] = "running"
    BY <1>0 DEF Connect, TypeOK
  <2>4. slot' = slot \cup {s} /\ status' = status
    BY DEF Connect
  <2> QED BY <1>0, <2>1, <2>2, <2>3, <2>4, GiveFacts DEF CustodySound, CustodyOf, Ended
<1>4. QueueSound'
  BY <1>0, QueueKept DEF IInv, Connect, thread
<1>5. RetainedIsExact'
  <2>1. Counted' = Counted \ {s}
    BY <1>0, GiveCounted
  <2>2. s \notin Counted
    BY <1>0 DEF Counted
  <2>3. Counted' = Counted
    BY <2>1, <2>2
  <2> QED BY <1>0, <2>3, CountKept DEF IInv, Connect, thread
<1>6. DrainsSound'
  BY <1>0, DrainsKept DEF IInv, Connect, Holders
<1> QED BY <1>1, <1>2, <1>3, <1>4, <1>5, <1>6 DEF IInv

LEMMA TakeGuardKeeps ==
  ASSUME IInv, NEW s \in Sessions, TakeGuard(s)
  PROVE  IInv'
<1>0. TypeOK /\ Give(s, "guard") /\ "guard" \in Holders /\ holder[s] = "session"
  BY DEF IInv, TakeGuard, Holders
<1>1. /\ task' = task /\ slot' = slot /\ status' = status /\ commands' = commands
      /\ joining' = joining /\ retained' = retained /\ UNCHANGED flags /\ UNCHANGED drains
  BY DEF TakeGuard, thread
<1>2. TypeOK'
  BY <1>0, <1>1, GiveFacts DEF TakeGuard, TypeOK, flags, drains
<1>3. CustodySound'
  BY <1>0, <1>1, GiveFacts DEF IInv, CustodySound, CustodyOf
<1>4. QueueSound' /\ DrainsSound'
  BY <1>0, <1>1, QueueKept, DrainsKept DEF IInv
<1>5. RetainedIsExact'
  <2>1. s \notin Counted /\ Counted' = Counted \ {s}
    BY <1>0, GiveCounted DEF Counted
  <2>2. Counted' = Counted
    BY <2>1
  <2> QED BY <1>0, <1>1, <2>2, CountKept DEF IInv
<1>6. SlotsBounded'
  BY <1>1 DEF IInv, SlotsBounded
<1> QED BY <1>2, <1>3, <1>4, <1>5, <1>6 DEF IInv

LEMMA DropOwnerKeeps ==
  ASSUME IInv, NEW s \in Sessions, DropOwner(s)
  PROVE  IInv'
<1>0. /\ TypeOK /\ Give(s, "moving") /\ "moving" \in Holders
      /\ holder[s] \in {"session", "guard"}
  BY DEF IInv, DropOwner, Holders, Transferring
<1>1. /\ task' = task /\ slot' = slot /\ status' = status /\ commands' = commands
      /\ joining' = joining /\ retained' = retained /\ UNCHANGED flags /\ UNCHANGED drains
  BY DEF DropOwner, thread
<1>2. TypeOK'
  BY <1>0, <1>1, GiveFacts DEF DropOwner, TypeOK, flags, drains
<1>3. CustodySound'
  BY <1>0, <1>1, GiveFacts DEF IInv, CustodySound, CustodyOf
<1>4. QueueSound' /\ DrainsSound'
  BY <1>0, <1>1, QueueKept, DrainsKept DEF IInv
<1>5. RetainedIsExact'
  <2>1. s \notin Counted /\ Counted' = Counted \ {s}
    BY <1>0, GiveCounted DEF Counted
  <2>2. Counted' = Counted
    BY <2>1
  <2> QED BY <1>0, <1>1, <2>2, CountKept DEF IInv
<1>6. SlotsBounded'
  BY <1>1 DEF IInv, SlotsBounded
<1> QED BY <1>2, <1>3, <1>4, <1>5, <1>6 DEF IInv

LEMMA CompleteGuardKeeps ==
  ASSUME IInv, NEW s \in Sessions, CompleteGuard(s)
  PROVE  IInv'
<1>0. /\ TypeOK /\ Give(s, "done") /\ "done" \in Holders
      /\ holder[s] = "guard" /\ task[s] \in Ended
  BY DEF IInv, CompleteGuard, Holders
<1>1. /\ task' = task /\ slot' = slot \ {s} /\ commands' = commands
      /\ joining' = joining /\ retained' = retained /\ UNCHANGED flags /\ UNCHANGED drains
  BY DEF CompleteGuard, thread
<1>2. /\ status' \in [Sessions -> Statuses]
      /\ \A r \in Sessions : r # s => status'[r] = status[r]
      /\ status'[s] \in Terminal
  <2>1. CASE task[s] = "returned"
    <3>1. status' = status
      BY <2>1 DEF CompleteGuard
    <3> QED BY <1>0, <2>1, <3>1 DEF IInv, TypeOK, CustodySound, CustodyOf
  <2>2. CASE task[s] # "returned"
    <3>1. Mark(s, "TerminalCancelled") /\ "TerminalCancelled" \in Statuses \cap Terminal
      BY <2>2 DEF CompleteGuard, Statuses, Terminal
    <3> QED BY <1>0, <3>1, MarkFacts
  <2> QED BY <2>1, <2>2
<1>3. SlotsBounded' /\ slot' \subseteq Sessions
  BY <1>1, SlotsReleased DEF IInv
<1>4. TypeOK'
  BY <1>0, <1>1, <1>2, <1>3, GiveFacts DEF CompleteGuard, TypeOK, flags, drains
<1>5. CustodySound'
  BY <1>0, <1>1, <1>2, GiveFacts DEF IInv, CustodySound, CustodyOf
<1>6. QueueSound' /\ DrainsSound'
  BY <1>0, <1>1, QueueKept, DrainsKept DEF IInv
<1>7. RetainedIsExact'
  <2>1. s \notin Counted /\ Counted' = Counted \ {s}
    BY <1>0, GiveCounted DEF Counted
  <2>2. Counted' = Counted
    BY <2>1
  <2> QED BY <1>0, <1>1, <2>2, CountKept DEF IInv
<1> QED BY <1>3, <1>4, <1>5, <1>6, <1>7 DEF IInv

-----------------------------------------------------------------------------
(* The task.                                                               *)

(* Custody, queue, counter and drains do not depend on tasks.              *)
LEMMA HolderKept ==
  ASSUME IInv, UNCHANGED <<holder, slot, thread, flags, drains>>
  PROVE  SlotsBounded' /\ QueueSound' /\ RetainedIsExact' /\ DrainsSound'
<1>1. SlotsBounded' /\ QueueSound'
  BY DEF IInv, SlotsBounded, QueueSound, thread
<1>2. RetainedIsExact'
  BY DEF IInv, RetainedIsExact, thread
<1>3. DrainsSound'
  BY DEF IInv, DrainsSound, DrainOf, drains
<1> QED BY <1>1, <1>2, <1>3

LEMMA TaskKeeps ==
  ASSUME IInv, NEW s \in Sessions, TaskStep(s)
  PROVE  IInv'
<1>0. TypeOK /\ UNCHANGED <<holder, slot, shutdown, thread, flags, drains>>
  BY DEF IInv, TaskStep, TaskRequested, TaskReturns, TaskPanics, TaskAborts
<1>1. PICK to \in Live \cup Ended :
          /\ task' = [task EXCEPT ![s] = to]
          /\ to = "returned" =>
               \E state \in Terminal : Mark(s, state)
          /\ to # "returned" => status' = status \/ (to \notin Ended /\ Mark(s, "Requested"))
  BY DEF TaskStep, TaskRequested, TaskReturns, TaskPanics, TaskAborts, Live, Running, Ended, Terminal
<1>2. task[s] \in Live
  BY DEF TaskStep, TaskRequested, TaskReturns, TaskPanics, TaskAborts, Live, Running
<1>3. /\ task' \in [Sessions -> Live \cup Ended \cup {"none"}]
      /\ task'[s] = to
      /\ \A r \in Sessions : r # s => task'[r] = task[r]
  BY <1>0, <1>1 DEF TypeOK
<1>4. /\ status' \in [Sessions -> Statuses]
      /\ \A r \in Sessions : r # s => status'[r] = status[r]
      /\ to = "returned" => status'[s] \in Terminal
  <2>1. Terminal \subseteq Statuses /\ "Requested" \in Statuses
    BY DEF Statuses, Terminal
  <2> QED BY <1>0, <1>1, <2>1, MarkFacts DEF TypeOK
<1>5. TypeOK'
  BY <1>0, <1>3, <1>4 DEF TypeOK, thread, flags, drains
<1>6. holder[s] \notin {"nobody", "done"}
  BY <1>2 DEF IInv, CustodySound, CustodyOf, Live, Running, Ended
<1>7. to # "none"
  BY DEF Live, Running, Ended
<1>8. CustodySound'
  BY <1>0, <1>3, <1>4, <1>6, <1>7 DEF IInv, CustodySound, CustodyOf
<1> QED BY <1>0, <1>5, <1>8, HolderKept DEF IInv

-----------------------------------------------------------------------------
(* The transfer.                                                           *)

LEMMA CountTransferKeeps ==
  ASSUME IInv, NEW s \in Sessions, CountTransfer(s)
  PROVE  IInv'
<1>0. /\ TypeOK /\ holder[s] = "moving"
      /\ {"rejected", "counted"} \subseteq Holders
      /\ "RetainedByProcessCustodian" \in Statuses
  BY DEF IInv, CountTransfer, Holders, Transferring, Statuses
<1>1. /\ task' = task /\ slot' = slot /\ shutdown' = shutdown /\ commands' = commands
      /\ joining' = joining /\ UNCHANGED flags /\ UNCHANGED drains
  BY DEF CountTransfer, thread
<1>2. PICK to \in {"rejected", "counted"} :
          /\ Give(s, to)
          /\ to = "rejected" => retained' = retained /\ status' = status
          /\ to = "counted" => /\ retained' = retained + 1
                               /\ Mark(s, "RetainedByProcessCustodian")
  <2>1. CASE poisoned
    BY <2>1 DEF CountTransfer, thread
  <2>2. CASE ~poisoned
    BY <2>2 DEF CountTransfer
  <2> QED BY <2>1, <2>2
<1>3. s \notin Counted
  BY <1>0 DEF Counted
<1>4. /\ status' \in [Sessions -> Statuses]
      /\ \A r \in Sessions : r # s => status'[r] = status[r]
  BY <1>0, <1>2, MarkFacts DEF TypeOK
<1>5. RetainedIsExact' /\ retained' \in Nat
  <2>1. CASE to = "counted"
    BY <1>0, <1>2, <1>3, <2>1, GiveCounted, CountUp DEF IInv
  <2>2. CASE to = "rejected"
    <3>1. Counted' = Counted \ {s}
      BY <1>0, <1>2, <2>2, GiveCounted
    <3>2. Counted' = Counted
      BY <1>3, <3>1
    <3> QED BY <1>0, <1>2, <2>2, <3>2, CountKept DEF IInv, TypeOK
  <2> QED BY <2>1, <2>2
<1>6. TypeOK'
  BY <1>0, <1>1, <1>2, <1>4, <1>5, GiveFacts DEF TypeOK, flags, drains
<1>7. CustodySound'
  BY <1>0, <1>1, <1>2, <1>4, GiveFacts DEF IInv, CustodySound, CustodyOf
<1>8. QueueSound' /\ DrainsSound'
  BY <1>0, <1>1, <1>2, QueueKept, DrainsKept DEF IInv
<1>9. SlotsBounded'
  BY <1>1 DEF IInv, SlotsBounded
<1> QED BY <1>5, <1>6, <1>7, <1>8, <1>9 DEF IInv

(* A queue that grows by a session the custodian did not have yet.         *)
LEMMA QueueGrows ==
  ASSUME TypeOK, QueueSound, NEW s \in Sessions, holder[s] # "process",
         Give(s, "process"), commands' = Append(commands, s), joining' = joining
  PROVE  QueueSound'
<1>1. \A r \in Sessions : holder[r] = "process" => holder'[r] = "process"
  BY GiveFacts DEF Holders
<1>2. holder'[s] = "process"
  BY GiveFacts DEF Holders
<1>3. /\ commands \in Seq(Sessions \cup Drains)
      /\ DOMAIN commands' = 1 .. Len(commands) + 1
      /\ DOMAIN commands = 1 .. Len(commands)
      /\ Len(commands) \in Nat
      /\ commands'[Len(commands) + 1] = s
      /\ \A i \in DOMAIN commands : commands'[i] = commands[i]
  BY DEF TypeOK
<1>4. s \notin joining /\ \A i \in DOMAIN commands : commands[i] # s
  BY DEF QueueSound
<1>5. joining \subseteq Sessions
  BY DEF TypeOK
<1>6. \A i \in DOMAIN commands' : i \in DOMAIN commands \/ i = Len(commands) + 1
  BY <1>3
<1>7. \A i \in DOMAIN commands' : commands'[i] \in Sessions =>
          holder'[commands'[i]] = "process" /\ commands'[i] \notin joining'
  BY <1>1, <1>2, <1>3, <1>4, <1>6 DEF QueueSound
<1>8. \A i, j \in DOMAIN commands' :
          commands'[i] \in Sessions /\ commands'[i] = commands'[j] => i = j
  BY <1>3, <1>4, <1>6 DEF QueueSound
<1>9. \A r \in joining' : holder'[r] = "process"
  BY <1>1, <1>5 DEF QueueSound
<1> QED BY <1>7, <1>8, <1>9 DEF QueueSound

LEMMA SendTransferKeeps ==
  ASSUME IInv, NEW s \in Sessions, SendTransfer(s)
  PROVE  IInv'
<1>0. /\ TypeOK /\ holder[s] = "counted"
      /\ {"rejected", "process"} \subseteq Holders
  BY DEF IInv, SendTransfer, Holders, Transferring
<1>1. /\ task' = task /\ slot' = slot /\ status' = status /\ shutdown' = shutdown
      /\ joining' = joining /\ UNCHANGED flags /\ UNCHANGED drains
  BY DEF SendTransfer
<1>2. s \in Counted
  BY <1>0 DEF Counted
<1>3. SlotsBounded'
  BY <1>1 DEF IInv, SlotsBounded
<1>4. CASE Len(commands) < Capacity
  <2>1. Give(s, "process") /\ commands' = Append(commands, s) /\ retained' = retained
    BY <1>4 DEF SendTransfer
  <2>2. commands' \in Seq(Sessions \cup Drains) /\ Len(commands') <= Capacity
    BY <1>4, <2>1, RetirementAssumption DEF IInv, TypeOK
  <2>3. TypeOK'
    BY <1>0, <1>1, <2>1, <2>2, GiveFacts DEF TypeOK, flags, drains
  <2>4. CustodySound'
    BY <1>0, <1>1, <2>1, GiveFacts DEF IInv, CustodySound, CustodyOf
  <2>5. QueueSound'
    BY <1>0, <1>1, <2>1, QueueGrows DEF IInv
  <2>6. DrainsSound'
    BY <1>0, <1>1, <2>1, DrainsKept DEF IInv
  <2>7. Counted' = Counted \cup {s}
    BY <1>0, <2>1, GiveCounted
  <2>8. Counted' = Counted
    BY <1>2, <2>7
  <2>9. RetainedIsExact'
    BY <1>0, <2>1, <2>8, CountKept DEF IInv
  <2> QED BY <1>3, <2>3, <2>4, <2>5, <2>6, <2>9 DEF IInv
<1>5. CASE ~(Len(commands) < Capacity)
  <2>1. Give(s, "rejected") /\ commands' = commands /\ retained' = retained - 1
    BY <1>5 DEF SendTransfer
  <2>2. RetainedIsExact' /\ retained' \in Nat
    BY <1>0, <1>2, <2>1, GiveCounted, CountDown DEF IInv
  <2>3. TypeOK'
    BY <1>0, <1>1, <2>1, <2>2, GiveFacts DEF TypeOK, flags, drains
  <2>4. CustodySound'
    BY <1>0, <1>1, <2>1, GiveFacts DEF IInv, CustodySound, CustodyOf
  <2>5. QueueSound' /\ DrainsSound'
    BY <1>0, <1>1, <2>1, QueueKept, DrainsKept DEF IInv
  <2> QED BY <1>3, <2>2, <2>3, <2>4, <2>5 DEF IInv
<1> QED BY <1>4, <1>5

LEMMA RetainFailedKeeps ==
  ASSUME IInv, NEW s \in Sessions, RetainFailed(s)
  PROVE  IInv'
<1>0. /\ TypeOK /\ holder[s] = "rejected" /\ Give(s, "failed") /\ "failed" \in Holders
      /\ Mark(s, "RetainedByProcessCustodian") /\ "RetainedByProcessCustodian" \in Statuses
  BY DEF IInv, RetainFailed, Holders, Statuses
<1>1. /\ slot' = slot /\ shutdown' = shutdown /\ UNCHANGED thread
      /\ UNCHANGED flags /\ UNCHANGED drains
  BY DEF RetainFailed
<1>2. /\ task' \in [Sessions -> Live \cup Ended \cup {"none"}]
      /\ \A r \in Sessions : r # s => task'[r] = task[r]
      /\ task'[s] = "none" <=> task[s] = "none"
  BY <1>0 DEF RetainFailed, TypeOK, Live, Running
<1>3. TypeOK'
  BY <1>0, <1>1, <1>2, GiveFacts, MarkFacts DEF TypeOK, thread, flags, drains
<1>4. CustodySound'
  BY <1>0, <1>1, <1>2, GiveFacts, MarkFacts DEF IInv, CustodySound, CustodyOf
<1>5. QueueSound' /\ DrainsSound'
  BY <1>0, <1>1, QueueKept, DrainsKept DEF IInv, thread
<1>6. RetainedIsExact'
  <2>1. s \notin Counted /\ Counted' = Counted \ {s}
    BY <1>0, GiveCounted DEF Counted
  <2>2. Counted' = Counted
    BY <2>1
  <2> QED BY <1>0, <1>1, <2>2, CountKept DEF IInv, thread
<1>7. SlotsBounded'
  BY <1>1 DEF IInv, SlotsBounded
<1> QED BY <1>3, <1>4, <1>5, <1>6, <1>7 DEF IInv

-----------------------------------------------------------------------------
(* The custodian thread.                                                   *)

LEMMA TailFacts ==
  ASSUME TypeOK, commands # <<>>, commands' = Tail(commands)
  PROVE  /\ commands' \in Seq(Sessions \cup Drains)
         /\ Len(commands') <= Capacity
         /\ \A i \in DOMAIN commands' : i + 1 \in DOMAIN commands /\ commands'[i] = commands[i + 1]
         /\ 1 \in DOMAIN commands /\ Head(commands) = commands[1]
         /\ DOMAIN commands' \subseteq Nat \ {0}
<1>1. commands \in Seq(Sessions \cup Drains) /\ Len(commands) <= Capacity /\ Capacity \in Nat
  BY RetirementAssumption DEF TypeOK
<1>2. Len(commands) \in Nat /\ Len(commands) # 0
  BY <1>1
<1>3. /\ commands' \in Seq(Sessions \cup Drains)
      /\ Len(commands') = Len(commands) - 1
      /\ DOMAIN commands' = 1 .. (Len(commands) - 1)
      /\ DOMAIN commands = 1 .. Len(commands)
  BY <1>1, <1>2
<1>4. \A i \in 1 .. (Len(commands) - 1) : commands'[i] = commands[i + 1]
  BY <1>1, <1>2
<1> QED BY <1>1, <1>2, <1>3, <1>4

(* What a step that only takes the head of the queue leaves sound.         *)
LEMMA TakenKeeps ==
  ASSUME IInv, commands # <<>>, commands' = Tail(commands),
         UNCHANGED <<task, holder, slot, status, shutdown, retained, flags>>
  PROVE  CustodySound' /\ SlotsBounded' /\ RetainedIsExact'
<1>1. CustodySound' /\ SlotsBounded'
  BY DEF IInv, CustodySound, CustodyOf, SlotsBounded
<1>2. RetainedIsExact'
  BY DEF IInv, RetainedIsExact
<1> QED BY <1>1, <1>2

LEMMA TakeRetainKeeps ==
  ASSUME IInv, TakeRetain
  PROVE  IInv'
<1> DEFINE s == Head(commands)
<1>0. /\ TypeOK /\ QueueSound /\ joining = {} /\ commands # <<>> /\ s \in Sessions
      /\ joining' = {s} /\ commands' = Tail(commands)
      /\ UNCHANGED <<task, holder, slot, status, shutdown, retained, flags, drains>>
  BY DEF IInv, TakeRetain
<1>1. /\ commands' \in Seq(Sessions \cup Drains)
      /\ Len(commands') <= Capacity
      /\ \A i \in DOMAIN commands' : i + 1 \in DOMAIN commands /\ commands'[i] = commands[i + 1]
      /\ 1 \in DOMAIN commands /\ s = commands[1]
      /\ DOMAIN commands' \subseteq Nat \ {0}
  BY <1>0, TailFacts
<1>2. TypeOK'
  BY <1>0, <1>1 DEF TypeOK, flags, drains
<1>3. QueueSound'
  <2>1. holder[s] = "process" /\ holder' = holder
    BY <1>0, <1>1 DEF QueueSound
  <2>2. \A i \in DOMAIN commands' : i + 1 # 1 /\ i \in Nat
    BY <1>1
  <2>3. \A i \in DOMAIN commands' : commands'[i] \in Sessions =>
            holder'[commands'[i]] = "process" /\ commands'[i] # s
    BY <1>0, <1>1, <2>1, <2>2 DEF QueueSound
  <2>4. \A i, j \in DOMAIN commands' :
            commands'[i] \in Sessions /\ commands'[i] = commands'[j] => i = j
    <3>1. SUFFICES ASSUME NEW i \in DOMAIN commands', NEW j \in DOMAIN commands',
                          commands'[i] \in Sessions, commands'[i] = commands'[j]
                   PROVE  i = j
      OBVIOUS
    <3>2. i + 1 = j + 1
      BY <1>0, <1>1, <3>1 DEF QueueSound
    <3> QED BY <2>2, <3>2
  <2> QED BY <1>0, <2>1, <2>3, <2>4 DEF QueueSound
<1>4. DrainsSound'
  BY <1>0 DEF IInv, DrainsSound, DrainOf, drains
<1> QED BY <1>0, <1>2, <1>3, <1>4, TakenKeeps DEF IInv

LEMMA SignalBarrierKeeps ==
  ASSUME IInv, SignalBarrier
  PROVE  IInv'
<1> DEFINE d == Head(commands)
<1>0. /\ TypeOK /\ QueueSound /\ DrainsSound /\ commands # <<>> /\ d \in Drains
      /\ commands' = Tail(commands) /\ Signalled(d)
      /\ UNCHANGED <<task, holder, slot, status, shutdown, joining, retained, flags, before>>
  BY DEF IInv, SignalBarrier
<1>1. /\ commands' \in Seq(Sessions \cup Drains)
      /\ Len(commands') <= Capacity
      /\ \A i \in DOMAIN commands' : i + 1 \in DOMAIN commands /\ commands'[i] = commands[i + 1]
      /\ DOMAIN commands' \subseteq Nat \ {0}
  BY <1>0, TailFacts
<1>2. /\ drain' \in [Drains ->
                    [process : {"idle", "queued", "signalled", "true", "false"},
                     failed : {"idle", "polling", "true", "false"}]]
      /\ \A e \in Drains : /\ drain'[e].failed = drain[e].failed
                           /\ drain'[e].process = "true" => drain[e].process = "true"
  BY <1>0 DEF Signalled, TypeOK
<1>3. TypeOK'
  BY <1>0, <1>1, <1>2 DEF TypeOK, flags
<1>4. QueueSound'
  <2>1. \A i \in DOMAIN commands' : i \in Nat
    BY <1>1
  <2>2. \A i, j \in DOMAIN commands' :
            commands'[i] \in Sessions /\ commands'[i] = commands'[j] => i = j
    <3>1. SUFFICES ASSUME NEW i \in DOMAIN commands', NEW j \in DOMAIN commands',
                          commands'[i] \in Sessions, commands'[i] = commands'[j]
                   PROVE  i = j
      OBVIOUS
    <3>2. i + 1 = j + 1
      BY <1>0, <1>1, <3>1 DEF QueueSound
    <3> QED BY <2>1, <3>2
  <2> QED BY <1>0, <1>1, <2>2 DEF QueueSound
<1>5. DrainsSound'
  BY <1>0, <1>2 DEF DrainsSound, DrainOf
<1> QED BY <1>0, <1>3, <1>4, <1>5, TakenKeeps DEF IInv

LEMMA JoinRetainedKeeps ==
  ASSUME IInv, NEW s \in Sessions, JoinRetained(s)
  PROVE  IInv'
<1>0. /\ TypeOK /\ Give(s, "done") /\ "done" \in Holders
      /\ s \in joining /\ holder[s] = "process" /\ task[s] \in Ended
      /\ joining' = {} /\ task' = task /\ slot' = slot \ {s} /\ shutdown' = shutdown
      /\ commands' = commands /\ retained' = retained - 1
      /\ UNCHANGED flags /\ UNCHANGED drains
  BY DEF IInv, QueueSound, JoinRetained, Holders
<1>1. /\ status' \in [Sessions -> Statuses]
      /\ \A r \in Sessions : r # s => status'[r] = status[r]
      /\ status'[s] \in Terminal
  <2>1. CASE task[s] # "returned" \/ status[s] \notin Terminal
    <3>1. Mark(s, "TerminalCancelled") /\ "TerminalCancelled" \in Statuses \cap Terminal
      BY <2>1 DEF JoinRetained, Statuses, Terminal
    <3> QED BY <1>0, <3>1, MarkFacts
  <2>2. CASE task[s] = "returned" /\ status[s] \in Terminal
    BY <1>0, <2>2 DEF JoinRetained, TypeOK
  <2> QED BY <2>1, <2>2
<1>2. SlotsBounded' /\ slot' \subseteq Sessions
  BY <1>0, SlotsReleased DEF IInv
<1>3. RetainedIsExact' /\ retained' \in Nat
  <2>1. s \in Counted
    BY <1>0 DEF Counted
  <2> QED BY <1>0, <2>1, GiveCounted, CountDown DEF IInv
<1>4. TypeOK'
  BY <1>0, <1>1, <1>2, <1>3, GiveFacts DEF TypeOK, flags, drains
<1>5. CustodySound'
  BY <1>0, <1>1, GiveFacts DEF IInv, CustodySound, CustodyOf
<1>6. QueueSound'
  <2>1. \A i \in DOMAIN commands : commands[i] \in Sessions =>
            commands[i] # s /\ holder'[commands[i]] = "process"
    BY <1>0, GiveFacts DEF IInv, QueueSound
  <2> QED BY <1>0, <2>1 DEF IInv, QueueSound
<1>7. DrainsSound'
  BY <1>0, DrainsKept DEF IInv
<1> QED BY <1>2, <1>3, <1>4, <1>5, <1>6, <1>7 DEF IInv

-----------------------------------------------------------------------------
(* The drain.                                                              *)

LEMMA StartDrainKeeps ==
  ASSUME IInv, NEW d \in Drains, StartDrain(d)
  PROVE  IInv'
<1>0. /\ TypeOK /\ QueueSound /\ DrainsSound /\ d \notin Sessions
      /\ UNCHANGED <<task, holder, slot, status, shutdown, joining, retained, flags>>
      /\ before' = [before EXCEPT ![d] = {s \in Sessions : holder[s] \in {"process", "failed"}}]
  BY RetirementAssumption DEF IInv, StartDrain
<1>1. PICK half \in {"queued", "false"} :
          /\ drain' = [drain EXCEPT ![d] = [process |-> half, failed |-> "polling"]]
          /\ half = "queued" => /\ Len(commands) < Capacity
                                /\ commands' = Append(commands, d)
          /\ half = "false" => commands' = commands
  <2>1. CASE Len(commands) < Capacity
    BY <2>1 DEF StartDrain
  <2>2. CASE ~(Len(commands) < Capacity)
    BY <2>2 DEF StartDrain
  <2> QED BY <2>1, <2>2
<1>2. /\ commands \in Seq(Sessions \cup Drains)
      /\ DOMAIN commands = 1 .. Len(commands)
      /\ Len(commands) \in Nat /\ Len(commands) <= Capacity /\ Capacity \in Nat
  BY <1>0, RetirementAssumption DEF TypeOK
<1>3. commands' \in Seq(Sessions \cup Drains) /\ Len(commands') <= Capacity
  <2>1. CASE half = "queued"
    BY <1>1, <1>2, <2>1
  <2>2. CASE half = "false"
    BY <1>1, <1>2, <2>2
  <2> QED BY <2>1, <2>2
<1>4. \A i \in DOMAIN commands' : commands'[i] \in Sessions =>
          i \in DOMAIN commands /\ commands'[i] = commands[i]
  <2>1. CASE half = "queued"
    <3>1. /\ DOMAIN commands' = 1 .. (Len(commands) + 1)
          /\ commands'[Len(commands) + 1] = d
          /\ \A i \in DOMAIN commands : commands'[i] = commands[i]
      BY <1>1, <1>2, <2>1
    <3> QED BY <1>0, <1>2, <3>1
  <2>2. CASE half = "false"
    BY <1>1, <2>2
  <2> QED BY <2>1, <2>2
<1>5. TypeOK'
  <2>1. /\ drain' \in [Drains ->
                    [process : {"idle", "queued", "signalled", "true", "false"},
                     failed : {"idle", "polling", "true", "false"}]]
        /\ before' \in [Drains -> SUBSET Sessions]
    BY <1>0, <1>1 DEF TypeOK
  <2> QED BY <1>0, <1>3, <2>1 DEF TypeOK, flags
<1>6. QueueSound'
  <2>1. \A i, j \in DOMAIN commands' :
            commands'[i] \in Sessions /\ commands'[i] = commands'[j] => i = j
    <3>1. SUFFICES ASSUME NEW i \in DOMAIN commands', NEW j \in DOMAIN commands',
                          commands'[i] \in Sessions, commands'[i] = commands'[j]
                   PROVE  i = j
      OBVIOUS
    <3>2. /\ i \in DOMAIN commands /\ j \in DOMAIN commands
          /\ commands[i] = commands[j] /\ commands[i] \in Sessions
      BY <1>4, <3>1
    <3> QED BY <1>0, <3>2 DEF QueueSound
  <2> QED BY <1>0, <1>4, <2>1 DEF QueueSound
<1>7. DrainsSound'
  <2>1. ASSUME NEW e \in Drains PROVE DrainOf(e)'
    <3>1. CASE e = d
      <4>1. /\ before'[d] = {s \in Sessions : holder[s] \in {"process", "failed"}}
            /\ drain'[d].process # "true" /\ drain'[d].failed # "true"
        BY <1>0, <1>1 DEF TypeOK
      <4> QED BY <1>0, <3>1, <4>1 DEF DrainOf
    <3>2. CASE e # d
      <4>1. before'[e] = before[e] /\ drain'[e] = drain[e]
        BY <1>0, <1>1, <3>2 DEF TypeOK
      <4> QED BY <1>0, <4>1 DEF DrainsSound, DrainOf
    <3> QED BY <3>1, <3>2
  <2> QED BY <2>1 DEF DrainsSound
<1>8. CustodySound' /\ SlotsBounded' /\ RetainedIsExact'
  BY <1>0 DEF IInv, CustodySound, CustodyOf, SlotsBounded, RetainedIsExact
<1> QED BY <1>5, <1>6, <1>7, <1>8 DEF IInv

LEMMA CheckRetainedKeeps ==
  ASSUME IInv, NEW d \in Drains, CheckRetained(d)
  PROVE  IInv'
<1>0. /\ TypeOK /\ DrainsSound
      /\ UNCHANGED <<task, holder, slot, status, shutdown, thread, flags, before>>
  BY DEF IInv, CheckRetained
<1>1. PICK half \in {"true", "false"} :
          /\ drain' = [drain EXCEPT ![d].process = half]
          /\ half = "true" => retained = 0
  BY DEF CheckRetained
<1>2. /\ drain' \in [Drains ->
                    [process : {"idle", "queued", "signalled", "true", "false"},
                     failed : {"idle", "polling", "true", "false"}]]
      /\ drain'[d].process = half
      /\ \A e \in Drains : /\ drain'[e].failed = drain[e].failed
                           /\ e # d => drain'[e] = drain[e]
  BY <1>0, <1>1 DEF TypeOK
<1>3. TypeOK'
  BY <1>0, <1>2 DEF TypeOK, thread, flags
<1>4. DrainsSound'
  <2>1. ASSUME half = "true" PROVE \A s \in Sessions : holder[s] # "process"
    BY <1>0, <1>1, <2>1, CountZero DEF IInv
  <2>2. \A e \in Drains : before[e] \subseteq Sessions
    BY <1>0 DEF TypeOK
  <2> QED BY <1>0, <1>2, <2>1, <2>2 DEF DrainsSound, DrainOf
<1>5. CustodySound' /\ SlotsBounded' /\ QueueSound' /\ RetainedIsExact'
  BY <1>0 DEF IInv, CustodySound, CustodyOf, SlotsBounded, QueueSound, RetainedIsExact, thread
<1> QED BY <1>3, <1>4, <1>5 DEF IInv

LEMMA PollFailedKeeps ==
  ASSUME IInv, NEW d \in Drains, PollFailed(d)
  PROVE  IInv'
<1>0. /\ TypeOK /\ QueueSound /\ DrainsSound /\ CustodySound
      /\ UNCHANGED <<task, shutdown, thread, poisoned, before>>
      /\ slot' = slot \ Ready
      /\ "done" \in Holders /\ "TerminalCancelled" \in Statuses \cap Terminal
  BY DEF IInv, PollFailed, Holders, Statuses, Terminal
<1>1. \A s \in Sessions : holder'[s] = IF s \in Ready THEN "done" ELSE holder[s]
  BY DEF PollFailed
<1>2. \A s \in Sessions : status'[s] = IF s \in Ready THEN "TerminalCancelled" ELSE status[s]
  BY DEF PollFailed
<1>3. holder' \in [Sessions -> Holders] /\ status' \in [Sessions -> Statuses]
  BY <1>0 DEF PollFailed, TypeOK
<1>4. drain_failed' \in BOOLEAN
  BY <1>0 DEF PollFailed, TypeOK
<1>5. \A s \in Ready : s \in Sessions /\ holder[s] = "failed" /\ task[s] \in Ended
  BY DEF Ready
<1>6. /\ drain' \in [Drains ->
                    [process : {"idle", "queued", "signalled", "true", "false"},
                     failed : {"idle", "polling", "true", "false"}]]
      /\ \A e \in Drains : /\ drain'[e].process = drain[e].process
                           /\ \/ drain'[e].failed = drain[e].failed
                              \/ Remaining = {}
  <2>1. CASE Remaining # {}
    BY <1>0, <2>1 DEF PollFailed, TypeOK
  <2>2. CASE Remaining = {}
    <3>1. PICK half \in {"true", "false"} : drain' = [drain EXCEPT ![d].failed = half]
      BY <2>2 DEF PollFailed
    <3> QED BY <1>0, <2>2, <3>1 DEF TypeOK
  <2> QED BY <2>1, <2>2
<1>7. SlotsBounded' /\ slot' \subseteq Sessions
  BY <1>0, SlotsReleased DEF IInv
<1>8. TypeOK'
  BY <1>0, <1>3, <1>4, <1>6, <1>7 DEF TypeOK, thread
<1>9. CustodySound'
  <2>1. ASSUME NEW s \in Sessions PROVE CustodyOf(s)'
    <3>1. CASE s \in Ready
      <4>1. /\ holder'[s] = "done" /\ status'[s] \in Terminal /\ task'[s] \in Ended
            /\ s \notin slot'
        BY <1>0, <1>1, <1>2, <1>5, <3>1
      <4> QED BY <4>1 DEF CustodyOf, Ended
    <3>2. CASE s \notin Ready
      <4>1. /\ holder'[s] = holder[s] /\ status'[s] = status[s] /\ task'[s] = task[s]
            /\ s \in slot' <=> s \in slot
        BY <1>0, <1>1, <1>2, <3>2
      <4>2. CustodyOf(s)
        BY <1>0 DEF CustodySound
      <4> QED BY <4>1, <4>2 DEF CustodyOf
    <3> QED BY <3>1, <3>2
  <2> QED BY <2>1 DEF CustodySound
<1>10. \A s \in Sessions : holder[s] = "process" => holder'[s] = "process"
  BY <1>1, <1>5
<1>11. QueueSound'
  <2>1. commands' = commands /\ joining' = joining /\ joining \subseteq Sessions
    BY <1>0 DEF thread, TypeOK
  <2> QED BY <1>0, <1>10, <2>1 DEF QueueSound
<1>12. RetainedIsExact'
  <2>1. Counted' = Counted
    BY <1>1, <1>5 DEF Counted
  <2> QED BY <1>0, <2>1, CountKept DEF IInv, thread
<1>13. DrainsSound'
  <2>1. ASSUME NEW e \in Drains PROVE DrainOf(e)'
    <3>1. DrainOf(e) /\ before'[e] = before[e] /\ before[e] \subseteq Sessions
      BY <1>0 DEF DrainsSound, TypeOK
    <3>2. \A s \in before[e] : /\ holder'[s] \in {"process", "failed", "done"}
                               /\ holder'[s] = "process" => holder[s] = "process"
                               /\ holder'[s] = "failed" => holder[s] = "failed"
      BY <1>1, <3>1 DEF DrainOf
    <3>3. Remaining = {} => \A s \in Sessions : holder'[s] # "failed"
      BY <1>1, <1>5 DEF Remaining
    <3> QED BY <1>6, <3>1, <3>2, <3>3 DEF DrainOf
  <2> QED BY <2>1 DEF DrainsSound
<1> QED BY <1>7, <1>8, <1>9, <1>11, <1>12, <1>13 DEF IInv

LEMMA EndDrainKeeps ==
  ASSUME IInv, NEW d \in Drains, EndDrain(d)
  PROVE  IInv'
<1>0. /\ TypeOK /\ DrainsSound
      /\ UNCHANGED <<task, holder, slot, status, shutdown, thread, flags>>
      /\ drain' = [drain EXCEPT ![d] = Undrained]
      /\ before' = [before EXCEPT ![d] = {}]
  BY DEF IInv, EndDrain
<1>1. TypeOK'
  BY <1>0 DEF TypeOK, Undrained, thread, flags
<1>2. DrainsSound'
  <2>1. ASSUME NEW e \in Drains PROVE DrainOf(e)'
    <3>1. CASE e = d
      <4>1. before'[d] = {}
        BY <1>0 DEF TypeOK
      <4> QED BY <3>1, <4>1 DEF DrainOf
    <3>2. CASE e # d
      <4>1. before'[e] = before[e] /\ drain'[e] = drain[e]
        BY <1>0, <3>2 DEF TypeOK
      <4> QED BY <1>0, <4>1 DEF DrainsSound, DrainOf
    <3> QED BY <3>1, <3>2
  <2> QED BY <2>1 DEF DrainsSound
<1>3. CustodySound' /\ SlotsBounded' /\ QueueSound' /\ RetainedIsExact'
  BY <1>0 DEF IInv, CustodySound, CustodyOf, SlotsBounded, QueueSound, RetainedIsExact, thread
<1> QED BY <1>1, <1>2, <1>3 DEF IInv

(* A step that changes nothing but the poison flag.                        *)
LEMMA PoisonKeeps ==
  ASSUME IInv, PoisonLedger \/ UNCHANGED vars
  PROVE  IInv'
<1>1. UNCHANGED <<task, holder, slot, status, shutdown, thread, drain_failed, drains>>
  BY DEF PoisonLedger, vars, flags
<1>2. poisoned' \in BOOLEAN
  BY DEF IInv, TypeOK, PoisonLedger, vars, flags
<1>3. TypeOK'
  BY <1>1, <1>2 DEF IInv, TypeOK, thread, drains
<1>4. CustodySound' /\ SlotsBounded' /\ QueueSound' /\ RetainedIsExact' /\ DrainsSound'
  BY <1>1 DEF IInv, CustodySound, CustodyOf, SlotsBounded, QueueSound, RetainedIsExact,
              DrainsSound, DrainOf, thread, drains
<1> QED BY <1>3, <1>4 DEF IInv

-----------------------------------------------------------------------------
(* The theorems.                                                           *)

LEMMA InitSound ==
  ASSUME Init
  PROVE  IInv
<1>1. TypeOK
  <2>1. commands \in Seq(Sessions \cup Drains) /\ Len(commands) <= Capacity
    BY RetirementAssumption DEF Init
  <2>2. /\ task \in [Sessions -> Live \cup Ended \cup {"none"}]
        /\ holder \in [Sessions -> Holders]
        /\ status \in [Sessions -> Statuses]
    BY DEF Init, Holders, Statuses
  <2>3. /\ drain \in [Drains ->
                    [process : {"idle", "queued", "signalled", "true", "false"},
                     failed : {"idle", "polling", "true", "false"}]]
        /\ before \in [Drains -> SUBSET Sessions]
    BY DEF Init, Undrained
  <2>4. /\ slot \subseteq Sessions /\ shutdown \subseteq Sessions /\ joining \subseteq Sessions
        /\ retained \in Nat /\ poisoned \in BOOLEAN /\ drain_failed \in BOOLEAN
    BY DEF Init
  <2> QED BY <2>1, <2>2, <2>3, <2>4 DEF TypeOK
<1>2. CustodySound /\ QueueSound /\ DrainsSound
  BY DEF Init, CustodySound, CustodyOf, QueueSound, DrainsSound, DrainOf
<1>3. Cardinality({}) = 0
  BY FS_EmptySet
<1>4. SlotsBounded
  BY <1>3, RetirementAssumption DEF Init, SlotsBounded
<1>5. RetainedIsExact
  <2>1. Counted = {}
    BY DEF Init, Counted
  <2> QED BY <1>3, <2>1 DEF Init, RetainedIsExact, Counted
<1> QED BY <1>1, <1>2, <1>4, <1>5 DEF IInv

(* The inductive invariant holds in every reachable state of the custody   *)
(* of session tasks, for any sessions, drains and capacity.                *)
THEOREM CustodyInductive == Spec => []IInv
<1>1. Init => IInv
  BY InitSound
<1>2. IInv /\ [Next]_vars => IInv'
  <2> SUFFICES ASSUME IInv, [Next]_vars PROVE IInv'
    OBVIOUS
  <2>1. CASE \E s \in Sessions : Connect(s) \/ TakeGuard(s) \/ CompleteGuard(s) \/ DropOwner(s)
    BY <2>1, ConnectKeeps, TakeGuardKeeps, CompleteGuardKeeps, DropOwnerKeeps
  <2>2. CASE \E s \in Sessions : TaskStep(s)
    BY <2>2, TaskKeeps
  <2>3. CASE \E s \in Sessions : TransferStep(s)
    BY <2>3, CountTransferKeeps, SendTransferKeeps, RetainFailedKeeps DEF TransferStep
  <2>4. CASE ThreadStep
    BY <2>4, TakeRetainKeeps, SignalBarrierKeeps, JoinRetainedKeeps DEF ThreadStep
  <2>5. CASE \E d \in Drains : DrainStep(d)
    BY <2>5, StartDrainKeeps, CheckRetainedKeeps, PollFailedKeeps, EndDrainKeeps DEF DrainStep
  <2>6. CASE PoisonLedger \/ UNCHANGED vars
    BY <2>6, PoisonKeeps
  <2> QED BY <2>1, <2>2, <2>3, <2>4, <2>5, <2>6 DEF Next
<1> QED BY <1>1, <1>2, PTL DEF Spec

(* Every variable keeps its type and the command queue its bound.          *)
THEOREM CustodyTyped == Spec => []TypeOK
<1>1. IInv => TypeOK
  BY DEF IInv
<1> QED BY <1>1, CustodyInductive, PTL

(* A live task holds its slot whoever owns its handle, and no more slots   *)
(* are taken than there are: the bound on custodied tasks holds.           *)
THEOREM SlotsHeld == Spec => []LiveTasksHoldSlots
<1>1. IInv => LiveTasksHoldSlots
  BY DEF IInv, LiveTasksHoldSlots, CustodySound, CustodyOf, SlotsBounded, Live, Running, Ended
<1> QED BY <1>1, CustodyInductive, PTL

(* The counter of retained tasks is exact between any two steps of a       *)
(* transfer, so it never underflows.                                       *)
THEOREM CounterExact == Spec => []RetainedIsExact
<1>1. IInv => RetainedIsExact
  BY DEF IInv
<1> QED BY <1>1, CustodyInductive, PTL

(* A drain that reports true has joined everything transferred before it.  *)
THEOREM DrainsComplete == Spec => []DrainIsComplete
<1>1. IInv => DrainIsComplete
  <2> SUFFICES ASSUME IInv, NEW d \in Drains, Complete(d), NEW s \in before[d]
               PROVE  task[s] \in Ended /\ holder[s] = "done" /\ s \notin slot
    BY DEF DrainIsComplete
  <2>1. s \in Sessions
    BY DEF IInv, TypeOK
  <2>2. holder[s] = "done"
    BY DEF IInv, DrainsSound, DrainOf, Complete
  <2> QED BY <2>1, <2>2 DEF IInv, CustodySound, CustodyOf
<1> QED BY <1>1, CustodyInductive, PTL

(* A retired session shows a terminal state, whichever of transfer, task   *)
(* and custodian wrote it last.                                            *)
THEOREM RetiredTerminal == Spec => []RetiredIsTerminal
<1>1. IInv => RetiredIsTerminal
  BY DEF IInv, RetiredIsTerminal, CustodySound, CustodyOf
<1> QED BY <1>1, CustodyInductive, PTL

-----------------------------------------------------------------------------
(* The refinement of TaskCustody.                                          *)

CustodyStep == [Custody!Next]_(Custody!vars)

CustodyVars == <<slot, Alive, Handed, Retired, poisoned, drain_failed, before, Successful>>

LEMMA CustodyStutters ==
  ASSUME UNCHANGED CustodyVars
  PROVE  CustodyStep
BY DEF CustodyStep, CustodyVars, Custody!vars

LEMMA SetsKept ==
  /\ UNCHANGED task => UNCHANGED Alive
  /\ UNCHANGED holder => UNCHANGED <<Handed, Retired>>
  /\ UNCHANGED drain => UNCHANGED Successful
BY DEF Alive, Handed, Retired, Successful, Complete

LEMMA SetFacts ==
  /\ Alive \subseteq Sessions /\ Handed \subseteq Sessions /\ Retired \subseteq Sessions
  /\ Successful \subseteq Drains
  /\ \A s \in Sessions : /\ s \in Alive <=> task[s] \in Live
                         /\ s \in Handed <=> holder[s] \in {"process", "failed"}
                         /\ s \in Retired <=> holder[s] = "done"
  /\ \A d \in Drains : d \in Successful <=> Complete(d)
BY DEF Alive, Handed, Retired, Successful

LEMMA HolderMoves ==
  ASSUME TypeOK, NEW s \in Sessions, NEW to \in Holders, Give(s, to)
  PROVE  /\ to \in {"process", "failed"} => Handed' = Handed \cup {s}
         /\ to \notin {"process", "failed"} => Handed' = Handed \ {s}
         /\ to = "done" => Retired' = Retired \cup {s}
         /\ to # "done" => Retired' = Retired \ {s}
<1>1. holder'[s] = to /\ \A r \in Sessions : r # s => holder'[r] = holder[r]
  BY GiveFacts
<1>2. Handed' = {r \in Sessions : holder'[r] \in {"process", "failed"}}
      /\ Retired' = {r \in Sessions : holder'[r] = "done"}
  BY DEF Handed, Retired
<1> QED BY <1>1, <1>2 DEF Handed, Retired

LEMMA TaskMoves ==
  ASSUME TypeOK, NEW s \in Sessions, NEW t, task' = [task EXCEPT ![s] = t]
  PROVE  /\ t \in Live => Alive' = Alive \cup {s}
         /\ t \notin Live => Alive' = Alive \ {s}
<1>1. task'[s] = t /\ \A r \in Sessions : r # s => task'[r] = task[r]
  BY DEF TypeOK
<1>2. Alive' = {r \in Sessions : task'[r] \in Live}
  BY DEF Alive
<1> QED BY <1>1, <1>2 DEF Alive

LEMMA DrainMoves ==
  ASSUME TypeOK, NEW d \in Drains, NEW r, drain' = [drain EXCEPT ![d] = r]
  PROVE  /\ r.process = "true" /\ r.failed = "true" => Successful' = Successful \cup {d}
         /\ ~(r.process = "true" /\ r.failed = "true") => Successful' = Successful \ {d}
<1>1. drain'[d] = r /\ \A e \in Drains : e # d => drain'[e] = drain[e]
  BY DEF TypeOK
<1>2. Successful = {e \in Drains : drain[e].process = "true" /\ drain[e].failed = "true"}
      /\ Successful' = {e \in Drains : drain'[e].process = "true" /\ drain'[e].failed = "true"}
  BY DEF Successful, Complete
<1> QED BY <1>1, <1>2

(* A session that is let go of has ended and had its slot.                 *)
LEMMA EndedIsHeld ==
  ASSUME IInv, NEW s \in Sessions, task[s] \in Ended, holder[s] \notin {"nobody", "done"}
  PROVE  s \in slot \ Alive
<1>1. s \in slot
  BY DEF IInv, CustodySound, CustodyOf
<1>2. task[s] \notin Live
  BY DEF Ended, Live, Running
<1> QED BY <1>1, <1>2, SetFacts

-----------------------------------------------------------------------------
(* Each action is a step of TaskCustody, or invisible to it.               *)

LEMMA ConnectCustody ==
  ASSUME IInv, NEW s \in Sessions, Connect(s)
  PROVE  CustodyStep
<1>1. TypeOK /\ "session" \in Holders
  BY DEF IInv, Holders, Transferring
<1>2. Give(s, "session") /\ task' = [task EXCEPT ![s] = "running"] /\ holder[s] = "nobody"
      /\ UNCHANGED <<flags, drains>>
  BY DEF Connect
<1>3. s \notin slot \cup Retired /\ s \notin Handed
  BY <1>2, SetFacts DEF IInv, CustodySound, CustodyOf
<1>4. Handed' = Handed /\ Retired' = Retired
  BY <1>1, <1>2, <1>3, HolderMoves, SetFacts
<1>5. Alive' = Alive \cup {s}
  BY <1>1, <1>2, TaskMoves DEF Live, Running
<1>6. Successful' = Successful
  BY <1>2, SetsKept DEF drains
<1>7. /\ ~poisoned /\ ~drain_failed
      /\ poisoned' = poisoned /\ drain_failed' = drain_failed /\ before' = before
      /\ slot \in Roomy
      /\ slot' = slot \cup {s}
  BY <1>1, <1>2 DEF Connect, flags, drains, Roomy, TypeOK
<1>8. Custody!Spawn(s)
  BY <1>3, <1>4, <1>5, <1>6, <1>7 DEF Custody!Spawn
<1> QED BY <1>8 DEF CustodyStep, Custody!Next

(* Handing the handle on within the process, short of a custodian.         *)
LEMMA GiveCustody ==
  ASSUME IInv, NEW s \in Sessions, NEW to \in {"guard", "moving", "counted", "rejected"},
         Give(s, to), holder[s] \in {"session", "guard", "moving", "counted"},
         UNCHANGED <<task, slot, flags, drains>>
  PROVE  CustodyStep
<1>1. TypeOK /\ to \in Holders
  BY DEF IInv, Holders, Transferring
<1>2. s \notin Handed /\ s \notin Retired
  BY SetFacts
<1>3. Handed' = Handed /\ Retired' = Retired
  BY <1>1, <1>2, HolderMoves
<1>4. Alive' = Alive /\ Successful' = Successful
  BY SetsKept DEF drains
<1> QED BY <1>3, <1>4, CustodyStutters DEF CustodyVars, flags, drains

LEMMA TaskStepCustody ==
  ASSUME IInv, NEW s \in Sessions, TaskStep(s)
  PROVE  CustodyStep
<1>1. TypeOK /\ UNCHANGED <<holder, slot, flags, drains>> /\ task[s] \in Live
  BY DEF IInv, TaskStep, TaskRequested, TaskReturns, TaskPanics, TaskAborts, Live, Running
<1>2. UNCHANGED <<Handed, Retired, Successful>> /\ s \in Alive
  BY <1>1, SetsKept, SetFacts DEF drains
<1>3. CASE task' = [task EXCEPT ![s] = "stopping"]
  <2>1. Alive' = Alive
    <3>1. "stopping" \in Live
      BY DEF Live, Running
    <3> QED BY <1>1, <1>2, <1>3, <3>1, TaskMoves
  <2> QED BY <1>1, <1>2, <2>1, CustodyStutters DEF CustodyVars, flags, drains
<1>4. ASSUME NEW t \in Ended, task' = [task EXCEPT ![s] = t]
      PROVE  CustodyStep
  <2>1. Alive' = Alive \ {s}
    BY <1>1, <1>4, TaskMoves DEF Live, Running, Ended
  <2>2. Custody!End(s)
    BY <1>1, <1>2, <2>1 DEF Custody!End, flags, drains
  <2> QED BY <2>2 DEF CustodyStep, Custody!Next
<1>5. task' = [task EXCEPT ![s] = "stopping"]
      \/ \E t \in Ended : task' = [task EXCEPT ![s] = t]
  BY DEF TaskStep, TaskRequested, TaskReturns, TaskPanics, TaskAborts, Ended
<1> QED BY <1>3, <1>4, <1>5

(* A custodian takes the task over: the thread's queue, or the ledger.     *)
LEMMA HandOverCustody ==
  ASSUME IInv, NEW s \in Sessions, NEW to \in {"process", "failed"}, Give(s, to),
         holder[s] \in {"counted", "rejected"},
         UNCHANGED <<slot, flags, drains>>, Alive' = Alive
  PROVE  CustodyStep
<1>1. TypeOK /\ to \in Holders /\ to # "done"
  BY DEF IInv, Holders, Transferring
<1>2. s \notin Handed /\ s \notin Retired
  BY SetFacts
<1>3. Handed' = Handed \cup {s} /\ Retired' = Retired
  BY <1>1, <1>2, HolderMoves
<1>4. s \in slot
  BY DEF IInv, CustodySound, CustodyOf
<1>5. Successful' = Successful
  BY SetsKept DEF drains
<1>6. Custody!HandOver(s)
  BY <1>2, <1>3, <1>4, <1>5 DEF Custody!HandOver, flags, drains
<1> QED BY <1>6 DEF CustodyStep, Custody!Next

LEMMA TransferCustody ==
  ASSUME IInv, NEW s \in Sessions, TransferStep(s)
  PROVE  CustodyStep
<1>1. CASE CountTransfer(s)
  BY <1>1, GiveCustody DEF CountTransfer
<1>2. CASE SendTransfer(s)
  <2>1. UNCHANGED <<task, slot, flags, drains>> /\ holder[s] = "counted"
        /\ (Give(s, "process") \/ Give(s, "rejected"))
    BY <1>2 DEF SendTransfer
  <2> QED BY <2>1, GiveCustody, HandOverCustody, SetsKept
<1>3. CASE RetainFailed(s)
  <2>1. UNCHANGED <<slot, flags, drains>> /\ holder[s] = "rejected" /\ Give(s, "failed")
    BY <1>3 DEF RetainFailed
  <2>2. Alive' = Alive
    <3>1. CASE task[s] \in Running
      <4>1. s \in Alive
        BY <3>1, SetFacts DEF Live
      <4>2. task' = [task EXCEPT ![s] = "aborting"]
        BY <1>3, <3>1 DEF RetainFailed
      <4>3. "aborting" \in Live
        BY DEF Live
      <4> QED BY <4>1, <4>2, <4>3, TaskMoves DEF IInv
    <3>2. CASE task[s] \notin Running
      BY <1>3, <3>2, SetsKept DEF RetainFailed
    <3> QED BY <3>1, <3>2
  <2> QED BY <2>1, <2>2, HandOverCustody
<1> QED BY <1>1, <1>2, <1>3 DEF TransferStep

(* One task that ended is let go of, by its guard or by the thread.        *)
LEMMA RetireOneCustody ==
  ASSUME IInv, NEW s \in Sessions, Give(s, "done"), task[s] \in Ended,
         holder[s] \notin {"nobody", "done"}, slot' = slot \ {s},
         UNCHANGED <<task, flags, drains>>
  PROVE  CustodyStep
<1>1. TypeOK /\ "done" \in Holders
  BY DEF IInv, Holders
<1>2. Handed' = Handed \ {s} /\ Retired' = Retired \cup {s}
  BY <1>1, HolderMoves
<1>3. s \in slot \ Alive
  BY EndedIsHeld
<1>4. Alive' = Alive /\ Successful' = Successful
  BY SetsKept DEF drains
<1>5. Custody!Retire({s}, {})
  BY <1>2, <1>3, <1>4 DEF Custody!Retire, flags, drains
<1>6. {s} \in SUBSET Sessions /\ {} \in SUBSET Drains
  OBVIOUS
<1> QED BY <1>5, <1>6 DEF CustodyStep, Custody!Next

LEMMA ThreadCustody ==
  ASSUME IInv, ThreadStep
  PROVE  CustodyStep
<1>1. CASE TakeRetain
  <2>1. UNCHANGED <<task, holder, slot, flags, drains>>
    BY <1>1 DEF TakeRetain
  <2> QED BY <2>1, SetsKept, CustodyStutters DEF CustodyVars, flags, drains
<1>2. CASE SignalBarrier
  <2>1. UNCHANGED <<task, holder, slot, flags, before>>
    BY <1>2 DEF SignalBarrier
  <2>2. PICK d \in Drains : Signalled(d)
    BY <1>2 DEF SignalBarrier
  <2>3. Successful' = Successful
    <3>1. CASE drain[d].process = "queued"
      <4> DEFINE r == [drain[d] EXCEPT !.process = "signalled"]
      <4>1. drain' = [drain EXCEPT ![d] = r]
        BY <2>2, <3>1 DEF Signalled
      <4>2. r.process = "signalled"
        BY DEF IInv, TypeOK
      <4>3. d \notin Successful
        BY <3>1, SetFacts DEF Complete
      <4> HIDE DEF r
      <4> QED BY <4>1, <4>2, <4>3, DrainMoves DEF IInv
    <3>2. CASE drain[d].process # "queued"
      BY <2>2, <3>2, SetsKept DEF Signalled
    <3> QED BY <3>1, <3>2
  <2> QED BY <2>1, <2>3, SetsKept, CustodyStutters DEF CustodyVars, flags
<1>3. ASSUME NEW s \in Sessions, JoinRetained(s) PROVE CustodyStep
  <2>1. holder[s] = "process"
    BY <1>3 DEF JoinRetained, IInv, QueueSound
  <2> QED BY <1>3, <2>1, RetireOneCustody DEF JoinRetained
<1> QED BY <1>1, <1>2, <1>3 DEF ThreadStep

(* A drain begins with what the custodians have at that moment.            *)
LEMMA StartDrainCustody ==
  ASSUME IInv, NEW d \in Drains, StartDrain(d)
  PROVE  CustodyStep
<1>1. UNCHANGED <<task, holder, slot, flags>> /\ drain[d] = Undrained
  BY DEF StartDrain
<1>2. before' = [before EXCEPT ![d] = Handed]
  BY DEF StartDrain, Handed
<1>3. d \notin Successful
  BY <1>1, SetFacts DEF Undrained, Complete
<1>4. PICK p \in {"queued", "false"} :
         drain' = [drain EXCEPT ![d] = [process |-> p, failed |-> "polling"]]
  BY DEF StartDrain
<1>5. Successful' = Successful
  <2> DEFINE r == [process |-> p, failed |-> "polling"]
  <2>1. drain' = [drain EXCEPT ![d] = r] /\ r.failed # "true"
    BY <1>4
  <2> HIDE DEF r
  <2> QED BY <1>3, <2>1, DrainMoves DEF IInv
<1>6. Custody!BeginDrain(d)
  BY <1>1, <1>2, <1>3, <1>5, SetsKept DEF Custody!BeginDrain, flags
<1> QED BY <1>6 DEF CustodyStep, Custody!Next

(* A half of a drain that turns true may be the one that was missing.      *)
LEMMA CheckRetainedCustody ==
  ASSUME IInv, IInv', NEW d \in Drains, CheckRetained(d)
  PROVE  CustodyStep
<1>1. UNCHANGED <<task, holder, slot, flags, before>>
  BY DEF CheckRetained
<1>2. PICK p \in {"true", "false"} : drain' = [drain EXCEPT ![d].process = p]
  BY DEF CheckRetained
<1> DEFINE r == [drain[d] EXCEPT !.process = p]
<1>3. drain' = [drain EXCEPT ![d] = r]
  BY <1>2
<1>4. d \notin Successful
  BY SetFacts DEF CheckRetained, Complete
<1>5. Successful' = Successful \/ (Successful' = Successful \cup {d} /\ Complete(d)')
  <2>1. Successful' = Successful \/ Successful' = Successful \cup {d}
    <3> HIDE DEF r
    <3> QED BY <1>3, <1>4, DrainMoves DEF IInv
  <2>2. d \in Successful' <=> Complete(d)'
    BY DEF Successful
  <2> QED BY <2>1, <2>2
<1>6. CASE Successful' = Successful
  BY <1>1, <1>6, SetsKept, CustodyStutters DEF CustodyVars, flags
<1>7. CASE Successful' = Successful \cup {d} /\ Complete(d)'
  <2>1. before[d] \subseteq Retired'
    <3>1. \A s \in before'[d] : s \in Sessions /\ holder'[s] = "done"
      BY <1>7 DEF IInv, TypeOK, DrainsSound, DrainOf, Complete
    <3> QED BY <1>1, <3>1 DEF Retired
  <2>2. Custody!Retire({}, {d})
    BY <1>1, <1>7, <2>1, SetsKept DEF Custody!Retire, flags
  <2>3. {} \in SUBSET Sessions /\ {d} \in SUBSET Drains
    OBVIOUS
  <2> QED BY <2>2, <2>3 DEF CustodyStep, Custody!Next
<1> QED BY <1>5, <1>6, <1>7

(* One pass over the fallback ledger retires what has ended there.         *)
LEMMA PollFailedCustody ==
  ASSUME IInv, IInv', NEW d \in Drains, PollFailed(d)
  PROVE  CustodyStep
<1>1. /\ UNCHANGED <<task, before, poisoned>>
      /\ slot' = slot \ Ready
      /\ holder' = [s \in Sessions |-> IF s \in Ready THEN "done" ELSE holder[s]]
      /\ drain_failed' \in {drain_failed, TRUE}
  BY DEF PollFailed, IInv, TypeOK
<1>2. Alive' = Alive /\ Ready \subseteq Sessions
  BY <1>1, SetsKept DEF Ready
<1>3. Ready \subseteq slot \ Alive
  BY <1>2, EndedIsHeld DEF Ready
<1>4. \A s \in Ready : holder[s] = "failed"
  BY DEF Ready
<1>5. Handed' = Handed \ Ready /\ Retired' = Retired \cup Ready
  <2>1. Handed' = {s \in Sessions : holder'[s] \in {"process", "failed"}}
        /\ Retired' = {s \in Sessions : holder'[s] = "done"}
    BY DEF Handed, Retired
  <2>2. \A s \in Sessions : holder'[s] = IF s \in Ready THEN "done" ELSE holder[s]
    BY <1>1
  <2> QED BY <1>2, <2>1, <2>2 DEF Handed, Retired
<1>6. d \notin Successful
  BY SetFacts DEF PollFailed, Complete
<1>7. drain' = drain \/ \E f \in {"true", "false"} : drain' = [drain EXCEPT ![d].failed = f]
  BY DEF PollFailed
<1>8. \E D \in {{}, {d}} : Successful' = Successful \cup D
  <2>1. CASE drain' = drain
    BY <2>1, SetsKept
  <2>2. ASSUME NEW f \in {"true", "false"}, drain' = [drain EXCEPT ![d].failed = f]
        PROVE  Successful' \in {Successful, Successful \cup {d}}
    <3> DEFINE r == [drain[d] EXCEPT !.failed = f]
    <3>1. drain' = [drain EXCEPT ![d] = r]
      BY <2>2
    <3> HIDE DEF r
    <3> QED BY <1>6, <3>1, DrainMoves DEF IInv
  <2> QED BY <1>7, <2>1, <2>2
<1>9. PICK D \in {{}, {d}} : Successful' = Successful \cup D
  BY <1>8
<1>10. \A e \in D : before[e] \subseteq Retired'
  <2> SUFFICES ASSUME d \in D PROVE before[d] \subseteq Retired'
    BY <1>9
  <2>1. Complete(d)'
    BY <1>9 DEF Successful
  <2>2. \A s \in before'[d] : s \in Sessions /\ holder'[s] = "done"
    BY <2>1 DEF IInv, TypeOK, DrainsSound, DrainOf, Complete
  <2> QED BY <1>1, <2>2 DEF Retired
<1>11. (poisoned \/ drain_failed)' \in {poisoned \/ drain_failed, TRUE}
  BY <1>1 DEF IInv, TypeOK
<1>12. Custody!Retire(Ready, D)
  BY <1>1, <1>2, <1>3, <1>5, <1>9, <1>10, <1>11 DEF Custody!Retire
<1>13. Ready \in SUBSET Sessions /\ D \in SUBSET Drains
  BY <1>2
<1> QED BY <1>12, <1>13 DEF CustodyStep, Custody!Next

LEMMA EndDrainCustody ==
  ASSUME IInv, NEW d \in Drains, EndDrain(d)
  PROVE  CustodyStep
<1>1. /\ UNCHANGED <<task, holder, slot, flags>>
      /\ drain' = [drain EXCEPT ![d] = Undrained]
      /\ before' = [before EXCEPT ![d] = {}]
  BY DEF EndDrain
<1>2. Successful' = Successful \ {d}
  <2>1. Undrained.process # "true"
    BY DEF Undrained
  <2> QED BY <1>1, <2>1, DrainMoves DEF IInv
<1>3. Custody!EndDrain(d)
  BY <1>1, <1>2, SetsKept DEF Custody!EndDrain, flags
<1> QED BY <1>3 DEF CustodyStep, Custody!Next

LEMMA CustodyNext ==
  ASSUME IInv, IInv', [Next]_vars
  PROVE  CustodyStep
<1>1. ASSUME NEW s \in Sessions, Connect(s) \/ TakeGuard(s) \/ CompleteGuard(s) \/ DropOwner(s)
      PROVE  CustodyStep
  <2>1. TakeGuard(s) \/ DropOwner(s) => CustodyStep
    BY GiveCustody DEF TakeGuard, DropOwner
  <2>2. CompleteGuard(s) => CustodyStep
    BY RetireOneCustody DEF CompleteGuard
  <2> QED BY <1>1, <2>1, <2>2, ConnectCustody
<1>2. CASE PoisonLedger
  <2>1. UNCHANGED <<task, holder, slot, drains>> /\ poisoned' = TRUE
    BY <1>2 DEF PoisonLedger
  <2>2. Custody!Close
    BY <2>1, SetsKept DEF Custody!Close, drains
  <2> QED BY <2>2 DEF CustodyStep, Custody!Next
<1>3. CASE UNCHANGED vars
  BY <1>3, SetsKept, CustodyStutters DEF vars, CustodyVars, flags, drains
<1> QED BY <1>1, <1>2, <1>3, TaskStepCustody, TransferCustody, ThreadCustody,
           StartDrainCustody, CheckRetainedCustody, PollFailedCustody, EndDrainCustody
        DEF Next, DrainStep

LEMMA CustodyInit == Init => Custody!Init
<1> SUFFICES ASSUME Init PROVE Custody!Init
  OBVIOUS
<1>1. Alive = {} /\ Handed = {} /\ Retired = {} /\ Successful = {}
  BY DEF Init, Alive, Live, Running, Handed, Retired, Successful, Complete, Undrained
<1> QED BY <1>1 DEF Init, Custody!Init

(* For any sessions, drains and capacity, the passing of handles between   *)
(* session, guard, transfer, thread and fallback ledger is the abstract    *)
(* custody: a slot outlives its task, a task is handed over at most once   *)
(* and retired exactly once, and a drain does not report true too early    *)
(* (retirement.rs and failed.rs together).                                 *)
THEOREM RetirementImplementsCustody == Spec => ImplementsTaskCustody
<1>1. Init => Custody!Init
  BY CustodyInit
<1>2. IInv /\ IInv' /\ [Next]_vars => [Custody!Next]_(Custody!vars)
  BY CustodyNext DEF CustodyStep
<1> QED BY <1>1, <1>2, CustodyInductive, PTL DEF Spec, ImplementsTaskCustody, Custody!Spec

=============================================================================

----------------------------- MODULE Retirement -----------------------------
(***************************************************************************)
(* Custody of the session tasks of the user channel: the session, the      *)
(* linear guard, the process custodian thread with its bounded command     *)
(* queue (auth/ws/retirement.rs), the fallback ledger of rejected tasks    *)
(* (retirement/failed.rs) and the process-wide drain over both.            *)
(*                                                                         *)
(* What a task does is in UserWsSession; here it runs, is asked to stop,   *)
(* and ends.  A transfer is three steps, since a drain reads the counter   *)
(* and the ledgers between them.  The session's slot mutex is not poisoned *)
(* and the counters do not reach their maximum.                            *)
(***************************************************************************)
EXTENDS Naturals, Sequences, FiniteSets

CONSTANTS
    Sessions,
    Drains,        \* callers of drain_authenticated_user_ws_retirements
    Capacity       \* MAX_PROCESS_RETIREMENTS: slots, and length of the queue

ASSUME RetirementAssumption ==
    /\ IsFiniteSet(Sessions)
    /\ Capacity \in Nat \ {0}
    /\ Sessions \cap Drains = {}

VARIABLES
    task,          \* the spawned task of a session
    holder,        \* who owns its JoinHandle
    slot,          \* sessions whose retirement slot is taken
    status,        \* RetirementState of a session
    shutdown,      \* sessions whose shutdown has been requested
    commands,      \* the command queue: sessions to retain, drains to signal
    joining,       \* the sessions the custodian thread is blocked on
    retained,      \* the counter of retained tasks
    poisoned,      \* FAILED_RETIREMENTS_POISONED and the custodian's flag
    drain_failed,  \* FAILED_RETIREMENTS_DRAIN_FAILED
    drain,         \* the two halves of each drain
    before         \* history: the tasks transferred when a drain began

thread == <<commands, joining, retained>>
flags == <<poisoned, drain_failed>>
drains == <<drain, before>>
vars == <<task, holder, slot, status, shutdown, thread, flags, drains>>

Terminal == {"TerminalGraceful", "TerminalCancelled"}
Statuses == Terminal \cup {"Active", "Requested", "RetainedByProcessCustodian"}

Ended == {"returned", "panicked", "aborted"}
Running == {"running", "stopping"}
Live == Running \cup {"aborting"}
Transferring == {"moving", "counted", "rejected"}
Holders == Transferring \cup {"nobody", "session", "guard", "process", "failed", "done"}

Undrained == [process |-> "idle", failed |-> "idle"]

Init ==
    /\ task = [s \in Sessions |-> "none"]
    /\ holder = [s \in Sessions |-> "nobody"]
    /\ slot = {}
    /\ status = [s \in Sessions |-> "Active"]
    /\ shutdown = {}
    /\ commands = <<>>
    /\ joining = {}
    /\ retained = 0
    /\ poisoned = FALSE
    /\ drain_failed = FALSE
    /\ drain = [d \in Drains |-> Undrained]
    /\ before = [d \in Drains |-> {}]

Give(s, to) == holder' = [holder EXCEPT ![s] = to]

Mark(s, state) == status' = [status EXCEPT ![s] = state]

-----------------------------------------------------------------------------
(* The session.                                                            *)

(* A slot is reserved before the task is spawned.                          *)
Connect(s) ==
    /\ holder[s] = "nobody"
    /\ ~poisoned /\ ~drain_failed
    /\ Cardinality(slot) < Capacity
    /\ slot' = slot \cup {s}
    /\ task' = [task EXCEPT ![s] = "running"]
    /\ Give(s, "session")
    /\ UNCHANGED <<status, shutdown, thread, flags, drains>>

(* shutdown and drain of a session move its handle into a guard.           *)
TakeGuard(s) ==
    /\ holder[s] = "session"
    /\ shutdown' = shutdown \cup {s}
    /\ Give(s, "guard")
    /\ UNCHANGED <<task, slot, status, thread, flags, drains>>

(* The guard saw its task end.                                             *)
CompleteGuard(s) ==
    /\ holder[s] = "guard"
    /\ task[s] \in Ended
    /\ IF task[s] = "returned" THEN UNCHANGED status ELSE Mark(s, "TerminalCancelled")
    /\ slot' = slot \ {s}
    /\ Give(s, "done")
    /\ UNCHANGED <<task, shutdown, thread, flags, drains>>

(* The guard is dropped by a timeout or a cancellation, or the last handle *)
(* of the session is dropped.                                              *)
DropOwner(s) ==
    /\ holder[s] \in {"session", "guard"}
    /\ shutdown' = shutdown \cup {s}
    /\ Give(s, "moving")
    /\ UNCHANGED <<task, slot, status, thread, flags, drains>>

-----------------------------------------------------------------------------
(* The task: retirement_custodian around connection_loop.                  *)

TaskRequested(s) ==
    /\ task[s] = "running"
    /\ s \in shutdown
    /\ task' = [task EXCEPT ![s] = "stopping"]
    /\ Mark(s, "Requested")
    /\ UNCHANGED <<holder, slot, shutdown, thread, flags, drains>>

(* It returns once the loop ended, by itself or cut off after the grace.   *)
TaskReturns(s) ==
    /\ task[s] \in Live
    /\ task' = [task EXCEPT ![s] = "returned"]
    /\ \/ Mark(s, "TerminalGraceful")
       \/ task[s] # "running" /\ Mark(s, "TerminalCancelled")
    /\ UNCHANGED <<holder, slot, shutdown, thread, flags, drains>>

TaskPanics(s) ==
    /\ task[s] \in Running
    /\ task' = [task EXCEPT ![s] = "panicked"]
    /\ UNCHANGED <<holder, slot, status, shutdown, thread, flags, drains>>

TaskAborts(s) ==
    /\ task[s] = "aborting"
    /\ task' = [task EXCEPT ![s] = "aborted"]
    /\ UNCHANGED <<holder, slot, status, shutdown, thread, flags, drains>>

-----------------------------------------------------------------------------
(* transfer_to_known_custodian: count, send, and undo if the queue is full.*)
(* (Variants: the send is not bounded; a rejected transfer stays counted.) *)

CountTransfer(s) ==
    /\ holder[s] = "moving"
    /\ IF poisoned
       THEN Give(s, "rejected") /\ UNCHANGED <<status, thread>>
       ELSE /\ Give(s, "counted")
            /\ retained' = retained + 1
            /\ Mark(s, "RetainedByProcessCustodian")
            /\ UNCHANGED <<commands, joining>>
    /\ UNCHANGED <<task, slot, shutdown, flags, drains>>

SendUnbounded(s) ==
    /\ holder[s] = "counted"
    /\ Give(s, "process")
    /\ commands' = Append(commands, s)
    /\ UNCHANGED <<task, slot, status, shutdown, joining, retained, flags, drains>>

SendKeepsCount(s) ==
    /\ holder[s] = "counted"
    /\ IF Len(commands) < Capacity
       THEN Give(s, "process") /\ commands' = Append(commands, s)
       ELSE Give(s, "rejected") /\ UNCHANGED commands
    /\ UNCHANGED <<task, slot, status, shutdown, joining, retained, flags, drains>>

SendTransfer(s) ==
    /\ holder[s] = "counted"
    /\ IF Len(commands) < Capacity
       THEN /\ Give(s, "process")
            /\ commands' = Append(commands, s)
            /\ UNCHANGED retained
       ELSE /\ Give(s, "rejected")
            /\ retained' = retained - 1
            /\ UNCHANGED commands
    /\ UNCHANGED <<task, slot, status, shutdown, joining, flags, drains>>

(* retain_failed_retirement.  (Variant: the slot is given back with it.)   *)
RetainWithoutSlot(s) ==
    /\ holder[s] = "rejected"
    /\ task' = IF task[s] \in Running THEN [task EXCEPT ![s] = "aborting"] ELSE task
    /\ Mark(s, "RetainedByProcessCustodian")
    /\ slot' = slot \ {s}
    /\ Give(s, "failed")
    /\ UNCHANGED <<shutdown, thread, flags, drains>>

RetainFailed(s) ==
    /\ holder[s] = "rejected"
    /\ task' = IF task[s] \in Running THEN [task EXCEPT ![s] = "aborting"] ELSE task
    /\ Mark(s, "RetainedByProcessCustodian")
    /\ Give(s, "failed")
    /\ UNCHANGED <<slot, shutdown, thread, flags, drains>>

-----------------------------------------------------------------------------
(* The custodian thread.                                                   *)

TakeRetain ==
    /\ joining = {}
    /\ commands # <<>>
    /\ Head(commands) \in Sessions
    /\ joining' = {Head(commands)}
    /\ commands' = Tail(commands)
    /\ UNCHANGED <<task, holder, slot, status, shutdown, retained, flags, drains>>

(* Variant: the status is left as the transfer set it.                     *)
JoinKeepsStatus(s) ==
    /\ s \in joining
    /\ task[s] \in Ended
    /\ joining' = {}
    /\ retained' = retained - 1
    /\ slot' = slot \ {s}
    /\ Give(s, "done")
    /\ UNCHANGED <<task, status, shutdown, commands, flags, drains>>

JoinRetained(s) ==
    /\ s \in joining
    /\ task[s] \in Ended
    /\ joining' = {}
    /\ IF task[s] # "returned" \/ status[s] \notin Terminal
       THEN Mark(s, "TerminalCancelled") ELSE UNCHANGED status
    /\ retained' = retained - 1
    /\ slot' = slot \ {s}
    /\ Give(s, "done")
    /\ UNCHANGED <<task, shutdown, commands, flags, drains>>

(* A barrier is signalled, even if its caller is gone.  (Variant: it is    *)
(* not taken from the queue unless its caller still waits.)                *)
Signalled(d) ==
    drain' = IF drain[d].process = "queued"
             THEN [drain EXCEPT ![d].process = "signalled"] ELSE drain

SignalWaitingDrain ==
    /\ joining = {}
    /\ commands # <<>>
    /\ Head(commands) \in {d \in Drains : drain[d].process = "queued"}
    /\ Signalled(Head(commands))
    /\ commands' = Tail(commands)
    /\ UNCHANGED <<task, holder, slot, status, shutdown, joining, retained, flags, before>>

SignalBarrier ==
    /\ joining = {}
    /\ commands # <<>>
    /\ Head(commands) \in Drains
    /\ Signalled(Head(commands))
    /\ commands' = Tail(commands)
    /\ UNCHANGED <<task, holder, slot, status, shutdown, joining, retained, flags, before>>

-----------------------------------------------------------------------------
(* drain_authenticated_user_ws_retirements.                                *)

StartDrain(d) ==
    /\ drain[d] = Undrained
    /\ \A i \in DOMAIN commands : commands[i] # d
    /\ before' = [before EXCEPT ![d] = {s \in Sessions : holder[s] \in {"process", "failed"}}]
    /\ IF Len(commands) < Capacity
       THEN /\ drain' = [drain EXCEPT ![d] = [process |-> "queued", failed |-> "polling"]]
            /\ commands' = Append(commands, d)
       ELSE /\ drain' = [drain EXCEPT ![d] = [process |-> "false", failed |-> "polling"]]
            /\ UNCHANGED commands
    /\ UNCHANGED <<task, holder, slot, status, shutdown, joining, retained, flags>>

CheckRetained(d) ==
    /\ drain[d].process = "signalled"
    /\ drain' = [drain EXCEPT ![d].process =
                    IF retained = 0 /\ ~poisoned THEN "true" ELSE "false"]
    /\ UNCHANGED <<task, holder, slot, status, shutdown, thread, flags, before>>

(* One pass over the fallback ledger, under its mutex.                     *)
Ready == {s \in Sessions : holder[s] = "failed" /\ task[s] \in Ended}

Remaining == {s \in Sessions : holder[s] = "failed"} \ Ready

(* Variant: one pass is enough.                                            *)
PollFailedOnce(d) ==
    /\ drain[d].failed = "polling"
    /\ drain_failed' = (drain_failed \/ \E s \in Ready : task[s] = "panicked")
    /\ status' = [s \in Sessions |-> IF s \in Ready THEN "TerminalCancelled" ELSE status[s]]
    /\ holder' = [s \in Sessions |-> IF s \in Ready THEN "done" ELSE holder[s]]
    /\ slot' = slot \ Ready
    /\ drain' = [drain EXCEPT ![d].failed =
                    IF poisoned \/ drain_failed' THEN "false" ELSE "true"]
    /\ UNCHANGED <<task, shutdown, thread, poisoned, before>>

PollFailed(d) ==
    /\ drain[d].failed = "polling"
    /\ drain_failed' = (drain_failed \/ \E s \in Ready : task[s] = "panicked")
    /\ status' = [s \in Sessions |-> IF s \in Ready THEN "TerminalCancelled" ELSE status[s]]
    /\ holder' = [s \in Sessions |-> IF s \in Ready THEN "done" ELSE holder[s]]
    /\ slot' = slot \ Ready
    /\ drain' = IF Remaining # {} THEN drain
                ELSE [drain EXCEPT ![d].failed =
                        IF poisoned \/ drain_failed' THEN "false" ELSE "true"]
    /\ UNCHANGED <<task, shutdown, thread, poisoned, before>>

Complete(d) == drain[d].process = "true" /\ drain[d].failed = "true"

(* The drain returns, times out or is dropped.                             *)
EndDrain(d) ==
    /\ drain[d] # Undrained
    /\ drain' = [drain EXCEPT ![d] = Undrained]
    /\ before' = [before EXCEPT ![d] = {}]
    /\ UNCHANGED <<task, holder, slot, status, shutdown, thread, flags>>

(* A holder of the fallback ledger's mutex panics.                         *)
PoisonLedger ==
    /\ ~poisoned
    /\ poisoned' = TRUE
    /\ UNCHANGED <<task, holder, slot, status, shutdown, thread, drain_failed, drains>>

-----------------------------------------------------------------------------

TaskStep(s) == TaskRequested(s) \/ TaskReturns(s) \/ TaskPanics(s) \/ TaskAborts(s)

TransferStep(s) == CountTransfer(s) \/ SendTransfer(s) \/ RetainFailed(s)

ThreadStep == TakeRetain \/ SignalBarrier \/ \E s \in Sessions : JoinRetained(s)

DrainStep(d) == StartDrain(d) \/ CheckRetained(d) \/ PollFailed(d) \/ EndDrain(d)

Next ==
    \/ \E s \in Sessions :
          \/ Connect(s) \/ TakeGuard(s) \/ CompleteGuard(s) \/ DropOwner(s)
          \/ TaskStep(s)
          \/ TransferStep(s)
    \/ ThreadStep
    \/ \E d \in Drains : DrainStep(d)
    \/ PoisonLedger

Spec == Init /\ [][Next]_vars

(* A task that was asked to stop ends (ShutdownTerminates), a transfer has *)
(* no await, and the thread runs.                                          *)
FairSpec ==
    /\ Spec
    /\ \A s \in Sessions : /\ WF_vars(s \in shutdown /\ TaskReturns(s))
                           /\ WF_vars(TransferStep(s))
    /\ WF_vars(ThreadStep)

-----------------------------------------------------------------------------
(* Properties.                                                             *)

(* Every variable has its type, and the queue stays within its bound.      *)
TypeOK ==
    /\ task \in [Sessions -> Live \cup Ended \cup {"none"}]
    /\ holder \in [Sessions -> Holders]
    /\ slot \subseteq Sessions
    /\ status \in [Sessions -> Statuses]
    /\ shutdown \subseteq Sessions
    /\ commands \in Seq(Sessions \cup Drains)
    /\ Len(commands) <= Capacity
    /\ joining \subseteq Sessions
    /\ retained \in Nat
    /\ poisoned \in BOOLEAN
    /\ drain_failed \in BOOLEAN
    /\ drain \in [Drains ->
                    [process : {"idle", "queued", "signalled", "true", "false"},
                     failed : {"idle", "polling", "true", "false"}]]
    /\ before \in [Drains -> SUBSET Sessions]

(* A live task keeps its slot through every change of custody, so there    *)
(* are never more of them than slots (retirement.rs, failed.rs).           *)
LiveTasksHoldSlots ==
    /\ \A s \in Sessions : task[s] \in Live => s \in slot
    /\ Cardinality(slot) <= Capacity

(* The counter is exactly the number of tasks in the custodian's hands or  *)
(* on their way there: it never underflows, and zero means none.           *)
RetainedIsExact ==
    retained = Cardinality({s \in Sessions : holder[s] \in {"counted", "process"}})

(* A drain that returns true has joined every task whose transfer had      *)
(* returned when it began (doc comment of the drain).                      *)
DrainIsComplete ==
    \A d \in Drains : Complete(d) =>
        \A s \in before[d] : task[s] \in Ended /\ holder[s] = "done" /\ s \notin slot

(* A session that is retired shows a terminal state, although transfer and *)
(* task write it without a common lock.                                    *)
RetiredIsTerminal ==
    \A s \in Sessions : holder[s] = "done" => status[s] \in Terminal

(* A transferred task is joined and its slot comes back, whatever drains   *)
(* were started and abandoned meanwhile.                                   *)
TransferredIsRetired ==
    \A s \in Sessions : holder[s] = "process" ~> (holder[s] = "done" /\ s \notin slot)

-----------------------------------------------------------------------------
(* Refinement: sessions, guards, the process thread and the fallback       *)
(* ledger together are the custody of TaskCustody.                         *)

Alive == {s \in Sessions : task[s] \in Live}
Handed == {s \in Sessions : holder[s] \in {"process", "failed"}}
Retired == {s \in Sessions : holder[s] = "done"}
Successful == {d \in Drains : Complete(d)}
Roomy == {held \in SUBSET Sessions : Cardinality(held) < Capacity}

Custody == INSTANCE TaskCustody
               WITH slots <- slot, live <- Alive, handed <- Handed, retired <- Retired,
                    closed <- (poisoned \/ drain_failed), waits <- before,
                    complete <- Successful

(* However handles are passed on, a task has its slot until it has ended,  *)
(* is handed over at most once and retired exactly once, and a drain that  *)
(* reports true saw everything retired that custodians had when it began   *)
(* (retirement.rs and failed.rs together).                                 *)
ImplementsTaskCustody == Custody!Spec

=============================================================================

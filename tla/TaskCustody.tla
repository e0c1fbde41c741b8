---------------------------- MODULE TaskCustody -----------------------------
(***************************************************************************)
(* What the process promises about the tasks of its sessions, without      *)
(* handles, queues, threads and ledgers.  A task has a slot from before it *)
(* is spawned until after it has ended; it is handed over to a custodian   *)
(* at most once and retired exactly once; and a drain reports success only *)
(* when everything that was in a custodian's hands when it began has been  *)
(* retired.                                                                *)
(***************************************************************************)
CONSTANTS
    Sessions,
    Drains,
    Roomy        \* the sets of slot holders that leave room for one more

VARIABLES
    slots,       \* sessions that have a slot
    live,        \* sessions whose task has not ended
    handed,      \* sessions whose task is in a custodian's hands
    retired,     \* sessions whose task was seen to end
    closed,      \* no more sessions are admitted
    waits,       \* for each drain, what it has to see retired
    complete     \* the drains that reported success

vars == <<slots, live, handed, retired, closed, waits, complete>>

Init ==
    /\ slots = {}
    /\ live = {}
    /\ handed = {}
    /\ retired = {}
    /\ closed = FALSE
    /\ waits = [d \in Drains |-> {}]
    /\ complete = {}

Spawn(s) ==
    /\ ~closed
    /\ s \notin slots \cup retired
    /\ slots \in Roomy
    /\ slots' = slots \cup {s}
    /\ live' = live \cup {s}
    /\ UNCHANGED <<handed, retired, closed, waits, complete>>

End(s) ==
    /\ s \in live
    /\ live' = live \ {s}
    /\ UNCHANGED <<slots, handed, retired, closed, waits, complete>>

HandOver(s) ==
    /\ s \in slots \ handed
    /\ handed' = handed \cup {s}
    /\ UNCHANGED <<slots, live, retired, closed, waits, complete>>

(* Some tasks that ended are let go of, and some drains learn that nothing *)
(* they wait for is left.                                                  *)
Retire(ended, drains) ==
    /\ ended \subseteq slots \ live
    /\ slots' = slots \ ended
    /\ handed' = handed \ ended
    /\ retired' = retired \cup ended
    /\ \A d \in drains : waits[d] \subseteq retired'
    /\ complete' = complete \cup drains
    /\ closed' \in {closed, TRUE}
    /\ UNCHANGED <<live, waits>>

BeginDrain(d) ==
    /\ d \notin complete
    /\ waits' = [waits EXCEPT ![d] = handed]
    /\ UNCHANGED <<slots, live, handed, retired, closed, complete>>

EndDrain(d) ==
    /\ waits' = [waits EXCEPT ![d] = {}]
    /\ complete' = complete \ {d}
    /\ UNCHANGED <<slots, live, handed, retired, closed>>

Close ==
    /\ closed' = TRUE
    /\ UNCHANGED <<slots, live, handed, retired, waits, complete>>

Next ==
    \/ \E s \in Sessions : Spawn(s) \/ End(s) \/ HandOver(s)
    \/ \E ended \in SUBSET Sessions, drains \in SUBSET Drains : Retire(ended, drains)
    \/ \E d \in Drains : BeginDrain(d) \/ EndDrain(d)
    \/ Close

Spec == Init /\ [][Next]_vars

=============================================================================

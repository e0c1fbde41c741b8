---------------------------- MODULE MarketSocket ----------------------------
(***************************************************************************)
(* The connection manager of the patched SDK                               *)
(* (polymarket_client_sdk_v2, ws/connection.rs): one connection loop with  *)
(* its request queue, its heartbeat task and the watch channel on which    *)
(* it publishes its state.  A client may own several managers one after    *)
(* the other: a variable here is a function of the manager.                *)
(*                                                                         *)
(* Abstractions.  The wait between two attempts is the choice of when      *)
(* Dial happens; the number of attempts is unlimited, the default.         *)
(* The peer serves what the frames written on its socket ask for, in       *)
(* order, and forgets it with the socket.  Market messages are not kept.   *)
(***************************************************************************)
EXTENDS Naturals, Sequences

CONSTANTS
    Assets,      \* asset ids
    ManagerMax,  \* connection managers the client creates (model bound)
    LossMax      \* failures of sockets, dials, peers and PONGs (model bound)

ASSUME SocketAssumption ==
    /\ ManagerMax \in Nat
    /\ LossMax \in Nat

(* The managers, in the order of their creation.                           *)
Managers == 1 .. ManagerMax

VARIABLES
    conn,        \* where connection_loop is
    requests,    \* frames in sender_tx: an unbounded channel
    served,      \* what the peer of the current or last socket serves
    mute,        \* the peer takes frames and answers nothing any more
    beat,        \* where heartbeat_loop is
    changed,     \* the watch channel holds a state its receiver has not seen
    ordered,     \* sender_tx is taken and the token cancelled explicitly
    losses       \* failures so far

socketvars == <<conn, requests, served, mute, beat, changed, ordered, losses>>

Frame == [op : {"subscribe", "unsubscribe"}, assets : SUBSET Assets]

SocketInit ==
    /\ conn = [m \in Managers |-> "absent"]
    /\ requests = [m \in Managers |-> <<>>]
    /\ served = [m \in Managers |-> {}]
    /\ mute = [m \in Managers |-> FALSE]
    /\ beat = [m \in Managers |-> "none"]
    /\ changed = [m \in Managers |-> FALSE]
    /\ ordered = {}
    /\ losses = 0

Lose == losses < LossMax /\ losses' = losses + 1

(* state_tx.send; the state itself follows from conn.                      *)
Goto(m, place) ==
    /\ conn' = [conn EXCEPT ![m] = place]
    /\ changed' = [changed EXCEPT ![m] = TRUE]

(* The loop leaves its socket: the heartbeat task is cancelled and joined, *)
(* then Reconnecting is published.                                         *)
LeaveSocket(m) ==
    /\ Goto(m, "backoff")
    /\ beat' = [beat EXCEPT ![m] = "none"]
    /\ mute' = [mute EXCEPT ![m] = FALSE]

(* The peer forgets what it served.                                        *)
Forget(m) == served' = [served EXCEPT ![m] = {}]

(* send: false when the sender is taken or its receiver gone.              *)
CanSend(m) == m \notin ordered /\ conn[m] # "closed"

Enqueue(m, frame) ==
    requests' = IF CanSend(m) THEN [requests EXCEPT ![m] = Append(@, frame)]
                ELSE requests

(* What a peer that serves s serves after one more frame.                  *)
Apply(s, frame) ==
    IF frame.op = "subscribe" THEN s \cup frame.assets ELSE s \ frame.assets

-----------------------------------------------------------------------------
(* The loop of one manager.  Cancelled: begin_shutdown was called or the   *)
(* last owner is gone; either cancels the token and drops the sender.      *)

(* The top of the loop, from the spawn or after the wait.                  *)
Dial(m, cancelled) ==
    /\ conn[m] \in {"spawned", "backoff"}
    /\ Goto(m, IF cancelled THEN "closed" ELSE "dialing")
    /\ UNCHANGED <<requests, served, mute, beat, ordered, losses>>

DialSucceeds(m) ==
    /\ conn[m] = "dialing"
    /\ Goto(m, "connected")
    /\ Forget(m)
    /\ beat' = [beat EXCEPT ![m] = "beating"]
    /\ UNCHANGED <<requests, mute, ordered, losses>>

DialFails(m) ==
    /\ conn[m] = "dialing"
    /\ Lose
    /\ Goto(m, "backoff")
    /\ UNCHANGED <<requests, served, mute, beat, ordered>>

(* The select is biased: a queued frame goes first, even after shutdown.   *)
WriteFrame(m) ==
    /\ conn[m] = "connected"
    /\ requests[m] # <<>>
    /\ served' = [served EXCEPT ![m] =
                    IF mute[m] THEN @ ELSE Apply(@, Head(requests[m]))]
    /\ requests' = [requests EXCEPT ![m] = Tail(@)]
    /\ UNCHANGED <<conn, mute, beat, changed, ordered, losses>>

WriteFails(m) ==
    /\ conn[m] = "connected"
    /\ requests[m] # <<>>
    /\ Lose
    /\ requests' = [requests EXCEPT ![m] = Tail(@)]
    /\ LeaveSocket(m)
    /\ Forget(m)
    /\ UNCHANGED ordered

(* Variant: shutdown before what is queued.                                *)
CloseUndrained(m, cancelled) ==
    /\ conn[m] = "connected"
    /\ cancelled
    /\ LeaveSocket(m)
    /\ UNCHANGED <<requests, served, ordered, losses>>

(* Variant: only an explicit shutdown ends the loop.                       *)
CloseOrdered(m, cancelled) ==
    /\ conn[m] = "connected"
    /\ requests[m] = <<>>
    /\ m \in ordered
    /\ LeaveSocket(m)
    /\ UNCHANGED <<requests, served, ordered, losses>>

(* sender_rx is drained, and then None or the token ends the loop.         *)
CloseDrained(m, cancelled) ==
    /\ conn[m] = "connected"
    /\ requests[m] = <<>>
    /\ cancelled
    /\ LeaveSocket(m)
    /\ UNCHANGED <<requests, served, ordered, losses>>

(* A close frame, the end of the stream or a read error.                   *)
SocketEnds(m, cancelled) ==
    /\ conn[m] = "connected"
    /\ requests[m] = <<>>
    /\ ~cancelled
    /\ ~mute[m]
    /\ Lose
    /\ LeaveSocket(m)
    /\ Forget(m)
    /\ UNCHANGED <<requests, ordered>>

(* Cancelled while it dials (or waits, see Dial): Disconnected.            *)
DialCancelled(m, cancelled) ==
    /\ conn[m] = "dialing"
    /\ cancelled
    /\ Goto(m, "closed")
    /\ UNCHANGED <<requests, served, mute, beat, ordered, losses>>

-----------------------------------------------------------------------------
(* The heartbeat task of one socket.  A PING that is answered in time      *)
(* changes nothing that is kept; one whose write fails is a SocketEnds.    *)

(* The timeout: the task ends, and its end is not told to the loop.        *)
HeartbeatEnds(m) ==
    /\ beat[m] = "beating"
    /\ Lose
    /\ beat' = [beat EXCEPT ![m] = "dead"]
    /\ UNCHANGED <<conn, requests, served, mute, changed, ordered>>

(* The peer's process hangs while its socket stays open.                   *)
GoMute(m) ==
    /\ conn[m] = "connected"
    /\ ~mute[m]
    /\ Lose
    /\ mute' = [mute EXCEPT ![m] = TRUE]
    /\ Forget(m)
    /\ UNCHANGED <<conn, requests, beat, changed, ordered>>

-----------------------------------------------------------------------------
(* The loop of one manager, fairness is stated about this, and the rest.   *)

LoopStep(m, cancelled) ==
    \/ Dial(m, cancelled)
    \/ DialSucceeds(m)
    \/ WriteFrame(m)
    \/ CloseDrained(m, cancelled)
    \/ DialCancelled(m, cancelled)

Network(m, cancelled) ==
    \/ DialFails(m)
    \/ WriteFails(m)
    \/ SocketEnds(m, cancelled)
    \/ GoMute(m)
    \/ HeartbeatEnds(m)

=============================================================================

------------------------ MODULE MarketSubscriptions ------------------------
(***************************************************************************)
(* The reference-counted subscriptions of the patched SDK                  *)
(* (clob/ws/subscription.rs) over the connection managers of MarketSocket, *)
(* and the client that creates a manager for the first subscription of a   *)
(* channel and removes it with the last (clob/ws/client.rs); rspm's        *)
(* BookWatcher (watch.rs) only converts ids and calls this client.         *)
(*                                                                         *)
(* subscribe and unsubscribe contain no await.  On a current-thread        *)
(* runtime each runs to its end before any task does; on a multi-thread    *)
(* one they interleave between two map entries and before the send.        *)
(* Which of the two the program uses is chosen once, in Init.              *)
(*                                                                         *)
(* Abstractions.  One channel, that of market data; the user channel       *)
(* counts markets the same way, without the empty list that stands for all *)
(* markets.  A caller holds one stream at a time and unsubscribes what it  *)
(* subscribed.  The table active_subs is for display and not kept.         *)
(***************************************************************************)
EXTENDS MarketSocket, FiniteSets

CONSTANTS
    Callers,     \* threads or tasks that call the client
    Runtimes,    \* which runtimes to consider
    Lists,       \* lists of assets they subscribe (model bound)
    CallMax,     \* calls to subscribe (model bound)
    ThreadedLists, ThreadedCallMax, ThreadedLossMax
                 \* the bounds on a multi-thread runtime

ASSUME SubscriptionAssumption ==
    /\ IsFiniteSet(Callers)
    /\ Runtimes \subseteq {"current_thread", "multi_thread"}
    /\ Lists \cup ThreadedLists \subseteq (SUBSET Assets) \ {{}}
    /\ {CallMax, ThreadedCallMax, ThreadedLossMax} \subseteq Nat

VARIABLES
    runtime,     \* the runtime the program uses
    channel,     \* manager in channels for this channel type, 0 for none
    counts,      \* subscribed_assets of each manager; 0 for an absent key
    handler,     \* where the reconnection handler of each manager is
    was,         \* its was_connected
    resend,      \* assets it has collected in resubscribe_all
    call,        \* the call each caller is in
    stream,      \* the stream each caller holds
    closing,     \* shutdown of the client
    calls        \* subscriptions so far

clientvars == <<runtime, channel, counts, handler, was, resend, call, stream,
                closing, calls>>
marketvars == <<socketvars, clientvars>>

NoCall == [op |-> "none", m |-> 0, assets |-> {}, left |-> {}, hot |-> {}]
NoStream == [m |-> 0, assets |-> {}]

Calls == [op : {"none", "subscribe", "unsubscribe", "clean"}, m : Managers \cup {0},
          assets : SUBSET Assets, left : SUBSET Assets, hot : SUBSET Assets]

MarketInit ==
    /\ SocketInit
    /\ runtime \in Runtimes
    /\ channel = 0
    /\ counts = [m \in Managers |-> [a \in Assets |-> 0]]
    /\ handler = [m \in Managers |-> "absent"]
    /\ was = [m \in Managers |-> FALSE]
    /\ resend = [m \in Managers |-> {}]
    /\ call = [c \in Callers |-> NoCall]
    /\ stream = [c \in Callers |-> NoStream]
    /\ closing = "no"
    /\ calls = 0

-----------------------------------------------------------------------------

Tracked(m) == {a \in Assets : counts[m][a] > 0}

Quiet ==
    /\ \A c \in Callers : call[c] = NoCall
    /\ \A m \in Managers : handler[m] # "sending"

(* The bounds of the runtime in use.                                       *)
Threaded == runtime = "multi_thread"
Subscribed == IF Threaded THEN ThreadedLists ELSE Lists
CallsAllowed == IF Threaded THEN ThreadedCallMax ELSE CallMax

(* Another task may run: on one thread only between two calls.             *)
Free == Threaded \/ Quiet

(* Someone holds the Arc of the subscription manager.                      *)
Owned(m) ==
    \/ channel = m
    \/ \E c \in Callers : call[c].m = m
    \/ handler[m] = "sending"

(* begin_shutdown, or the drop of the last owner, cancels manager m.       *)
Cancelled(m) == m \in ordered \/ ~Owned(m)

(* A subscribe in progress keeps the Ref of get_or_create_channel, and     *)
(* with it the lock of the map's entry.                                    *)
EntryLocked == \E c \in Callers : call[c].op = "subscribe"

-----------------------------------------------------------------------------
(* subscribe_market.                                                       *)

(* get_or_create_channel for manager m.                                    *)
Create(m) ==
    IF channel = m THEN UNCHANGED <<conn, channel, handler>>
    ELSE /\ channel = 0
         /\ conn[m] = "absent"
         /\ \A n \in 1 .. (m - 1) : conn[n] # "absent"
         /\ conn' = [conn EXCEPT ![m] = "spawned"]
         /\ handler' = [handler EXCEPT ![m] = "starting"]
         /\ channel' = m

StartSubscribe(c) ==
    /\ Free
    /\ call[c] = NoCall
    /\ stream[c] = NoStream
    /\ closing = "no"
    /\ calls < CallsAllowed
    /\ calls' = calls + 1
    /\ \E m \in Managers, assets \in Subscribed :
          /\ Create(m)
          /\ call' = [call EXCEPT ![c] = [op |-> "subscribe", m |-> m,
                        assets |-> assets, left |-> assets, hot |-> {}]]
    /\ UNCHANGED <<requests, served, mute, beat, changed, ordered, losses,
                   runtime, counts, was, resend, stream, closing>>

(* Variant: an entry counts every asset still to come.                     *)
CountUpRest(c) ==
    /\ call[c].op = "subscribe"
    /\ \E a \in call[c].left :
          /\ counts' = [counts EXCEPT ![call[c].m] =
                [b \in Assets |-> IF b \in call[c].left THEN @[b] + 1 ELSE @[b]]]
          /\ call' = [call EXCEPT
                ![c].left = @ \ {a},
                ![c].hot = IF counts[call[c].m][a] = 0 THEN @ \cup {a} ELSE @]
    /\ UNCHANGED <<socketvars, runtime, channel, handler, was, resend, stream,
                   closing, calls>>

(* The entry of one asset: an asset that was absent is new.                *)
CountUp(c) ==
    /\ call[c].op = "subscribe"
    /\ \E a \in call[c].left :
          /\ counts' = [counts EXCEPT ![call[c].m][a] = @ + 1]
          /\ call' = [call EXCEPT
                ![c].left = @ \ {a},
                ![c].hot = IF counts[call[c].m][a] = 0 THEN @ \cup {a} ELSE @]
    /\ UNCHANGED <<socketvars, runtime, channel, handler, was, resend, stream,
                   closing, calls>>

(* Variant: nothing is requested unless the whole list is new.             *)
FinishSubscribeAllNew(c) ==
    /\ call[c].op = "subscribe"
    /\ call[c].left = {}
    /\ call' = [call EXCEPT ![c] = NoCall]
    /\ IF call[c].hot # call[c].assets THEN UNCHANGED requests
       ELSE Enqueue(call[c].m, [op |-> "subscribe", assets |-> call[c].hot])
    /\ stream' = [stream EXCEPT ![c] = [m |-> call[c].m, assets |-> call[c].assets]]
    /\ UNCHANGED <<conn, served, mute, beat, changed, ordered, losses, runtime,
                   channel, counts, handler, was, resend, closing, calls>>

(* Request what is new and return the stream; a failed send returns the    *)
(* error and leaves the counts.                                            *)
FinishSubscribe(c) ==
    /\ call[c].op = "subscribe"
    /\ call[c].left = {}
    /\ call' = [call EXCEPT ![c] = NoCall]
    /\ IF call[c].hot = {} THEN UNCHANGED requests
       ELSE Enqueue(call[c].m, [op |-> "subscribe", assets |-> call[c].hot])
    /\ stream' = IF call[c].hot # {} /\ ~CanSend(call[c].m) THEN stream
                 ELSE [stream EXCEPT ![c] =
                         [m |-> call[c].m, assets |-> call[c].assets]]
    /\ UNCHANGED <<conn, served, mute, beat, changed, ordered, losses, runtime,
                   channel, counts, handler, was, resend, closing, calls>>

-----------------------------------------------------------------------------
(* unsubscribe_and_cleanup around unsubscribe_market.                      *)

(* The caller gives its stream up.  Without a channel there is nothing to  *)
(* do; else the Arc is cloned and the entry released.                      *)
StartUnsubscribe(c) ==
    /\ Free
    /\ call[c] = NoCall
    /\ stream[c] # NoStream
    /\ stream' = [stream EXCEPT ![c] = NoStream]
    /\ call' = IF channel = 0 THEN call
               ELSE [call EXCEPT ![c] = [op |-> "unsubscribe", m |-> channel,
                       assets |-> stream[c].assets, left |-> stream[c].assets,
                       hot |-> {}]]
    /\ UNCHANGED <<socketvars, runtime, channel, counts, handler, was, resend,
                   closing, calls>>

(* Variant: the first unsubscribe removes the entry.                       *)
CountDownRemoves(c) ==
    /\ call[c].op = "unsubscribe"
    /\ \E a \in call[c].left :
          /\ counts' = [counts EXCEPT ![call[c].m][a] = 0]
          /\ call' = [call EXCEPT ![c].left = @ \ {a}, ![c].hot = @ \cup {a}]
    /\ UNCHANGED <<socketvars, runtime, channel, handler, was, resend, stream,
                   closing, calls>>

(* One entry: an asset whose count reaches zero is removed.                *)
CountDown(c) ==
    /\ call[c].op = "unsubscribe"
    /\ \E a \in call[c].left :
          LET n == counts[call[c].m][a] IN
          /\ counts' = IF n = 0 THEN counts
                       ELSE [counts EXCEPT ![call[c].m][a] = n - 1]
          /\ call' = [call EXCEPT
                ![c].left = @ \ {a},
                ![c].hot = IF n = 1 THEN @ \cup {a} ELSE @]
    /\ UNCHANGED <<socketvars, runtime, channel, handler, was, resend, stream,
                   closing, calls>>

(* Only what reached zero is unsubscribed; a failed send returns at once.  *)
SendUnsubscribe(c) ==
    /\ call[c].op = "unsubscribe"
    /\ call[c].left = {}
    /\ IF call[c].hot = {} THEN UNCHANGED requests
       ELSE Enqueue(call[c].m, [op |-> "unsubscribe", assets |-> call[c].hot])
    /\ call' = [call EXCEPT ![c] =
                  IF call[c].hot # {} /\ ~CanSend(call[c].m) THEN NoCall
                  ELSE [@ EXCEPT !.op = "clean"]]
    /\ UNCHANGED <<conn, served, mute, beat, changed, ordered, losses, runtime,
                   channel, counts, handler, was, resend, stream, closing, calls>>

(* Variant: what this call has unsubscribed decides, not what is left.     *)
CleanUpUnchecked(c) ==
    /\ call[c].op = "clean"
    /\ ~EntryLocked
    /\ channel' = IF call[c].hot = call[c].assets THEN 0 ELSE channel
    /\ call' = [call EXCEPT ![c] = NoCall]
    /\ UNCHANGED <<socketvars, runtime, counts, handler, was, resend, stream,
                   closing, calls>>

(* The entry is looked up again, perhaps that of a later manager, and      *)
(* removed when nothing is subscribed through it.                          *)
CleanUp(c) ==
    /\ call[c].op = "clean"
    /\ ~EntryLocked
    /\ channel' = IF channel # 0 /\ Tracked(channel) = {} THEN 0 ELSE channel
    /\ call' = [call EXCEPT ![c] = NoCall]
    /\ UNCHANGED <<socketvars, runtime, counts, handler, was, resend, stream,
                   closing, calls>>

-----------------------------------------------------------------------------
(* start_reconnection_handler: the task beside each manager.               *)

HandlerStarts(m) ==
    /\ Free
    /\ handler[m] = "starting"
    /\ handler' = [handler EXCEPT ![m] = "waiting"]
    /\ was' = [was EXCEPT ![m] = conn[m] = "connected"]
    /\ UNCHANGED <<socketvars, runtime, channel, counts, resend, call, stream,
                   closing, calls>>

(* The latest state is read; states in between are not seen.  A second     *)
(* Connected collects the tracked assets; Disconnected ends the task.      *)
HandlerObserves(m) ==
    /\ Free
    /\ handler[m] = "waiting"
    /\ changed[m]
    /\ changed' = [changed EXCEPT ![m] = FALSE]
    /\ was' = [was EXCEPT ![m] = @ \/ conn[m] = "connected"]
    /\ IF conn[m] = "connected" /\ was[m] /\ (Owned(m) \/ m \in ordered)
       THEN /\ handler' = [handler EXCEPT ![m] = "sending"]
            /\ resend' = [resend EXCEPT ![m] = Tracked(m)]
       ELSE /\ handler' = [handler EXCEPT ![m] =
                  IF conn[m] = "closed" \/ (conn[m] = "connected" /\ was[m])
                  THEN "done" ELSE "waiting"]
            /\ UNCHANGED resend
    /\ UNCHANGED <<conn, requests, served, mute, beat, ordered, losses, runtime,
                   channel, counts, call, stream, closing, calls>>

HandlerResends(m) ==
    /\ handler[m] = "sending"
    /\ handler' = [handler EXCEPT ![m] = "waiting"]
    /\ IF resend[m] = {} THEN UNCHANGED requests
       ELSE Enqueue(m, [op |-> "subscribe", assets |-> resend[m]])
    /\ resend' = [resend EXCEPT ![m] = {}]
    /\ UNCHANGED <<conn, served, mute, beat, changed, ordered, losses, runtime,
                   channel, counts, was, call, stream, closing, calls>>

HandlerCancelled(m) ==
    /\ Free
    /\ handler[m] = "waiting"
    /\ Cancelled(m)
    /\ handler' = [handler EXCEPT ![m] = "done"]
    /\ UNCHANGED <<socketvars, runtime, channel, counts, was, resend, call,
                   stream, closing, calls>>

(* On one thread the handler, woken by the state that was published, runs  *)
(* while the loop joins the heartbeat task or waits for a second or more:  *)
(* it has seen Connected before the loop leaves the socket, and what       *)
(* follows before the loop dials again.                                    *)
HandlerKeepsUp(m) ==
    ( /\ ~Threaded
      /\ conn[m] \in {"connected", "backoff"}
      /\ conn'[m] # conn[m] )
      => \/ handler[m] = "done"
         \/ handler[m] = "waiting" /\ ~changed[m]

-----------------------------------------------------------------------------
(* shutdown of the client.                                                 *)

(* take_channels_for_shutdown waits for the entry; begin_shutdown.         *)
BeginShutdown ==
    /\ Free
    /\ closing = "no"
    /\ ~EntryLocked
    /\ closing' = "begun"
    /\ channel' = 0
    /\ ordered' = IF channel = 0 THEN ordered ELSE ordered \cup {channel}
    /\ UNCHANGED <<conn, requests, served, mute, beat, changed, losses, runtime,
                   counts, handler, was, resend, call, stream, calls>>

(* Both tasks of what was taken have ended.                                *)
ShutdownReturns ==
    /\ Free
    /\ closing = "begun"
    /\ \A m \in ordered : handler[m] = "done" /\ conn[m] = "closed"
    /\ closing' = "done"
    /\ UNCHANGED <<socketvars, runtime, channel, counts, handler, was, resend,
                   call, stream, calls>>

-----------------------------------------------------------------------------

CallStep(c) ==
    \/ CountUp(c)
    \/ FinishSubscribe(c)
    \/ CountDown(c)
    \/ SendUnsubscribe(c)
    \/ CleanUp(c)

HandlerStep(m) ==
    \/ HandlerStarts(m)
    \/ HandlerObserves(m)
    \/ HandlerResends(m)
    \/ HandlerCancelled(m)

ConnectionStep(m) ==
    /\ Free
    /\ LoopStep(m, Cancelled(m))
    /\ HandlerKeepsUp(m)
    /\ UNCHANGED clientvars

Background(m) ==
    /\ Free
    /\ Network(m, Cancelled(m))
    /\ Threaded => losses' <= ThreadedLossMax
    /\ HandlerKeepsUp(m)
    /\ UNCHANGED clientvars

MarketNext ==
    \/ \E c \in Callers : StartSubscribe(c) \/ StartUnsubscribe(c) \/ CallStep(c)
    \/ \E m \in Managers : HandlerStep(m) \/ ConnectionStep(m) \/ Background(m)
    \/ BeginShutdown
    \/ ShutdownReturns

(* The runtime does not rest while a task can run, a call goes on, or a    *)
(* dial or a timer is due; every failure is bounded, so this is enough.    *)
Running ==
    \/ \E c \in Callers : CallStep(c)
    \/ \E m \in Managers : HandlerStep(m) \/ ConnectionStep(m)
    \/ ShutdownReturns

MarketFairness == WF_marketvars(Running)

MarketSpec == MarketInit /\ [][MarketNext]_marketvars /\ MarketFairness

-----------------------------------------------------------------------------
(* Properties.                                                             *)

(* The variables have their types; a count never goes below zero and never *)
(* exceeds the number of callers.                                          *)
MarketTypeOK ==
    /\ conn \in [Managers -> {"absent", "spawned", "dialing", "connected", "backoff", "closed"}]
    /\ requests \in [Managers -> Seq(Frame)]
    /\ served \in [Managers -> SUBSET Assets]
    /\ mute \in [Managers -> BOOLEAN]
    /\ beat \in [Managers -> {"none", "beating", "dead"}]
    /\ changed \in [Managers -> BOOLEAN]
    /\ ordered \subseteq Managers
    /\ channel \in Managers \cup {0}
    /\ counts \in [Managers -> [Assets -> 0 .. Cardinality(Callers)]]
    /\ handler \in [Managers -> {"absent", "starting", "waiting", "sending", "done"}]
    /\ was \in [Managers -> BOOLEAN]
    /\ resend \in [Managers -> SUBSET Assets]
    /\ call \in [Callers -> Calls]
    /\ stream \in [Callers -> [m : Managers \cup {0}, assets : SUBSET Assets]]
    /\ closing \in {"no", "begun", "done"}

(* Nothing is on its way to a connected peer of the current channel.       *)
Settled(m) ==
    /\ channel = m
    /\ conn[m] = "connected" /\ ~mute[m]
    /\ requests[m] = <<>>
    /\ handler[m] = "waiting" /\ ~changed[m]
    /\ Quiet

(* On a current-thread runtime, whatever sockets were lost in between, a   *)
(* peer that has read everything serves exactly the assets that are        *)
(* counted (subscription.rs: multiplexing and resubscribe_all).            *)
SettledExact ==
    ~Threaded =>
        \A m \in Managers : Settled(m) => served[m] = Tracked(m)

(* A stream in use is never cut off: as long as the client is not shut     *)
(* down, the channel it came from is the current one, on either runtime    *)
(* (client.rs, unsubscribe_and_cleanup and the Ref of                      *)
(* get_or_create_channel).                                                 *)
StreamsKept ==
    \A c \in Callers :
        (stream[c] # NoStream /\ closing = "no") => channel = stream[c].m

(* Between calls an asset's count is the number of streams that use it, on *)
(* either runtime (the test concurrent_subscribe_unsubscribe_maintains_    *)
(* consistency asks this of the end of a run).                             *)
CountsAreStreams ==
    (Quiet /\ channel # 0) =>
        \A a \in Assets :
            counts[channel][a] =
                Cardinality({c \in Callers :
                    stream[c].m = channel /\ a \in stream[c].assets})

(* When a loop has ended its peer serves nothing that was unsubscribed:    *)
(* queued unsubscribe frames reach an active peer before its socket is     *)
(* closed (connection.rs, the comment on the biased select).               *)
UnsubscribedBeforeClose ==
    ~Threaded =>
        \A m \in Managers :
            (conn[m] = "closed" /\ Quiet) => served[m] \subseteq Tracked(m)

(* shutdown returns, and every task of every manager the client ever had   *)
(* ends, even that of a manager removed earlier.                           *)
ShutdownEndsAll ==
    (closing = "begun")
        ~> (closing = "done" /\ \A m \in Managers :
                conn[m] \in {"absent", "closed"} /\ handler[m] \in {"absent", "done"})

(* The doc comment of unsubscribe_market: the server is asked to stop only *)
(* when no other stream is using the asset.                                *)
UsedAssetsStayServed ==
    \A m \in Managers : Settled(m) => Tracked(m) \subseteq served[m]

(* The doc comment of heartbeat_timeout: a connection whose PONG does not  *)
(* come in time is considered dead.                                        *)
DeadSocketIsLeft ==
    \A m \in Managers : (mute[m] /\ beat[m] = "dead") ~> ~mute[m]

=============================================================================

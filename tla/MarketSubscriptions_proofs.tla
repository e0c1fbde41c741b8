---------------------- MODULE MarketSubscriptions_proofs ----------------------
(***************************************************************************)
(* Machine-checked theorems about MarketSubscriptions, for every set of    *)
(* callers and assets, every number of managers and of failures: what its  *)
(* counts are, on either runtime, and what its peers serve on the runtime  *)
(* of one thread.                                                          *)
(***************************************************************************)
EXTENDS MarketSubscriptions, FiniteSetTheorems, TLAPS

-----------------------------------------------------------------------------
(* The inductive invariant.  A count is the number of callers that use the *)
(* asset: who holds a stream, who has counted it up on the way to one, and *)
(* who has still to count it down.                                         *)

Uses(c, m, a) ==
    \/ stream[c].m = m /\ a \in stream[c].assets
    \/ call[c].op = "subscribe" /\ call[c].m = m /\ a \in call[c].assets \ call[c].left
    \/ call[c].op = "unsubscribe" /\ call[c].m = m /\ a \in call[c].left

Users(m, a) == {c \in Callers : Uses(c, m, a)}

CountsExact ==
    \A m \in Managers : channel = m =>
        \A a \in Assets : counts[m][a] = Cardinality(Users(m, a))

(* A caller with a stream is in no call; a stream, a subscribe and an      *)
(* unsubscribe that still counts go through the current channel.           *)
CallerSound(c) ==
    /\ stream[c] # NoStream =>
          /\ call[c] = NoCall
          /\ stream[c].m \in Managers
          /\ conn[stream[c].m] # "absent"
          /\ stream[c].assets # {}
          /\ closing = "no" => channel = stream[c].m
    /\ call[c].op # "none" => call[c].m \in Managers /\ conn[call[c].m] # "absent"
    /\ call[c].op = "subscribe" =>
          /\ closing = "no" /\ channel = call[c].m
          /\ call[c].assets # {} /\ call[c].left \subseteq call[c].assets
    /\ (call[c].op = "unsubscribe" /\ call[c].left # {} /\ closing = "no") =>
          channel = call[c].m

CallersSound == \A c \in Callers : CallerSound(c)

(* The current channel works; a manager not yet created has counted        *)
(* nothing.                                                                *)
ManagersSound ==
    /\ channel # 0 => closing = "no" /\ channel \notin ordered
                        /\ conn[channel] \notin {"absent", "closed"}
    /\ \A m \in Managers : conn[m] = "absent" =>
          m \notin ordered /\ \A a \in Assets : counts[m][a] = 0

IInv == MarketTypeOK /\ CountsExact /\ CallersSound /\ ManagersSound

-----------------------------------------------------------------------------
(* Counting.                                                               *)

LEMMA ManagersAreNumbers == Managers \subseteq Nat \ {0}
BY SocketAssumption DEF Managers

LEMMA UsersFinite ==
  ASSUME NEW m, NEW a
  PROVE  /\ IsFiniteSet(Users(m, a))
         /\ Cardinality(Users(m, a)) \in Nat
         /\ Cardinality(Users(m, a)) <= Cardinality(Callers)
         /\ Cardinality(Callers) \in Nat
         /\ Users(m, a) # {} => Cardinality(Users(m, a)) > 0
<1>1. IsFiniteSet(Callers) /\ Cardinality(Callers) \in Nat
  BY SubscriptionAssumption, FS_CardinalityType
<1>2. /\ IsFiniteSet(Users(m, a))
      /\ Cardinality(Users(m, a)) <= Cardinality(Callers)
  BY <1>1, FS_Subset DEF Users
<1>3. Cardinality(Users(m, a)) \in Nat
  BY <1>2, FS_CardinalityType
<1>4. Cardinality(Users(m, a)) = 0 <=> Users(m, a) = {}
  BY <1>2, FS_EmptySet
<1> QED BY <1>1, <1>2, <1>3, <1>4

(* One more caller uses the asset: the count may go up by one.             *)
LEMMA OneMoreUser ==
  ASSUME NEW m, NEW a, NEW c \in Callers, ~Uses(c, m, a), Users(m, a)' = Users(m, a) \cup {c}
  PROVE  /\ Cardinality(Users(m, a)') = Cardinality(Users(m, a)) + 1
         /\ Cardinality(Users(m, a)) + 1 <= Cardinality(Callers)
<1>1. c \notin Users(m, a)
  BY DEF Users
<1>2. Cardinality(Users(m, a) \cup {c}) = Cardinality(Users(m, a)) + 1
  BY <1>1, UsersFinite, FS_AddElement
<1>3. Users(m, a) \cup {c} \in SUBSET Callers
  BY DEF Users
<1>4. Cardinality(Users(m, a) \cup {c}) <= Cardinality(Callers)
  BY <1>3, SubscriptionAssumption, FS_Subset
<1> QED BY <1>2, <1>4

(* One caller less uses it.                                                *)
LEMMA OneLessUser ==
  ASSUME NEW m, NEW a, NEW c \in Callers, Uses(c, m, a), Users(m, a)' = Users(m, a) \ {c}
  PROVE  Cardinality(Users(m, a)') = Cardinality(Users(m, a)) - 1
<1>1. c \in Users(m, a)
  BY DEF Users
<1> QED BY <1>1, UsersFinite, FS_RemoveElement

(* A step that leaves every caller's uses and the counts alone.            *)
LEMMA SameCounts ==
  ASSUME CountsExact, channel' \in {channel, 0}, counts' = counts,
         \A m \in Managers : channel = m =>
            \A a \in Assets, c \in Callers : Uses(c, m, a)' <=> Uses(c, m, a)
  PROVE  CountsExact'
<1> SUFFICES ASSUME NEW m \in Managers, channel' = m, NEW a \in Assets
             PROVE  counts'[m][a] = Cardinality(Users(m, a)')
  BY DEF CountsExact
<1>1. channel = m
  BY ManagersAreNumbers
<1>2. Users(m, a)' = Users(m, a)
  BY <1>1 DEF Users
<1> QED BY <1>1, <1>2 DEF CountsExact

(* A step of a task that only moves sockets.                               *)
LEMMA SocketsMove ==
  ASSUME CountsExact, CallersSound, ManagersSound, MarketTypeOK,
         UNCHANGED <<channel, counts, call, stream, closing, ordered>>,
         \A m \in Managers : conn'[m] # conn[m] =>
            conn[m] # "absent" /\ conn'[m] # "absent" /\ (channel = m => conn'[m] # "closed")
  PROVE  CountsExact' /\ CallersSound' /\ ManagersSound'
<1>1. CountsExact'
  BY SameCounts DEF Uses
<1>2. CallersSound'
  BY DEF CallersSound, CallerSound, NoStream, NoCall
<1>3. ManagersSound'
  BY DEF ManagersSound, MarketTypeOK
<1> QED BY <1>1, <1>2, <1>3

-----------------------------------------------------------------------------
(* Typing of queues and calls.                                             *)

LEMMA EnqueueTyped ==
  ASSUME MarketTypeOK, NEW m \in Managers, NEW frame \in Frame, Enqueue(m, frame)
  PROVE  requests' \in [Managers -> Seq(Frame)]
<1>1. requests \in [Managers -> Seq(Frame)]
  BY DEF MarketTypeOK
<1>2. Append(requests[m], frame) \in Seq(Frame)
  BY <1>1
<1> QED BY <1>1, <1>2 DEF Enqueue

LEMMA Initially == MarketInit => IInv
<1> SUFFICES ASSUME MarketInit PROVE IInv
  OBVIOUS
<1>1. Cardinality(Callers) \in Nat
  BY SubscriptionAssumption, FS_CardinalityType
<1>2. MarketTypeOK
  BY <1>1 DEF MarketInit, SocketInit, MarketTypeOK, Calls, NoCall, NoStream
<1>3. CountsExact
  BY ManagersAreNumbers DEF MarketInit, CountsExact
<1>4. CallersSound
  BY DEF MarketInit, CallersSound, CallerSound, NoCall
<1>5. ManagersSound
  BY DEF MarketInit, SocketInit, ManagersSound
<1> QED BY <1>2, <1>3, <1>4, <1>5 DEF IInv

-----------------------------------------------------------------------------
(* subscribe_market.                                                       *)

LEMMA StartSubscribeKeeps ==
  ASSUME IInv, NEW c \in Callers, StartSubscribe(c)
  PROVE  IInv'
<1> USE DEF IInv
<1>1. PICK m \in Managers, assets \in Subscribed :
        /\ Create(m)
        /\ call' = [call EXCEPT ![c] = [op |-> "subscribe", m |-> m,
                      assets |-> assets, left |-> assets, hot |-> {}]]
  BY DEF StartSubscribe
<1>2. assets \in SUBSET Assets /\ assets # {}
  BY SubscriptionAssumption DEF Subscribed
<1>3. /\ call[c] = NoCall /\ stream[c] = NoStream /\ closing = "no"
      /\ UNCHANGED <<requests, served, mute, beat, changed, ordered, losses,
                     runtime, counts, was, resend, stream, closing>>
  BY DEF StartSubscribe
<1>4. m # 0
  BY ManagersAreNumbers
<1>5. \/ channel = m /\ UNCHANGED <<conn, channel, handler>>
      \/ /\ channel = 0 /\ conn[m] = "absent" /\ channel' = m
         /\ conn' = [conn EXCEPT ![m] = "spawned"]
         /\ handler' = [handler EXCEPT ![m] = "starting"]
  BY <1>1 DEF Create
<1>6. MarketTypeOK'
  BY <1>1, <1>2, <1>3, <1>5 DEF MarketTypeOK, Calls
<1>7. \A d \in Callers, a \in Assets : Uses(d, m, a)' <=> Uses(d, m, a)
  BY <1>1, <1>3 DEF MarketTypeOK, Uses, NoCall
<1>8. CountsExact'
  <2>1. CASE channel = m
    <3>1. channel' = channel
      BY <1>5, <1>4, <2>1
    <3> QED BY <1>3, <1>7, <2>1, <3>1, SameCounts
  <2>2. CASE channel = 0 /\ conn[m] = "absent" /\ channel' = m
    <3>1. \A a \in Assets : counts[m][a] = 0
      BY <2>2 DEF ManagersSound
    <3>2. \A d \in Callers, a \in Assets : ~Uses(d, m, a)
      BY <1>4, <2>2 DEF CallersSound, CallerSound, Uses, NoStream
    <3>3. \A a \in Assets : Users(m, a)' = {}
      BY <1>7, <3>2 DEF Users
    <3> QED BY <1>3, <2>2, <3>1, <3>3, FS_EmptySet DEF CountsExact
  <2> QED BY <1>5, <2>1, <2>2
<1>9. \A n \in Managers : conn[n] # "absent" => conn'[n] = conn[n]
  BY <1>5 DEF MarketTypeOK
<1>10. conn'[m] \notin {"absent", "closed"} /\ channel' = m
  BY <1>4, <1>5 DEF MarketTypeOK, ManagersSound
<1>11. CallersSound'
  <2> SUFFICES ASSUME NEW d \in Callers PROVE CallerSound(d)'
    BY DEF CallersSound
  <2>1. CASE d = c
    BY <1>1, <1>2, <1>3, <1>10, <2>1 DEF CallerSound, MarketTypeOK
  <2>2. CASE d # c
    <3>1. call'[d] = call[d] /\ stream'[d] = stream[d]
      BY <1>1, <1>3, <2>2 DEF MarketTypeOK
    <3>2. CallerSound(d)
      BY DEF CallersSound
    <3>3. channel # 0 => channel' = channel
      BY <1>4, <1>5
    <3>4. stream[d] # NoStream => stream[d].m # 0 /\ channel = stream[d].m
      BY <1>3, <3>2, ManagersAreNumbers DEF CallerSound
    <3>5. call[d].op # "none" => call[d].m # 0
      BY <3>2, ManagersAreNumbers DEF CallerSound
    <3> QED BY <1>3, <1>9, <3>1, <3>2, <3>3, <3>4, <3>5 DEF CallerSound, NoStream, NoCall
  <2> QED BY <2>1, <2>2
<1>12. ManagersSound'
  <2>1. \A n \in Managers : conn'[n] = "absent" => conn[n] = "absent"
    BY <1>9
  <2>2. m \notin ordered
    BY <1>5, <1>4 DEF ManagersSound
  <2> QED BY <1>3, <1>10, <2>1, <2>2 DEF ManagersSound
<1> QED BY <1>6, <1>8, <1>11, <1>12

LEMMA CountUpKeeps ==
  ASSUME IInv, NEW c \in Callers, CountUp(c)
  PROVE  IInv'
<1> USE DEF IInv
<1>0. PICK m \in Managers : m = call[c].m
  BY DEF CountUp, CallersSound, CallerSound
<1>1. PICK a \in call[c].left :
        /\ counts' = [counts EXCEPT ![m][a] = @ + 1]
        /\ call' = [call EXCEPT ![c].left = @ \ {a},
              ![c].hot = IF counts[m][a] = 0 THEN @ \cup {a} ELSE @]
  BY <1>0 DEF CountUp
<1>2. /\ call[c].op = "subscribe"
      /\ UNCHANGED <<socketvars, runtime, channel, handler, was, resend, stream,
                     closing, calls>>
  BY DEF CountUp
<1>3. /\ m \in Managers /\ channel = m /\ closing = "no" /\ conn[m] # "absent"
      /\ call[c].left \subseteq call[c].assets
      /\ call[c].assets # {} /\ stream[c] = NoStream
  BY <1>0, <1>2 DEF CallersSound, CallerSound, NoCall
<1>4. call[c] \in Calls /\ a \in Assets
  BY <1>1 DEF MarketTypeOK, Calls
<1>5. /\ call'[c].op = "subscribe" /\ call'[c].m = m
      /\ call'[c].assets = call[c].assets
      /\ call'[c].left = call[c].left \ {a}
      /\ call'[c] \in Calls
      /\ \A d \in Callers : d # c => call'[d] = call[d]
      /\ call' \in [Callers -> Calls]
  BY <1>0, <1>1, <1>2, <1>4 DEF MarketTypeOK, Calls
<1>6. ~Uses(c, m, a)
  BY <1>1, <1>2, <1>3, ManagersAreNumbers DEF Uses, NoStream
<1>7. \A d \in Callers, b \in Assets :
        Uses(d, m, b)' <=> (Uses(d, m, b) \/ (d = c /\ b = a))
  BY <1>0, <1>1, <1>2, <1>3, <1>5, ManagersAreNumbers DEF Uses, NoStream
<1>8. Users(m, a)' = Users(m, a) \cup {c}
  BY <1>7, <1>4 DEF Users
<1>9. /\ Cardinality(Users(m, a)') = Cardinality(Users(m, a)) + 1
      /\ Cardinality(Users(m, a)) + 1 <= Cardinality(Callers)
  BY <1>6, <1>8, OneMoreUser
<1>10. \A b \in Assets : b # a => Users(m, b)' = Users(m, b)
  BY <1>7 DEF Users
<1>11. counts[m][a] = Cardinality(Users(m, a))
  BY <1>3, <1>4 DEF CountsExact
<1>12. /\ counts'[m][a] = counts[m][a] + 1
       /\ \A b \in Assets : b # a => counts'[m][b] = counts[m][b]
       /\ \A n \in Managers : n # m => counts'[n] = counts[n]
  BY <1>1, <1>3, <1>4 DEF MarketTypeOK
<1>13. counts' \in [Managers -> [Assets -> 0 .. Cardinality(Callers)]]
  <2>1. counts[m][a] + 1 \in 0 .. Cardinality(Callers)
    BY <1>9, <1>11, UsersFinite
  <2> QED BY <1>1, <1>3, <1>4, <2>1 DEF MarketTypeOK
<1>14. MarketTypeOK'
  BY <1>2, <1>5, <1>13 DEF MarketTypeOK, socketvars
<1>15. CountsExact'
  <2>1. channel' = m
    BY <1>2, <1>3
  <2>2. counts'[m][a] = Cardinality(Users(m, a)')
    BY <1>9, <1>11, <1>12
  <2>3. ASSUME NEW b \in Assets, b # a
        PROVE  counts'[m][b] = Cardinality(Users(m, b)')
    BY <1>3, <1>10, <1>12, <2>3 DEF CountsExact
  <2> QED BY <2>1, <2>2, <2>3 DEF CountsExact
<1>16. CallersSound'
  BY <1>0, <1>2, <1>3, <1>5 DEF CallersSound, CallerSound, socketvars, NoCall
<1>17. ManagersSound'
  BY <1>2, <1>3, <1>12 DEF ManagersSound, socketvars
<1> QED BY <1>14, <1>15, <1>16, <1>17

(* A send through the current channel does not fail.                       *)
LEMMA FinishSubscribeKeeps ==
  ASSUME IInv, NEW c \in Callers, FinishSubscribe(c)
  PROVE  IInv'
<1> USE DEF IInv
<1>0. PICK m \in Managers : m = call[c].m
  BY DEF FinishSubscribe, CallersSound, CallerSound
<1>1. /\ call[c].op = "subscribe" /\ call[c].left = {}
      /\ call' = [call EXCEPT ![c] = NoCall]
      /\ UNCHANGED <<conn, served, mute, beat, changed, ordered, losses, runtime,
                     channel, counts, handler, was, resend, closing, calls>>
  BY DEF FinishSubscribe
<1>2. /\ m \in Managers /\ channel = m /\ closing = "no" /\ conn[m] # "absent"
      /\ call[c].assets # {} /\ stream[c] = NoStream /\ m # 0
      /\ call[c] \in Calls
  BY <1>0, <1>1, ManagersAreNumbers DEF CallersSound, CallerSound, NoCall, MarketTypeOK
<1>3. CanSend(m)
  BY <1>2 DEF CanSend, ManagersSound
<1>4. stream' = [stream EXCEPT ![c] = [m |-> m, assets |-> call[c].assets]]
  BY <1>0, <1>3 DEF FinishSubscribe
<1>5. requests' \in [Managers -> Seq(Frame)]
  <2>1. CASE call[c].hot = {}
    BY <2>1 DEF FinishSubscribe, MarketTypeOK
  <2>2. CASE call[c].hot # {}
    <3>1. [op |-> "subscribe", assets |-> call[c].hot] \in Frame
      BY <1>2 DEF Calls, Frame
    <3> QED BY <1>0, <2>2, <3>1, EnqueueTyped DEF FinishSubscribe
  <2> QED BY <2>1, <2>2
<1>6. MarketTypeOK'
  BY <1>1, <1>2, <1>4, <1>5 DEF MarketTypeOK, Calls, NoCall
<1>7. CountsExact'
  <2>1. \A a \in Assets, d \in Callers : Uses(d, m, a)' <=> Uses(d, m, a)
    BY <1>0, <1>1, <1>2, <1>4 DEF Uses, MarketTypeOK, NoCall, NoStream
  <2> QED BY <1>1, <1>2, <2>1, SameCounts
<1>8. CallersSound'
  BY <1>0, <1>1, <1>2, <1>4 DEF CallersSound, CallerSound, MarketTypeOK, NoCall
<1>9. ManagersSound'
  BY <1>1 DEF ManagersSound
<1> QED BY <1>6, <1>7, <1>8, <1>9

-----------------------------------------------------------------------------
(* unsubscribe_and_cleanup.                                                *)

LEMMA StartUnsubscribeKeeps ==
  ASSUME IInv, NEW c \in Callers, StartUnsubscribe(c)
  PROVE  IInv'
<1> USE DEF IInv
<1>1. /\ call[c] = NoCall /\ stream[c] # NoStream
      /\ stream' = [stream EXCEPT ![c] = NoStream]
      /\ UNCHANGED <<socketvars, runtime, channel, counts, handler, was, resend,
                     closing, calls>>
      /\ \/ channel = 0 /\ call' = call
         \/ /\ channel # 0
            /\ call' = [call EXCEPT ![c] = [op |-> "unsubscribe", m |-> channel,
                  assets |-> stream[c].assets, left |-> stream[c].assets, hot |-> {}]]
  BY DEF StartUnsubscribe
<1>2. stream[c] \in [m : Managers \cup {0}, assets : SUBSET Assets]
  BY DEF MarketTypeOK
<1>3. channel # 0 => channel = stream[c].m /\ conn[channel] # "absent" /\ channel \in Managers
  BY <1>1 DEF CallersSound, CallerSound, ManagersSound
<1>4. MarketTypeOK'
  <2>1. stream' \in [Callers -> [m : Managers \cup {0}, assets : SUBSET Assets]]
    BY <1>1 DEF MarketTypeOK, NoStream
  <2>2. channel # 0 => [op |-> "unsubscribe", m |-> channel, assets |-> stream[c].assets,
                        left |-> stream[c].assets, hot |-> {}] \in Calls
    BY <1>2, <1>3 DEF Calls
  <2>3. call' \in [Callers -> Calls]
    BY <1>1, <2>2 DEF MarketTypeOK
  <2> QED BY <1>1, <2>1, <2>3 DEF MarketTypeOK, socketvars
<1>5. CountsExact'
  <2>1. ASSUME NEW m \in Managers, channel = m, NEW a \in Assets, NEW d \in Callers
        PROVE  Uses(d, m, a)' <=> Uses(d, m, a)
    <3>1. m # 0
      BY ManagersAreNumbers
    <3> QED BY <1>1, <1>3, <2>1, <3>1 DEF Uses, MarketTypeOK, NoCall, NoStream
  <2> QED BY <1>1, <2>1, SameCounts
<1>6. CallersSound'
  <2> SUFFICES ASSUME NEW d \in Callers PROVE CallerSound(d)'
    BY DEF CallersSound
  <2>1. CASE d = c
    <3>1. stream'[c] = NoStream
      BY <1>1 DEF MarketTypeOK
    <3>2. call'[c] = NoCall \/ (channel # 0 /\ call'[c].op = "unsubscribe" /\ call'[c].m = channel)
      BY <1>1 DEF MarketTypeOK
    <3> QED BY <1>1, <1>3, <2>1, <3>1, <3>2 DEF CallerSound, NoCall, NoStream, socketvars
  <2>2. CASE d # c
    <3>1. stream'[d] = stream[d] /\ call'[d] = call[d]
      BY <1>1, <2>2 DEF MarketTypeOK
    <3> QED BY <1>1, <3>1 DEF CallersSound, CallerSound, NoCall, NoStream, socketvars
  <2> QED BY <2>1, <2>2
<1>7. ManagersSound'
  BY <1>1 DEF ManagersSound, socketvars
<1> QED BY <1>4, <1>5, <1>6, <1>7

(* While the channel is current, what is left to count down is counted.    *)
LEMMA CountDownKeeps ==
  ASSUME IInv, NEW c \in Callers, CountDown(c)
  PROVE  IInv'
<1> USE DEF IInv
<1>0. PICK m \in Managers : m = call[c].m
  BY DEF CountDown, CallersSound, CallerSound
<1>1. PICK a \in call[c].left :
        /\ counts' = IF counts[m][a] = 0 THEN counts
                     ELSE [counts EXCEPT ![m][a] = counts[m][a] - 1]
        /\ call' = [call EXCEPT ![c].left = @ \ {a},
              ![c].hot = IF counts[m][a] = 1 THEN @ \cup {a} ELSE @]
  BY <1>0 DEF CountDown
<1>2. /\ call[c].op = "unsubscribe"
      /\ UNCHANGED <<socketvars, runtime, channel, handler, was, resend, stream,
                     closing, calls>>
  BY DEF CountDown
<1>3. m \in Managers /\ conn[m] # "absent" /\ stream[c] = NoStream
  BY <1>0, <1>2 DEF CallersSound, CallerSound, NoCall
<1>4. call[c] \in Calls /\ a \in Assets /\ counts[m][a] \in 0 .. Cardinality(Callers)
  BY <1>1, <1>3 DEF MarketTypeOK, Calls
<1>5. /\ call'[c].op = "unsubscribe" /\ call'[c].m = m
      /\ call'[c].left = call[c].left \ {a}
      /\ \A d \in Callers : d # c => call'[d] = call[d]
      /\ call' \in [Callers -> Calls]
  BY <1>0, <1>1, <1>2, <1>4 DEF MarketTypeOK, Calls
<1>6. Cardinality(Callers) \in Nat
  BY SubscriptionAssumption, FS_CardinalityType
<1>7. /\ counts'[m][a] = IF counts[m][a] = 0 THEN 0 ELSE counts[m][a] - 1
      /\ \A b \in Assets : b # a => counts'[m][b] = counts[m][b]
      /\ \A n \in Managers : n # m => counts'[n] = counts[n]
  BY <1>1, <1>3, <1>4 DEF MarketTypeOK
<1>8. counts' \in [Managers -> [Assets -> 0 .. Cardinality(Callers)]]
  <2>1. counts[m][a] # 0 => counts[m][a] - 1 \in 0 .. Cardinality(Callers)
    BY <1>4, <1>6
  <2> QED BY <1>1, <1>3, <1>4, <2>1 DEF MarketTypeOK
<1>9. MarketTypeOK'
  BY <1>2, <1>5, <1>8 DEF MarketTypeOK, socketvars
<1>10. ASSUME channel = m PROVE CountsExact'
  <2>1. Uses(c, m, a)
    BY <1>0, <1>1, <1>2 DEF Uses
  <2>2. \A d \in Callers, b \in Assets :
          Uses(d, m, b)' <=> (Uses(d, m, b) /\ ~(d = c /\ b = a))
    BY <1>0, <1>2, <1>3, <1>5, ManagersAreNumbers DEF Uses, NoStream
  <2>3. Users(m, a)' = Users(m, a) \ {c}
    BY <2>2, <1>4 DEF Users
  <2>4. Cardinality(Users(m, a)') = Cardinality(Users(m, a)) - 1
    BY <2>1, <2>3, OneLessUser
  <2>5. \A b \in Assets : b # a => Users(m, b)' = Users(m, b)
    BY <2>2 DEF Users
  <2>6. counts[m][a] = Cardinality(Users(m, a))
    BY <1>3, <1>4, <1>10 DEF CountsExact
  <2>7. counts[m][a] > 0
    <3>1. Users(m, a) # {}
      BY <2>1 DEF Users
    <3> QED BY <2>6, <3>1, UsersFinite
  <2>8. counts'[m][a] = Cardinality(Users(m, a)')
    BY <1>4, <1>6, <1>7, <2>4, <2>6, <2>7
  <2>9. ASSUME NEW b \in Assets, b # a
        PROVE  counts'[m][b] = Cardinality(Users(m, b)')
    BY <1>3, <1>7, <1>10, <2>5, <2>9 DEF CountsExact
  <2> QED BY <1>2, <1>10, <2>8, <2>9 DEF CountsExact
<1>11. ASSUME channel # m PROVE CountsExact'
  <2> SUFFICES ASSUME NEW n \in Managers, channel = n, NEW b \in Assets
               PROVE  counts'[n][b] = Cardinality(Users(n, b)')
    BY <1>2 DEF CountsExact
  <2>1. n # m
    BY <1>11
  <2>2. \A d \in Callers : Uses(d, n, b)' <=> Uses(d, n, b)
    BY <1>0, <1>2, <1>5, <2>1 DEF Uses
  <2>3. Users(n, b)' = Users(n, b)
    BY <2>2 DEF Users
  <2> QED BY <1>7, <2>1, <2>3 DEF CountsExact
<1>12. CallersSound'
  BY <1>0, <1>2, <1>3, <1>5 DEF CallersSound, CallerSound, socketvars, NoCall
<1>13. ManagersSound'
  BY <1>2, <1>3, <1>7 DEF ManagersSound, socketvars
<1> QED BY <1>9, <1>10, <1>11, <1>12, <1>13

LEMMA SendUnsubscribeKeeps ==
  ASSUME IInv, NEW c \in Callers, SendUnsubscribe(c)
  PROVE  IInv'
<1> USE DEF IInv
<1>0. PICK m \in Managers : m = call[c].m
  BY DEF SendUnsubscribe, CallersSound, CallerSound
<1>1. /\ call[c].op = "unsubscribe" /\ call[c].left = {}
      /\ UNCHANGED <<conn, served, mute, beat, changed, ordered, losses, runtime,
                     channel, counts, handler, was, resend, stream, closing, calls>>
  BY DEF SendUnsubscribe
<1>2. call[c] \in Calls /\ stream[c] = NoStream /\ conn[m] # "absent"
  BY <1>0, <1>1 DEF MarketTypeOK, CallersSound, CallerSound, NoCall
<1>3. \/ call' = [call EXCEPT ![c] = NoCall]
      \/ call' = [call EXCEPT ![c] = [call[c] EXCEPT !.op = "clean"]]
  BY DEF SendUnsubscribe
<1>4. /\ call'[c] = NoCall \/ (call'[c].op = "clean" /\ call'[c].m = m)
      /\ call'[c].op \in {"none", "clean"}
      /\ \A d \in Callers : d # c => call'[d] = call[d]
      /\ call' \in [Callers -> Calls]
  <2>1. call \in [Callers -> Calls]
    BY DEF MarketTypeOK
  <2>2. CASE call' = [call EXCEPT ![c] = NoCall]
    BY <2>1, <2>2 DEF Calls, NoCall
  <2>3. CASE call' = [call EXCEPT ![c] = [call[c] EXCEPT !.op = "clean"]]
    <3> DEFINE cleaning == [call[c] EXCEPT !.op = "clean"]
    <3>1. cleaning \in Calls /\ cleaning.op = "clean" /\ cleaning.m = m
      BY <1>0, <1>2 DEF Calls
    <3> HIDE DEF cleaning
    <3>2. call' = [call EXCEPT ![c] = cleaning]
      BY <2>3 DEF cleaning
    <3> QED BY <2>1, <3>1, <3>2
  <2> QED BY <1>3, <2>2, <2>3
<1>5. requests' \in [Managers -> Seq(Frame)]
  <2>1. CASE call[c].hot = {}
    BY <2>1 DEF SendUnsubscribe, MarketTypeOK
  <2>2. CASE call[c].hot # {}
    <3>1. [op |-> "unsubscribe", assets |-> call[c].hot] \in Frame
      BY <1>2 DEF Calls, Frame
    <3> QED BY <1>0, <2>2, <3>1, EnqueueTyped DEF SendUnsubscribe
  <2> QED BY <2>1, <2>2
<1>6. MarketTypeOK'
  BY <1>1, <1>4, <1>5 DEF MarketTypeOK
<1>7. CountsExact'
  <2>1. \A n \in Managers, a \in Assets, d \in Callers : Uses(d, n, a)' <=> Uses(d, n, a)
    BY <1>1, <1>4 DEF Uses
  <2> QED BY <1>1, <2>1, SameCounts
<1>8. CallersSound'
  BY <1>1, <1>2, <1>4 DEF CallersSound, CallerSound, NoCall
<1>9. ManagersSound'
  BY <1>1 DEF ManagersSound
<1> QED BY <1>6, <1>7, <1>8, <1>9

(* A channel through which nothing is counted has no user.                 *)
LEMMA CleanUpKeeps ==
  ASSUME IInv, NEW c \in Callers, CleanUp(c)
  PROVE  IInv'
<1> USE DEF IInv
<1>1. /\ call[c].op = "clean" /\ ~EntryLocked
      /\ channel' = IF channel # 0 /\ Tracked(channel) = {} THEN 0 ELSE channel
      /\ call' = [call EXCEPT ![c] = NoCall]
      /\ UNCHANGED <<socketvars, runtime, counts, handler, was, resend, stream,
                     closing, calls>>
  BY DEF CleanUp
<1>2. /\ call'[c] = NoCall /\ stream[c] = NoStream
      /\ \A d \in Callers : d # c => call'[d] = call[d]
      /\ call' \in [Callers -> Calls]
  BY <1>1 DEF MarketTypeOK, Calls, NoCall, CallersSound, CallerSound
<1>3. MarketTypeOK'
  BY <1>1, <1>2 DEF MarketTypeOK, socketvars
<1>4. CountsExact'
  <2>1. \A n \in Managers, a \in Assets, d \in Callers : Uses(d, n, a)' <=> Uses(d, n, a)
    BY <1>1, <1>2 DEF Uses, NoCall
  <2> QED BY <1>1, <2>1, SameCounts
<1>5. ASSUME channel # 0, Tracked(channel) = {}, NEW d \in Callers
      PROVE  /\ stream[d] # NoStream => stream[d].m # channel
             /\ (call[d].op = "unsubscribe" /\ call[d].left # {}) => call[d].m # channel
  <2>1. PICK m \in Managers : m = channel
    BY <1>5 DEF MarketTypeOK
  <2>2. ASSUME NEW a \in Assets PROVE ~Uses(d, m, a)
    <3>1. ~(counts[m][a] > 0)
      BY <1>5, <2>1 DEF Tracked
    <3>2. counts[m][a] = Cardinality(Users(m, a))
      BY <2>1 DEF CountsExact
    <3>3. Users(m, a) = {}
      BY <3>1, <3>2, UsersFinite
    <3> QED BY <3>3 DEF Users
  <2>3. stream[d].assets \in SUBSET Assets /\ call[d].left \in SUBSET Assets
    BY DEF MarketTypeOK, Calls
  <2>4. stream[d] # NoStream => stream[d].assets # {}
    BY DEF CallersSound, CallerSound
  <2> QED BY <2>1, <2>2, <2>3, <2>4 DEF Uses
<1>6. CallersSound'
  <2> SUFFICES ASSUME NEW d \in Callers PROVE CallerSound(d)'
    BY DEF CallersSound
  <2>1. conn' = conn /\ closing' = closing /\ stream' = stream
    BY <1>1 DEF socketvars
  <2>2. CallerSound(d)
    BY DEF CallersSound
  <2>3. CASE d = c
    BY <1>2, <2>1, <2>3 DEF CallerSound, NoCall
  <2>4. CASE d # c
    <3>1. call'[d] = call[d] /\ call[d].op # "subscribe"
      BY <1>1, <1>2, <2>4 DEF EntryLocked
    <3>2. CASE channel' = channel
      BY <2>1, <2>2, <3>1, <3>2 DEF CallerSound, NoCall, NoStream
    <3>3. CASE channel # 0 /\ Tracked(channel) = {}
      <4>1. /\ stream[d] # NoStream => stream[d].m # channel
            /\ (call[d].op = "unsubscribe" /\ call[d].left # {}) => call[d].m # channel
        BY <1>5, <3>3
      <4> QED BY <2>1, <2>2, <3>1, <4>1 DEF CallerSound, NoCall, NoStream
    <3> QED BY <1>1, <3>2, <3>3
  <2> QED BY <2>3, <2>4
<1>7. ManagersSound'
  BY <1>1 DEF ManagersSound, socketvars
<1> QED BY <1>3, <1>4, <1>6, <1>7

-----------------------------------------------------------------------------
(* The handler, the loops and the network leave callers and counts alone.  *)

LEMMA HandlerKeeps ==
  ASSUME IInv, NEW m \in Managers, HandlerStep(m)
  PROVE  IInv'
<1> USE DEF IInv
<1>1. UNCHANGED <<conn, channel, counts, call, stream, closing, ordered>>
  BY DEF HandlerStep, HandlerStarts, HandlerObserves, HandlerResends, HandlerCancelled,
         socketvars
<1>2. CountsExact' /\ CallersSound' /\ ManagersSound'
  BY <1>1, SocketsMove
<1>3. ASSUME HandlerStarts(m) PROVE MarketTypeOK'
  <2>1. was' \in [Managers -> BOOLEAN]
    BY <1>3 DEF HandlerStarts, MarketTypeOK
  <2> QED BY <1>3, <2>1 DEF HandlerStarts, MarketTypeOK, socketvars
<1>4. ASSUME HandlerObserves(m) PROVE MarketTypeOK'
  <2>1. Tracked(m) \in SUBSET Assets
    BY DEF Tracked
  <2>2. /\ handler' \in [Managers -> {"absent", "starting", "waiting", "sending", "done"}]
        /\ resend' \in [Managers -> SUBSET Assets]
    BY <1>4, <2>1 DEF HandlerObserves, MarketTypeOK
  <2>3. was' \in [Managers -> BOOLEAN] /\ changed' \in [Managers -> BOOLEAN]
    BY <1>4 DEF HandlerObserves, MarketTypeOK
  <2> QED BY <1>4, <2>2, <2>3 DEF HandlerObserves, MarketTypeOK
<1>5. ASSUME HandlerResends(m) PROVE MarketTypeOK'
  <2>1. requests' \in [Managers -> Seq(Frame)]
    <3>1. CASE resend[m] = {}
      BY <1>5, <3>1 DEF HandlerResends, MarketTypeOK
    <3>2. CASE resend[m] # {}
      <4>1. [op |-> "subscribe", assets |-> resend[m]] \in Frame
        BY DEF MarketTypeOK, Frame
      <4> QED BY <1>5, <3>2, <4>1, EnqueueTyped DEF HandlerResends
    <3> QED BY <3>1, <3>2
  <2> QED BY <1>5, <2>1 DEF HandlerResends, MarketTypeOK
<1>6. ASSUME HandlerCancelled(m) PROVE MarketTypeOK'
  BY <1>6 DEF HandlerCancelled, MarketTypeOK, socketvars
<1>7. MarketTypeOK'
  BY <1>3, <1>4, <1>5, <1>6 DEF HandlerStep
<1> QED BY <1>2, <1>7

(* A loop that is not cancelled does not end, and none becomes absent.     *)
LEMMA LoopMoves ==
  ASSUME MarketTypeOK, NEW m \in Managers, NEW cancelled \in BOOLEAN,
         LoopStep(m, cancelled) \/ Network(m, cancelled)
  PROVE  /\ ordered' = ordered
         /\ \A n \in Managers : conn'[n] # conn[n] =>
               n = m /\ conn[n] # "absent" /\ conn'[n] # "absent"
                     /\ (conn'[n] = "closed" => cancelled)
         /\ conn' \in [Managers -> {"absent", "spawned", "dialing", "connected",
                                    "backoff", "closed"}]
         /\ changed' \in [Managers -> BOOLEAN]
<1>1. \/ conn' = conn /\ changed' = changed
      \/ /\ conn[m] # "absent"
         /\ \E place \in {"dialing", "connected", "backoff", "closed"} :
               Goto(m, place) /\ (place = "closed" => cancelled)
  BY DEF LoopStep, Dial, DialSucceeds, WriteFrame, CloseDrained, DialCancelled, LeaveSocket,
         Network, DialFails, WriteFails, SocketEnds, GoMute, HeartbeatEnds
<1>2. ordered' = ordered
  BY DEF LoopStep, Dial, DialSucceeds, WriteFrame, CloseDrained, DialCancelled,
         Network, DialFails, WriteFails, SocketEnds, GoMute, HeartbeatEnds
<1>3. CASE conn' = conn /\ changed' = changed
  BY <1>2, <1>3 DEF MarketTypeOK
<1>4. ASSUME conn[m] # "absent", NEW place \in {"dialing", "connected", "backoff", "closed"},
             Goto(m, place), place = "closed" => cancelled
      PROVE  /\ \A n \in Managers : conn'[n] # conn[n] =>
                  n = m /\ conn[n] # "absent" /\ conn'[n] # "absent"
                        /\ (conn'[n] = "closed" => cancelled)
             /\ conn' \in [Managers -> {"absent", "spawned", "dialing", "connected",
                                       "backoff", "closed"}]
             /\ changed' \in [Managers -> BOOLEAN]
  <2>1. /\ conn \in [Managers -> {"absent", "spawned", "dialing", "connected",
                                  "backoff", "closed"}]
        /\ changed \in [Managers -> BOOLEAN]
    BY DEF MarketTypeOK
  <2>2. conn' = [conn EXCEPT ![m] = place]
    BY <1>4 DEF Goto
  <2>3. changed' \in [Managers -> BOOLEAN]
    BY <1>4, <2>1 DEF Goto
  <2>4. \A n \in Managers : conn'[n] = IF n = m THEN place ELSE conn[n]
    BY <2>1, <2>2
  <2>5. place # "absent"
    OBVIOUS
  <2> QED BY <1>4, <2>1, <2>2, <2>3, <2>4, <2>5
<1> QED BY <1>1, <1>2, <1>3, <1>4

LEMMA LoopTyped ==
  ASSUME MarketTypeOK, NEW m \in Managers, NEW cancelled \in BOOLEAN,
         LoopStep(m, cancelled) \/ Network(m, cancelled), UNCHANGED clientvars
  PROVE  MarketTypeOK'
<1>1. requests' \in [Managers -> Seq(Frame)] /\ served' \in [Managers -> SUBSET Assets]
  <2>1. CASE WriteFrame(m)
    <3>1. /\ requests[m] \in Seq(Frame) /\ requests[m] # <<>>
      BY <2>1 DEF WriteFrame, MarketTypeOK
    <3>2. Head(requests[m]) \in Frame /\ Tail(requests[m]) \in Seq(Frame)
      BY <3>1
    <3>3. Apply(served[m], Head(requests[m])) \in SUBSET Assets
      BY <3>2 DEF Apply, Frame, MarketTypeOK
    <3> QED BY <2>1, <3>2, <3>3 DEF WriteFrame, MarketTypeOK
  <2>2. CASE WriteFails(m)
    <3>1. /\ requests[m] \in Seq(Frame) /\ requests[m] # <<>>
      BY <2>2 DEF WriteFails, MarketTypeOK
    <3>2. Tail(requests[m]) \in Seq(Frame)
      BY <3>1
    <3> QED BY <2>2, <3>2 DEF WriteFails, Forget, MarketTypeOK
  <2>3. CASE ~WriteFrame(m) /\ ~WriteFails(m)
    BY <2>3 DEF LoopStep, Dial, DialSucceeds, CloseDrained, DialCancelled,
         Network, DialFails, SocketEnds, GoMute, HeartbeatEnds, Forget, MarketTypeOK
  <2> QED BY <2>1, <2>2, <2>3
<1>2. mute' \in [Managers -> BOOLEAN] /\ beat' \in [Managers -> {"none", "beating", "dead"}]
  BY DEF LoopStep, Dial, DialSucceeds, WriteFrame, CloseDrained, DialCancelled, LeaveSocket,
         Network, DialFails, WriteFails, SocketEnds, GoMute, HeartbeatEnds, MarketTypeOK
<1> QED BY <1>1, <1>2, LoopMoves DEF MarketTypeOK, clientvars

LEMMA ConnectionKeeps ==
  ASSUME IInv, NEW m \in Managers, ConnectionStep(m) \/ Background(m)
  PROVE  IInv'
<1> USE DEF IInv
<1>1. /\ LoopStep(m, Cancelled(m)) \/ Network(m, Cancelled(m))
      /\ UNCHANGED clientvars
  BY DEF ConnectionStep, Background
<1>2. Cancelled(m) \in BOOLEAN
  BY DEF Cancelled
<1>3. channel = m => ~Cancelled(m)
  BY ManagersAreNumbers DEF Cancelled, Owned, ManagersSound
<1>4. MarketTypeOK'
  BY <1>1, <1>2, LoopTyped
<1>5. /\ ordered' = ordered
      /\ \A n \in Managers : conn'[n] # conn[n] =>
            n = m /\ conn[n] # "absent" /\ conn'[n] # "absent"
                  /\ (conn'[n] = "closed" => Cancelled(m))
  BY <1>1, <1>2, LoopMoves
<1>6. UNCHANGED <<channel, counts, call, stream, closing>>
  BY <1>1 DEF clientvars
<1>7. CountsExact' /\ CallersSound' /\ ManagersSound'
  BY <1>3, <1>5, <1>6, SocketsMove
<1> QED BY <1>4, <1>7

-----------------------------------------------------------------------------
(* shutdown.                                                               *)

LEMMA BeginShutdownKeeps ==
  ASSUME IInv, BeginShutdown
  PROVE  IInv'
<1> USE DEF IInv
<1>1. /\ ~EntryLocked /\ closing' = "begun" /\ channel' = 0
      /\ ordered' = IF channel = 0 THEN ordered ELSE ordered \cup {channel}
      /\ UNCHANGED <<conn, requests, served, mute, beat, changed, losses, runtime,
                     counts, handler, was, resend, call, stream, calls>>
  BY DEF BeginShutdown
<1>2. MarketTypeOK'
  BY <1>1 DEF MarketTypeOK
<1>3. CountsExact'
  BY <1>1, ManagersAreNumbers DEF CountsExact
<1>4. CallersSound'
  BY <1>1 DEF CallersSound, CallerSound, EntryLocked, NoCall, NoStream
<1>5. ManagersSound'
  BY <1>1 DEF ManagersSound
<1> QED BY <1>2, <1>3, <1>4, <1>5

LEMMA ShutdownReturnsKeeps ==
  ASSUME IInv, ShutdownReturns
  PROVE  IInv'
<1> USE DEF IInv
<1>1. /\ closing = "begun" /\ closing' = "done"
      /\ UNCHANGED <<socketvars, runtime, channel, counts, handler, was, resend,
                     call, stream, calls>>
  BY DEF ShutdownReturns
<1>2. MarketTypeOK'
  BY <1>1 DEF MarketTypeOK, socketvars
<1>3. CountsExact'
  BY <1>1 DEF CountsExact, Users, Uses
<1>4. CallersSound'
  BY <1>1 DEF CallersSound, CallerSound, NoCall, NoStream, socketvars
<1>5. ManagersSound'
  BY <1>1 DEF ManagersSound, socketvars
<1> QED BY <1>2, <1>3, <1>4, <1>5

-----------------------------------------------------------------------------

LEMMA StepKeeps == IInv /\ [MarketNext]_marketvars => IInv'
<1> SUFFICES ASSUME IInv, [MarketNext]_marketvars PROVE IInv'
  OBVIOUS
<1>1. ASSUME NEW c \in Callers, StartSubscribe(c) \/ StartUnsubscribe(c) \/ CallStep(c)
      PROVE  IInv'
  BY <1>1, StartSubscribeKeeps, StartUnsubscribeKeeps, CountUpKeeps, FinishSubscribeKeeps,
     CountDownKeeps, SendUnsubscribeKeeps, CleanUpKeeps DEF CallStep
<1>2. ASSUME NEW m \in Managers, HandlerStep(m) \/ ConnectionStep(m) \/ Background(m)
      PROVE  IInv'
  BY <1>2, HandlerKeeps, ConnectionKeeps
<1>3. CASE UNCHANGED marketvars
  <2>1. UNCHANGED socketvars /\ UNCHANGED clientvars
    BY <1>3 DEF marketvars
  <2>2. MarketTypeOK'
    BY <2>1 DEF socketvars, clientvars, IInv, MarketTypeOK
  <2>3. CountsExact' /\ CallersSound' /\ ManagersSound'
    BY <2>1, SocketsMove DEF socketvars, clientvars, IInv
  <2> QED BY <2>2, <2>3 DEF IInv
<1> QED BY <1>1, <1>2, <1>3, BeginShutdownKeeps, ShutdownReturnsKeeps DEF MarketNext

(* The inductive invariant: a count is the number of its users, and what   *)
(* still counts goes through the current channel.                          *)
THEOREM CountsInductive == MarketSpec => []IInv
BY Initially, StepKeeps, PTL DEF MarketSpec

(* The variables keep their types: no count goes below zero or above the   *)
(* number of callers, whatever calls overlap.                              *)
THEOREM MarketTyped == MarketSpec => []MarketTypeOK
<1>1. IInv => MarketTypeOK
  BY DEF IInv
<1> QED BY <1>1, CountsInductive, PTL

(* No unsubscribe removes the channel under a stream in use.               *)
THEOREM StreamsNeverCutOff == MarketSpec => []StreamsKept
<1>1. IInv => StreamsKept
  BY DEF IInv, CallersSound, CallerSound, StreamsKept
<1> QED BY <1>1, CountsInductive, PTL

(* Between calls a count is the number of streams that use the asset.      *)
THEOREM CountsMatchStreams == MarketSpec => []CountsAreStreams
<1>1. ASSUME IInv PROVE CountsAreStreams
  <2> SUFFICES ASSUME Quiet, channel # 0, NEW a \in Assets
               PROVE  counts[channel][a] = Cardinality({c \in Callers :
                        stream[c].m = channel /\ a \in stream[c].assets})
    BY DEF CountsAreStreams
  <2>1. PICK m \in Managers : m = channel
    BY <1>1 DEF IInv, MarketTypeOK
  <2>2. \A c \in Callers :
          Uses(c, m, a) <=> (stream[c].m = channel /\ a \in stream[c].assets)
    BY <2>1 DEF Quiet, Uses, NoCall
  <2>3. Users(m, a) = {c \in Callers : stream[c].m = channel /\ a \in stream[c].assets}
    BY <2>2 DEF Users
  <2> QED BY <1>1, <2>1, <2>3 DEF IInv, CountsExact
<1> QED BY <1>1, CountsInductive, PTL

-----------------------------------------------------------------------------
(***************************************************************************)
(* What the peers serve.  On a current-thread runtime a call runs to its   *)
(* end, and so does a handler that sends.                                  *)
(***************************************************************************)

(* A peer that serves s will serve a once it has read q: the last frame    *)
(* about a decides.                                                        *)
Told(s, q, a) ==
    \/ a \in s /\ \A i \in 1 .. Len(q) : a \notin q[i].assets
    \/ \E i \in 1 .. Len(q) :
          /\ q[i].op = "subscribe" /\ a \in q[i].assets
          /\ \A j \in (i + 1) .. Len(q) : a \notin q[j].assets

Said(m, a) == Told(served[m], requests[m], a)

(* What the peer should have been told: what is counted, but for what the  *)
(* call in progress has counted and not yet said.                          *)
Unsaid(op, m, a) ==
    \E c \in Callers : call[c].op = op /\ call[c].m = m /\ a \in call[c].hot

Wanted(m, a) ==
    \/ a \in Tracked(m) /\ ~Unsaid("subscribe", m, a)
    \/ Unsaid("unsubscribe", m, a)

Alone ==
    /\ \A c, d \in Callers : call[c] # NoCall /\ call[d] # NoCall => c = d
    /\ \A c \in Callers, m \in Managers : call[c] # NoCall => handler[m] # "sending"
    /\ \A c \in Callers : call[c] # NoCall =>
          /\ call[c].op # "none" /\ call[c].m = channel
          /\ call[c].op = "subscribe" => call[c].hot \subseteq Tracked(channel)
          /\ call[c].op = "unsubscribe" => call[c].hot \cap Tracked(channel) = {}

(* The handler of the current channel lives; it knows of the first         *)
(* connection before the loop leaves it; what it sends is what is counted. *)
HandlerPlace(m) ==
    /\ channel = m => handler[m] \in {"starting", "waiting", "sending"}
    /\ handler[m] \in {"absent", "starting"} => ~was[m]
    /\ (handler[m] = "waiting" /\ ~was[m] /\ conn[m] = "connected") => changed[m]
    /\ handler[m] = "sending" =>
          was[m] /\ resend[m] = Tracked(m) /\ (channel = m \/ m \in ordered)

(* Off its socket a peer serves nothing, unless a cancelled loop has left  *)
(* it with everything said.                                                *)
ServedPlace(m) ==
    /\ mute[m] => served[m] = {}
    /\ conn[m] # "connected" =>
          served[m] = {} \/ (requests[m] = <<>> /\ Cancelled(m))
    /\ conn[m] = "absent" => requests[m] = <<>> /\ served[m] = {} /\ ~was[m] /\ ~mute[m]

(* Before the second connection nothing was forgotten; after it, nothing   *)
(* once the handler has seen it.                                           *)
Synced(m) ==
    /\ ~mute[m]
    /\ \/ ~was[m]
       \/ conn[m] = "connected" /\ ~changed[m] /\ handler[m] = "waiting"

(* No peer is told more than is wanted; the current one, no less.          *)
SaysWanted(m) ==
    /\ \A a \in Assets : Said(m, a) => Wanted(m, a)
    /\ (channel = m /\ Synced(m)) => \A a \in Assets : Wanted(m, a) => Said(m, a)

ManagerSettles(m) == HandlerPlace(m) /\ ServedPlace(m) /\ SaysWanted(m)

AllSettle == \A m \in Managers : ManagerSettles(m)

SettleInv == ~Threaded => Alone /\ AllSettle


-----------------------------------------------------------------------------
(* What a peer has been told, as frames are appended, written and lost.    *)

LEMMA TailFacts ==
  ASSUME NEW q \in Seq(Frame), q # <<>>
  PROVE  /\ Len(q) \in Nat /\ Len(q) > 0
         /\ Tail(q) \in Seq(Frame)
         /\ Len(Tail(q)) = Len(q) - 1
         /\ \A i \in 1 .. Len(q) - 1 : Tail(q)[i] = q[i + 1]
         /\ Head(q) = q[1]
         /\ \A i \in 1 .. Len(q) : q[i] \in Frame
OBVIOUS

(* What follows the first frame decides as it did.                         *)
LEMMA ToldLater ==
  ASSUME NEW q \in Seq(Frame), q # <<>>, NEW a
  PROVE  /\ (\E i \in 1 .. Len(Tail(q)) :
                 /\ Tail(q)[i].op = "subscribe" /\ a \in Tail(q)[i].assets
                 /\ \A j \in (i + 1) .. Len(Tail(q)) : a \notin Tail(q)[j].assets)
            <=> (\E i \in 2 .. Len(q) :
                     /\ q[i].op = "subscribe" /\ a \in q[i].assets
                     /\ \A j \in (i + 1) .. Len(q) : a \notin q[j].assets)
         /\ (\A i \in 1 .. Len(Tail(q)) : a \notin Tail(q)[i].assets)
            <=> (\A i \in 2 .. Len(q) : a \notin q[i].assets)
<1> DEFINE n == Len(q)
           t == Tail(q)
<1>1. n \in Nat /\ n > 0 /\ Len(t) = n - 1 /\ \A i \in 1 .. n - 1 : t[i] = q[i + 1]
  BY TailFacts
<1>2. \A i \in 2 .. n : i - 1 \in 1 .. n - 1 /\ q[i] = t[i - 1]
  BY <1>1
<1> HIDE DEF n, t
<1>3. ASSUME NEW i \in 1 .. n - 1
      PROVE  (\A j \in (i + 1) .. n - 1 : a \notin t[j].assets)
             <=> (\A j \in (i + 2) .. n : a \notin q[j].assets)
  <2>1. ASSUME \A j \in (i + 1) .. n - 1 : a \notin t[j].assets, NEW j \in (i + 2) .. n
        PROVE  a \notin q[j].assets
    <3>1. j - 1 \in (i + 1) .. n - 1 /\ j \in 2 .. n
      BY <1>1
    <3> QED BY <1>2, <2>1, <3>1
  <2>2. ASSUME \A j \in (i + 2) .. n : a \notin q[j].assets, NEW j \in (i + 1) .. n - 1
        PROVE  a \notin t[j].assets
    <3>1. j + 1 \in (i + 2) .. n /\ j \in 1 .. n - 1
      BY <1>1
    <3> QED BY <1>1, <2>2, <3>1
  <2> QED BY <2>1, <2>2
<1>4. ASSUME NEW i \in 1 .. n - 1, t[i].op = "subscribe", a \in t[i].assets,
             \A j \in (i + 1) .. n - 1 : a \notin t[j].assets
      PROVE  \E k \in 2 .. n : /\ q[k].op = "subscribe" /\ a \in q[k].assets
                               /\ \A j \in (k + 1) .. n : a \notin q[j].assets
  <2>1. i + 1 \in 2 .. n /\ q[i + 1] = t[i] /\ (i + 1) + 1 = i + 2
    BY <1>1
  <2>2. \A j \in (i + 2) .. n : a \notin q[j].assets
    BY <1>3, <1>4
  <2> QED BY <1>4, <2>1, <2>2
<1>5. ASSUME NEW k \in 2 .. n, q[k].op = "subscribe", a \in q[k].assets,
             \A j \in (k + 1) .. n : a \notin q[j].assets
      PROVE  \E i \in 1 .. n - 1 : /\ t[i].op = "subscribe" /\ a \in t[i].assets
                                   /\ \A j \in (i + 1) .. n - 1 : a \notin t[j].assets
  <2>1. k - 1 \in 1 .. n - 1 /\ q[k] = t[k - 1] /\ (k - 1) + 2 = k + 1
    BY <1>1, <1>2
  <2>2. \A j \in ((k - 1) + 1) .. n - 1 : a \notin t[j].assets
    BY <1>3, <1>5, <2>1
  <2> QED BY <1>5, <2>1, <2>2
<1>6. (\A i \in 1 .. n - 1 : a \notin t[i].assets) <=> (\A i \in 2 .. n : a \notin q[i].assets)
  <2>1. \A i \in 1 .. n - 1 : i + 1 \in 2 .. n /\ t[i] = q[i + 1]
    BY <1>1
  <2> QED BY <1>2, <2>1
<1> QED BY <1>1, <1>4, <1>5, <1>6 DEF n, t

(* Writing the first frame keeps what the peer has been told.              *)
LEMMA ToldWrite ==
  ASSUME NEW q \in Seq(Frame), q # <<>>, NEW s, NEW a
  PROVE  Told(Apply(s, Head(q)), Tail(q), a) <=> Told(s, q, a)
<1> DEFINE Later == \E i \in 2 .. Len(q) :
                        /\ q[i].op = "subscribe" /\ a \in q[i].assets
                        /\ \A j \in (i + 1) .. Len(q) : a \notin q[j].assets
           Silent == \A i \in 2 .. Len(q) : a \notin q[i].assets
<1>1. Told(Apply(s, Head(q)), Tail(q), a) <=> (a \in Apply(s, Head(q)) /\ Silent) \/ Later
  BY ToldLater DEF Told
<1>2. /\ Len(q) \in Nat /\ Len(q) > 0 /\ Head(q) = q[1]
      /\ q[1] \in Frame
  BY TailFacts
<1>3. a \in Apply(s, Head(q)) <=> \/ q[1].op = "subscribe" /\ a \in q[1].assets
                                  \/ a \in s /\ a \notin q[1].assets
  BY <1>2 DEF Apply, Frame
<1>4. (\A i \in 1 .. Len(q) : a \notin q[i].assets) <=> a \notin q[1].assets /\ Silent
  <2>1. \A i \in 1 .. Len(q) : i = 1 \/ i \in 2 .. Len(q)
    BY <1>2
  <2>2. 1 \in 1 .. Len(q) /\ 2 .. Len(q) \subseteq 1 .. Len(q)
    BY <1>2
  <2> QED BY <2>1, <2>2
<1>5. (\E i \in 1 .. Len(q) : /\ q[i].op = "subscribe" /\ a \in q[i].assets
                              /\ \A j \in (i + 1) .. Len(q) : a \notin q[j].assets)
      <=> (q[1].op = "subscribe" /\ a \in q[1].assets /\ Silent) \/ Later
  <2>1. \A i \in 1 .. Len(q) : i = 1 \/ i \in 2 .. Len(q)
    BY <1>2
  <2>2. 1 \in 1 .. Len(q) /\ 2 .. Len(q) \subseteq 1 .. Len(q) /\ 1 + 1 = 2
    BY <1>2
  <2> QED BY <2>1, <2>2
<1> HIDE DEF Later, Silent
<1> QED BY <1>1, <1>3, <1>4, <1>5 DEF Told

(* A frame lost with what was served tells nobody more.                    *)
LEMMA ToldLess ==
  ASSUME NEW q \in Seq(Frame), NEW s, NEW a
  PROVE  /\ Told({}, q, a) => Told(s, q, a)
         /\ q # <<>> /\ Told({}, Tail(q), a) => Told(s, q, a)
<1>1. Told({}, q, a) => Told(s, q, a)
  BY DEF Told
<1>2. ASSUME q # <<>>, Told({}, Tail(q), a) PROVE Told(s, q, a)
  <2>1. \E i \in 2 .. Len(q) : /\ q[i].op = "subscribe" /\ a \in q[i].assets
                               /\ \A j \in (i + 1) .. Len(q) : a \notin q[j].assets
    BY <1>2, ToldLater DEF Told
  <2>2. 2 .. Len(q) \subseteq 1 .. Len(q)
    BY <1>2, TailFacts
  <2> QED BY <2>1, <2>2 DEF Told
<1> QED BY <1>1, <1>2

(* The last frame decides.                                                 *)
LEMMA ToldAppend ==
  ASSUME NEW q \in Seq(Frame), NEW frame \in Frame, NEW s, NEW a
  PROVE  Told(s, Append(q, frame), a)
         <=> IF a \in frame.assets THEN frame.op = "subscribe" ELSE Told(s, q, a)
<1> DEFINE n == Len(q)
           l == Append(q, frame)
<1>1. /\ n \in Nat /\ Len(l) = n + 1 /\ l[n + 1] = frame
      /\ \A i \in 1 .. n : l[i] = q[i]
  OBVIOUS
<1>2. Told(s, l, a) <=> \/ a \in s /\ \A i \in 1 .. n + 1 : a \notin l[i].assets
                        \/ \E i \in 1 .. n + 1 :
                              /\ l[i].op = "subscribe" /\ a \in l[i].assets
                              /\ \A j \in (i + 1) .. n + 1 : a \notin l[j].assets
  BY <1>1 DEF Told
<1>3. Told(s, q, a) <=> \/ a \in s /\ \A i \in 1 .. n : a \notin q[i].assets
                        \/ \E i \in 1 .. n :
                              /\ q[i].op = "subscribe" /\ a \in q[i].assets
                              /\ \A j \in (i + 1) .. n : a \notin q[j].assets
  BY DEF Told
<1> HIDE DEF n, l
<1>4. \A i \in 1 .. n + 1 : i = n + 1 \/ i \in 1 .. n
  BY <1>1
<1>5. /\ n + 1 \in 1 .. n + 1 /\ 1 .. n \subseteq 1 .. n + 1
      /\ (n + 1) + 1 .. n + 1 = {}
  BY <1>1
<1>6. ASSUME a \in frame.assets
      PROVE  Told(s, l, a) <=> frame.op = "subscribe"
  <2>1. \A i \in 1 .. n : n + 1 \in (i + 1) .. n + 1
    BY <1>1
  <2> QED BY <1>1, <1>2, <1>4, <1>5, <1>6, <2>1
<1>7. ASSUME a \notin frame.assets
      PROVE  Told(s, l, a) <=> Told(s, q, a)
  <2>1. (\A i \in 1 .. n + 1 : a \notin l[i].assets) <=> (\A i \in 1 .. n : a \notin q[i].assets)
    BY <1>1, <1>4, <1>5, <1>7
  <2>2. ASSUME NEW i \in 1 .. n
        PROVE  (\A j \in (i + 1) .. n + 1 : a \notin l[j].assets)
               <=> (\A j \in (i + 1) .. n : a \notin q[j].assets)
    <3>1. \A j \in (i + 1) .. n + 1 : j = n + 1 \/ (j \in (i + 1) .. n /\ j \in 1 .. n)
      BY <1>1
    <3>2. \A j \in (i + 1) .. n : j \in (i + 1) .. n + 1 /\ j \in 1 .. n
      BY <1>1
    <3> QED BY <1>1, <1>7, <3>1, <3>2
  <2>3. (\E i \in 1 .. n + 1 : /\ l[i].op = "subscribe" /\ a \in l[i].assets
                               /\ \A j \in (i + 1) .. n + 1 : a \notin l[j].assets)
        <=> (\E i \in 1 .. n : /\ q[i].op = "subscribe" /\ a \in q[i].assets
                               /\ \A j \in (i + 1) .. n : a \notin q[j].assets)
    BY <1>1, <1>4, <1>5, <1>7, <2>2
  <2> QED BY <1>2, <1>3, <1>7, <2>1, <2>3
<1> QED BY <1>6, <1>7 DEF n, l

LEMMA ToldNow ==
  ASSUME NEW s, NEW a
  PROVE  Told(s, <<>>, a) <=> a \in s
BY DEF Told


-----------------------------------------------------------------------------
(* A cancelled manager stays cancelled.                                    *)

LEMMA CancelledStays ==
  ASSUME IInv, [MarketNext]_marketvars,
         NEW m \in Managers, conn[m] # "absent", Cancelled(m)
  PROVE  Cancelled(m)'
<1> USE DEF IInv
<1>1. ordered \subseteq ordered'
  BY LoopMoves DEF MarketNext, StartSubscribe, StartUnsubscribe, CallStep, CountUp,
     FinishSubscribe, CountDown, SendUnsubscribe, CleanUp, HandlerStep, HandlerStarts,
     HandlerObserves, HandlerResends, HandlerCancelled, ConnectionStep, Background,
     BeginShutdown, ShutdownReturns, LoopStep, Dial, DialSucceeds, WriteFrame, CloseDrained,
     DialCancelled, Network, DialFails, WriteFails, SocketEnds, GoMute, HeartbeatEnds,
     socketvars, marketvars
<1>2. CASE m \in ordered
  BY <1>1, <1>2 DEF Cancelled
<1>3. ASSUME m \notin ordered, ~Owned(m) PROVE ~Owned(m)'
  <2>1. channel # m /\ handler[m] # "sending" /\ \A c \in Callers : call[c].m # m
    BY <1>3 DEF Owned
  <2>2. m # 0 /\ NoCall.m # m
    BY ManagersAreNumbers DEF NoCall
  <2>3. ASSUME UNCHANGED handler, channel' \in {channel, 0},
               NEW c \in Callers, \A d \in Callers : d # c => call'[d] = call[d],
               call'[c].m \in {call[c].m, channel, 0}
        PROVE  ~Owned(m)'
    BY <2>1, <2>2, <2>3 DEF Owned
  <2>4. ASSUME NEW c \in Callers, StartSubscribe(c) PROVE ~Owned(m)'
    <3>1. PICK n \in Managers, assets \in Subscribed :
            /\ Create(n)
            /\ call' = [call EXCEPT ![c] = [op |-> "subscribe", m |-> n,
                          assets |-> assets, left |-> assets, hot |-> {}]]
      BY <2>4 DEF StartSubscribe
    <3>2. n # m /\ (channel' = channel \/ channel' = n) /\ handler'[m] = handler[m]
      BY <2>1, <3>1 DEF Create, MarketTypeOK
    <3>3. \A d \in Callers : call'[d].m \in {call[d].m, n}
      BY <3>1 DEF MarketTypeOK
    <3> QED BY <2>1, <3>2, <3>3 DEF Owned
  <2>5. ASSUME NEW c \in Callers, StartUnsubscribe(c) PROVE ~Owned(m)'
    <3>1. \A d \in Callers : call'[d].m \in {call[d].m, channel}
      BY <2>5 DEF StartUnsubscribe, MarketTypeOK
    <3> QED BY <2>1, <2>5, <3>1 DEF Owned, StartUnsubscribe
  <2>6. ASSUME NEW c \in Callers, CountUp(c) \/ CountDown(c) PROVE ~Owned(m)'
    <3>1. PICK left, hot : call' = [call EXCEPT ![c].left = left, ![c].hot = hot]
      BY <2>6 DEF CountUp, CountDown
    <3>2. call \in [Callers -> Calls]
      BY DEF MarketTypeOK
    <3>3. \A d \in Callers : call'[d].m = call[d].m
      BY <3>1, <3>2 DEF Calls
    <3> QED BY <2>1, <2>6, <3>3 DEF Owned, CountUp, CountDown
  <2>7. ASSUME NEW c \in Callers, FinishSubscribe(c) \/ CleanUp(c) PROVE ~Owned(m)'
    <3>1. \A d \in Callers : call'[d].m \in {call[d].m, 0}
      <4>1. call' = [call EXCEPT ![c] = NoCall]
        BY <2>7 DEF FinishSubscribe, CleanUp
      <4>2. NoCall.m = 0
        BY DEF NoCall
      <4> QED BY <4>1, <4>2 DEF MarketTypeOK
    <3>2. handler' = handler /\ channel' \in {channel, 0}
      BY <2>7 DEF FinishSubscribe, CleanUp
    <3> QED BY <2>1, <2>2, <3>1, <3>2 DEF Owned
  <2>8. ASSUME NEW c \in Callers, SendUnsubscribe(c) PROVE ~Owned(m)'
    <3>1. call[c] \in Calls
      BY DEF MarketTypeOK
    <3>2. [call[c] EXCEPT !.op = "clean"].m = call[c].m
      BY <3>1 DEF Calls
    <3>3. \A d \in Callers : call'[d].m \in {call[d].m, 0}
      BY <2>8, <3>2 DEF SendUnsubscribe, MarketTypeOK, NoCall
    <3> QED BY <2>1, <2>2, <2>8, <3>3 DEF Owned, SendUnsubscribe
  <2>9. ASSUME NEW n \in Managers, HandlerStep(n) PROVE ~Owned(m)'
    <3>1. UNCHANGED <<channel, call>>
      BY <2>9 DEF HandlerStep, HandlerStarts, HandlerObserves, HandlerResends,
         HandlerCancelled
    <3>2. handler'[m] # "sending"
      BY <1>3, <2>1, <2>9 DEF HandlerStep, HandlerStarts, HandlerObserves, HandlerResends,
         HandlerCancelled, MarketTypeOK
    <3> QED BY <2>1, <3>1, <3>2 DEF Owned
  <2>10. ASSUME \/ \E n \in Managers : ConnectionStep(n) \/ Background(n)
                \/ BeginShutdown \/ ShutdownReturns \/ UNCHANGED marketvars
         PROVE  ~Owned(m)'
    BY <2>1, <2>2, <2>10 DEF Owned, ConnectionStep, Background, BeginShutdown,
       ShutdownReturns, clientvars, marketvars
  <2> QED BY <2>4, <2>5, <2>6, <2>7, <2>8, <2>9, <2>10 DEF MarketNext, CallStep
<1> QED BY <1>2, <1>3 DEF Cancelled

(* A manager that a step does not touch.                                   *)
LEMMA ManagerCarries ==
  ASSUME IInv, [MarketNext]_marketvars, NEW n \in Managers, ManagerSettles(n),
         requests'[n] = requests[n], served'[n] = served[n], mute'[n] = mute[n],
         was'[n] = was[n], changed'[n] = changed[n], conn'[n] = conn[n],
         handler'[n] = handler[n], resend'[n] = resend[n],
         \A a \in Assets : Wanted(n, a)' <=> Wanted(n, a),
         channel' = n => channel = n,
         handler[n] = "sending" =>
            /\ Tracked(n)' = Tracked(n)
            /\ channel = n \/ n \in ordered => channel' = n \/ n \in ordered'
  PROVE  ManagerSettles(n)'
<1>1. HandlerPlace(n)'
  BY DEF ManagerSettles, HandlerPlace
<1>2. ServedPlace(n)'
  BY CancelledStays DEF ManagerSettles, ServedPlace
<1>3. \A a \in Assets : Said(n, a)' <=> Said(n, a)
  BY DEF Said
<1>4. SaysWanted(n)'
  BY <1>3 DEF ManagerSettles, SaysWanted, Synced
<1> QED BY <1>1, <1>2, <1>4 DEF ManagerSettles

(* A step of a call that says nothing.                                     *)
LEMMA CallCarries ==
  ASSUME IInv, [MarketNext]_marketvars, AllSettle,
         UNCHANGED <<requests, served, mute, was, changed, conn, handler, resend>>,
         channel' \in {channel, 0},
         \A n \in Managers : handler[n] # "sending",
         \A n \in Managers, a \in Assets : Wanted(n, a)' <=> Wanted(n, a)
  PROVE  AllSettle'
<1> SUFFICES ASSUME NEW n \in Managers PROVE ManagerSettles(n)'
  BY DEF AllSettle
<1>1. channel' = n => channel = n
  BY ManagersAreNumbers
<1> QED BY <1>1, ManagerCarries DEF AllSettle

-----------------------------------------------------------------------------
(* Calls.                                                                  *)

LEMMA QuietWants ==
  ASSUME \A c \in Callers : call[c] = NoCall, NEW m, NEW a
  PROVE  Wanted(m, a) <=> a \in Tracked(m)
BY DEF Wanted, Unsaid, NoCall

(* The call in progress is the only one.                                   *)
LEMMA BusyWants ==
  ASSUME NEW c \in Callers, \A d \in Callers : d # c => call[d] = NoCall, NEW m, NEW a
  PROVE  Wanted(m, a) <=>
            \/ /\ a \in Tracked(m)
               /\ ~(call[c].op = "subscribe" /\ call[c].m = m /\ a \in call[c].hot)
            \/ call[c].op = "unsubscribe" /\ call[c].m = m /\ a \in call[c].hot
BY DEF Wanted, Unsaid, NoCall

LEMMA BusyAlone ==
  ASSUME Alone, NEW c \in Callers, call[c] # NoCall
  PROVE  /\ \A d \in Callers : d # c => call[d] = NoCall
         /\ \A m \in Managers : handler[m] # "sending"
BY DEF Alone

LEMMA StartSubscribeSettles ==
  ASSUME IInv, ~Threaded, Alone, AllSettle, NEW c \in Callers, StartSubscribe(c)
  PROVE  Alone' /\ AllSettle'
<1>0. [MarketNext]_marketvars
  BY DEF MarketNext
<1>1. PICK m \in Managers, assets \in Subscribed :
        /\ Create(m)
        /\ call' = [call EXCEPT ![c] = [op |-> "subscribe", m |-> m,
                      assets |-> assets, left |-> assets, hot |-> {}]]
  BY DEF StartSubscribe
<1>2. /\ \A d \in Callers : call[d] = NoCall
      /\ \A n \in Managers : handler[n] # "sending"
      /\ UNCHANGED <<requests, served, mute, beat, changed, ordered, losses,
                     runtime, counts, was, resend, stream, closing>>
  BY DEF StartSubscribe, Free, Quiet
<1>3. /\ call'[c].op = "subscribe" /\ call'[c].m = m /\ call'[c].hot = {}
      /\ \A d \in Callers : d # c => call'[d] = NoCall
  BY <1>1, <1>2 DEF IInv, MarketTypeOK
<1>4. m # 0
  BY ManagersAreNumbers
<1>5. \/ channel = m /\ UNCHANGED <<conn, channel, handler>>
      \/ /\ channel = 0 /\ conn[m] = "absent" /\ channel' = m
         /\ conn' = [conn EXCEPT ![m] = "spawned"]
         /\ handler' = [handler EXCEPT ![m] = "starting"]
  BY <1>1 DEF Create
<1>6. channel' = m
  BY <1>5
<1>7. \A n \in Managers, a \in Assets : Wanted(n, a)' <=> Wanted(n, a)
  <2>1. \A n \in Managers, a \in Assets : Wanted(n, a) <=> a \in Tracked(n)
    BY <1>2, QuietWants
  <2>2. \A n \in Managers, a \in Assets : Wanted(n, a)' <=> a \in Tracked(n)'
    BY <1>3 DEF Wanted, Unsaid, NoCall
  <2> QED BY <1>2, <2>1, <2>2 DEF Tracked
<1>8. Alone'
  <2>1. \A n \in Managers : handler'[n] # "sending"
    BY <1>2, <1>5 DEF IInv, MarketTypeOK
  <2>2. \A d \in Callers : call'[d] # NoCall => d = c
    BY <1>3
  <2> QED BY <1>3, <1>6, <2>1, <2>2 DEF Alone
<1>9. ASSUME NEW n \in Managers PROVE ManagerSettles(n)'
  <2>1. CASE n # m \/ channel = m
    <3>1. conn'[n] = conn[n] /\ handler'[n] = handler[n] /\ (channel' = n => channel = n)
      BY <1>4, <1>5, <1>6, <2>1 DEF IInv, MarketTypeOK
    <3> QED BY <1>0, <1>2, <1>7, <3>1, ManagerCarries DEF AllSettle
  <2>2. CASE n = m /\ channel = 0 /\ conn[m] = "absent"
    <3>1. /\ handler'[m] = "starting" /\ conn'[m] = "spawned"
          /\ requests'[m] = <<>> /\ served'[m] = {} /\ ~was'[m] /\ ~mute'[m]
      BY <1>2, <1>5, <1>4, <2>2 DEF IInv, MarketTypeOK, AllSettle, ManagerSettles, ServedPlace
    <3>2. \A a \in Assets : ~Wanted(m, a)'
      <4>1. \A a \in Assets : a \notin Tracked(m)
        BY <2>2 DEF IInv, ManagersSound, Tracked
      <4> QED BY <1>2, <1>7, <4>1, QuietWants
    <3>3. \A a \in Assets : ~Said(m, a)'
      BY <3>1, ToldNow DEF Said
    <3>4. HandlerPlace(m)' /\ ServedPlace(m)' /\ SaysWanted(m)'
      BY <3>1, <3>2, <3>3 DEF HandlerPlace, ServedPlace, SaysWanted
    <3> QED BY <2>2, <3>4 DEF ManagerSettles
  <2> QED BY <1>5, <2>1, <2>2
<1> QED BY <1>8, <1>9 DEF AllSettle

LEMMA CountUpSettles ==
  ASSUME IInv, ~Threaded, Alone, AllSettle, NEW c \in Callers, CountUp(c)
  PROVE  Alone' /\ AllSettle'
<1> USE DEF IInv
<1>0. [MarketNext]_marketvars
  BY DEF MarketNext, CallStep
<1>1. /\ call[c].op = "subscribe" /\ call[c] # NoCall
      /\ UNCHANGED <<socketvars, runtime, channel, handler, was, resend, stream,
                     closing, calls>>
  BY DEF CountUp, NoCall
<1>2. PICK m \in Managers : m = call[c].m /\ channel = m
  BY <1>1 DEF CallersSound, CallerSound
<1>3. PICK a \in call[c].left :
        /\ counts' = [counts EXCEPT ![m][a] = @ + 1]
        /\ call' = [call EXCEPT ![c].left = @ \ {a},
              ![c].hot = IF counts[m][a] = 0 THEN @ \cup {a} ELSE @]
  BY <1>2 DEF CountUp
<1>4. /\ \A d \in Callers : d # c => call[d] = NoCall
      /\ \A n \in Managers : handler[n] # "sending"
  BY <1>1, BusyAlone
<1>5. call[c] \in Calls /\ a \in Assets
  BY <1>3 DEF MarketTypeOK, Calls
<1>6. /\ call'[c].op = "subscribe" /\ call'[c].m = m
      /\ call'[c].hot = IF counts[m][a] = 0 THEN call[c].hot \cup {a} ELSE call[c].hot
      /\ \A d \in Callers : d # c => call'[d] = NoCall
  BY <1>1, <1>2, <1>3, <1>4, <1>5 DEF MarketTypeOK, Calls
<1>7. /\ counts[m][a] \in Nat
      /\ counts'[m][a] = counts[m][a] + 1
      /\ \A b \in Assets : b # a => counts'[m][b] = counts[m][b]
      /\ \A n \in Managers : n # m => counts'[n] = counts[n]
  BY <1>3, <1>5 DEF MarketTypeOK
<1>8. /\ Tracked(m)' = Tracked(m) \cup {a}
      /\ \A n \in Managers : n # m => Tracked(n)' = Tracked(n)
      /\ a \in Tracked(m) <=> counts[m][a] # 0
  BY <1>5, <1>7 DEF Tracked
<1>9. ASSUME NEW n \in Managers, NEW b \in Assets
      PROVE  Wanted(n, b)' <=> Wanted(n, b)
  <2>1. Wanted(n, b) <=> b \in Tracked(n) /\ ~(m = n /\ b \in call[c].hot)
    BY <1>1, <1>2, <1>4, BusyWants
  <2>2. Wanted(n, b)' <=> b \in Tracked(n)' /\ ~(m = n /\ b \in call'[c].hot)
    BY <1>6 DEF Wanted, Unsaid, NoCall
  <2> QED BY <1>6, <1>8, <2>1, <2>2
<1>10. Alone'
  <2>1. call[c].hot \subseteq Tracked(m)
    BY <1>1, <1>2 DEF Alone
  <2>2. call'[c].hot \subseteq Tracked(m)'
    BY <1>6, <1>8, <2>1
  <2> QED BY <1>1, <1>2, <1>4, <1>6, <2>2 DEF Alone
<1>11. AllSettle'
  BY <1>0, <1>1, <1>4, <1>9, CallCarries DEF socketvars
<1> QED BY <1>10, <1>11

LEMMA StartUnsubscribeSettles ==
  ASSUME IInv, ~Threaded, Alone, AllSettle, NEW c \in Callers, StartUnsubscribe(c)
  PROVE  Alone' /\ AllSettle'
<1>0. [MarketNext]_marketvars
  BY DEF MarketNext
<1>1. /\ \A d \in Callers : call[d] = NoCall
      /\ \A n \in Managers : handler[n] # "sending"
      /\ UNCHANGED <<socketvars, runtime, channel, counts, handler, was, resend,
                     closing, calls>>
      /\ \/ channel = 0 /\ call' = call
         \/ /\ channel # 0
            /\ call' = [call EXCEPT ![c] = [op |-> "unsubscribe", m |-> channel,
                  assets |-> stream[c].assets, left |-> stream[c].assets, hot |-> {}]]
  BY DEF StartUnsubscribe, Free, Quiet
<1>2. /\ \A d \in Callers : d # c => call'[d] = NoCall
      /\ \/ call'[c] = NoCall
         \/ call'[c].op = "unsubscribe" /\ call'[c].m = channel /\ call'[c].hot = {}
  BY <1>1 DEF IInv, MarketTypeOK
<1>3. \A n \in Managers, a \in Assets : Wanted(n, a)' <=> Wanted(n, a)
  <2>1. \A n \in Managers, a \in Assets : Wanted(n, a) <=> a \in Tracked(n)
    BY <1>1, QuietWants
  <2>2. \A n \in Managers, a \in Assets : Wanted(n, a)' <=> a \in Tracked(n)'
    BY <1>2 DEF Wanted, Unsaid, NoCall
  <2> QED BY <1>1, <2>1, <2>2 DEF Tracked
<1>4. Alone'
  BY <1>1, <1>2 DEF Alone
<1>5. AllSettle'
  BY <1>0, <1>1, <1>3, CallCarries DEF socketvars
<1> QED BY <1>4, <1>5

LEMMA CountDownSettles ==
  ASSUME IInv, ~Threaded, Alone, AllSettle, NEW c \in Callers, CountDown(c)
  PROVE  Alone' /\ AllSettle'
<1> USE DEF IInv
<1>0. [MarketNext]_marketvars
  BY DEF MarketNext, CallStep
<1>1. /\ call[c].op = "unsubscribe" /\ call[c] # NoCall
      /\ UNCHANGED <<socketvars, runtime, channel, handler, was, resend, stream,
                     closing, calls>>
  BY DEF CountDown, NoCall
<1>2. PICK m \in Managers : m = call[c].m /\ channel = m
  BY <1>1 DEF CallersSound, CallerSound, Alone
<1>3. PICK a \in call[c].left :
        /\ counts' = IF counts[m][a] = 0 THEN counts
                     ELSE [counts EXCEPT ![m][a] = counts[m][a] - 1]
        /\ call' = [call EXCEPT ![c].left = @ \ {a},
              ![c].hot = IF counts[m][a] = 1 THEN @ \cup {a} ELSE @]
  BY <1>2 DEF CountDown
<1>4. /\ \A d \in Callers : d # c => call[d] = NoCall
      /\ \A n \in Managers : handler[n] # "sending"
  BY <1>1, BusyAlone
<1>5. call[c] \in Calls /\ a \in Assets
  BY <1>3 DEF MarketTypeOK, Calls
<1>6. /\ call'[c].op = "unsubscribe" /\ call'[c].m = m
      /\ call'[c].hot = IF counts[m][a] = 1 THEN call[c].hot \cup {a} ELSE call[c].hot
      /\ \A d \in Callers : d # c => call'[d] = NoCall
  BY <1>1, <1>2, <1>3, <1>4, <1>5 DEF MarketTypeOK, Calls
<1>7. /\ counts[m][a] \in Nat
      /\ counts'[m][a] = IF counts[m][a] = 0 THEN 0 ELSE counts[m][a] - 1
      /\ \A b \in Assets : b # a => counts'[m][b] = counts[m][b]
      /\ \A n \in Managers : n # m => counts'[n] = counts[n]
  BY <1>3, <1>5 DEF MarketTypeOK
<1>8. /\ Tracked(m)' = IF counts[m][a] = 1 THEN Tracked(m) \ {a} ELSE Tracked(m)
      /\ \A n \in Managers : n # m => Tracked(n)' = Tracked(n)
      /\ a \in Tracked(m) <=> counts[m][a] # 0
  <2>1. counts'[m][a] > 0 <=> counts[m][a] > 1
    BY <1>7
  <2> QED BY <1>5, <1>7, <2>1 DEF Tracked
<1>9. ASSUME NEW n \in Managers, NEW b \in Assets
      PROVE  Wanted(n, b)' <=> Wanted(n, b)
  <2>1. Wanted(n, b) <=> b \in Tracked(n) \/ (m = n /\ b \in call[c].hot)
    BY <1>1, <1>2, <1>4, BusyWants
  <2>2. Wanted(n, b)' <=> b \in Tracked(n)' \/ (m = n /\ b \in call'[c].hot)
    BY <1>6 DEF Wanted, Unsaid, NoCall
  <2> QED BY <1>6, <1>7, <1>8, <2>1, <2>2
<1>10. Alone'
  <2>1. call[c].hot \cap Tracked(m) = {}
    BY <1>1, <1>2 DEF Alone
  <2>2. call'[c].hot \cap Tracked(m)' = {}
    BY <1>6, <1>8, <2>1
  <2> QED BY <1>1, <1>2, <1>4, <1>6, <2>2 DEF Alone
<1>11. AllSettle'
  BY <1>0, <1>1, <1>4, <1>9, CallCarries DEF socketvars
<1> QED BY <1>10, <1>11

LEMMA CleanUpSettles ==
  ASSUME IInv, ~Threaded, Alone, AllSettle, NEW c \in Callers, CleanUp(c)
  PROVE  Alone' /\ AllSettle'
<1>0. [MarketNext]_marketvars
  BY DEF MarketNext, CallStep
<1>1. /\ call[c].op = "clean" /\ call[c] # NoCall
      /\ channel' \in {channel, 0}
      /\ call' = [call EXCEPT ![c] = NoCall]
      /\ UNCHANGED <<socketvars, runtime, counts, handler, was, resend, stream,
                     closing, calls>>
  BY DEF CleanUp, NoCall
<1>2. /\ \A d \in Callers : d # c => call[d] = NoCall
      /\ \A n \in Managers : handler[n] # "sending"
  BY <1>1, BusyAlone
<1>3. \A d \in Callers : call'[d] = NoCall
  BY <1>1, <1>2 DEF IInv, MarketTypeOK
<1>4. \A n \in Managers, a \in Assets : Wanted(n, a)' <=> Wanted(n, a)
  <2>1. \A n \in Managers, a \in Assets : Wanted(n, a) <=> a \in Tracked(n)
    BY <1>1, <1>2, BusyWants
  <2>2. \A n \in Managers, a \in Assets : Wanted(n, a)' <=> a \in Tracked(n)'
    BY <1>3 DEF Wanted, Unsaid, NoCall
  <2> QED BY <1>1, <2>1, <2>2 DEF Tracked
<1>5. Alone'
  BY <1>3 DEF Alone
<1>6. AllSettle'
  BY <1>0, <1>1, <1>2, <1>4, CallCarries DEF socketvars
<1> QED BY <1>5, <1>6


(* What a call says is what it has counted first or last.                  *)
LEMMA SaysMore ==
  ASSUME IInv, NEW m \in Managers, NEW frame \in Frame, CanSend(m), Enqueue(m, frame),
         served' = served
  PROVE  /\ \A a \in Assets :
               Said(m, a)' <=> IF a \in frame.assets THEN frame.op = "subscribe" ELSE Said(m, a)
         /\ \A n \in Managers : n # m => requests'[n] = requests[n]
<1>1. requests[m] \in Seq(Frame) /\ requests \in [Managers -> Seq(Frame)]
  BY DEF IInv, MarketTypeOK
<1>2. requests' = [requests EXCEPT ![m] = Append(requests[m], frame)]
  BY DEF Enqueue
<1>3. requests'[m] = Append(requests[m], frame)
  BY <1>1, <1>2
<1>4. \A n \in Managers : n # m => requests'[n] = requests[n]
  BY <1>1, <1>2
<1> QED BY <1>1, <1>3, <1>4, ToldAppend DEF Said

LEMMA FinishSubscribeSettles ==
  ASSUME IInv, ~Threaded, Alone, AllSettle, NEW c \in Callers, FinishSubscribe(c)
  PROVE  Alone' /\ AllSettle'
<1> USE DEF IInv
<1>0. [MarketNext]_marketvars
  BY DEF MarketNext, CallStep
<1>1. /\ call[c].op = "subscribe" /\ call[c] # NoCall
      /\ call' = [call EXCEPT ![c] = NoCall]
      /\ UNCHANGED <<conn, served, mute, beat, changed, ordered, losses, runtime,
                     channel, counts, handler, was, resend, closing, calls>>
  BY DEF FinishSubscribe, NoCall
<1>2. PICK m \in Managers : m = call[c].m /\ channel = m
  BY <1>1 DEF CallersSound, CallerSound
<1>3. /\ \A d \in Callers : d # c => call[d] = NoCall
      /\ \A n \in Managers : handler[n] # "sending"
  BY <1>1, BusyAlone
<1>4. \A d \in Callers : call'[d] = NoCall
  BY <1>1, <1>3 DEF MarketTypeOK
<1>5. CanSend(m) /\ m # 0
  BY <1>2, ManagersAreNumbers DEF CanSend, ManagersSound
<1>6. call[c].hot \in SUBSET Assets /\ call[c].hot \subseteq Tracked(m)
  BY <1>1, <1>2 DEF MarketTypeOK, Calls, Alone
<1>7. /\ \A a \in Assets : Said(m, a)' <=> (Said(m, a) \/ a \in call[c].hot)
      /\ \A n \in Managers : n # m => requests'[n] = requests[n]
  <2>1. CASE call[c].hot = {}
    <3>1. requests' = requests
      BY <2>1 DEF FinishSubscribe
    <3> QED BY <1>1, <2>1, <3>1 DEF Said
  <2>2. CASE call[c].hot # {}
    <3> DEFINE frame == [op |-> "subscribe", assets |-> call[c].hot]
    <3>1. Enqueue(m, frame)
      BY <1>2, <2>2 DEF FinishSubscribe
    <3>2. frame \in Frame /\ frame.op = "subscribe" /\ frame.assets = call[c].hot
      BY <1>6 DEF Frame
    <3> HIDE DEF frame
    <3> QED BY <1>1, <1>5, <3>1, <3>2, SaysMore
  <2> QED BY <2>1, <2>2
<1>8. \A n \in Managers, a \in Assets :
         /\ Wanted(n, a) <=> a \in Tracked(n) /\ ~(m = n /\ a \in call[c].hot)
         /\ Wanted(n, a)' <=> a \in Tracked(n)
  <2>1. \A n \in Managers, a \in Assets :
           Wanted(n, a) <=> a \in Tracked(n) /\ ~(m = n /\ a \in call[c].hot)
    BY <1>1, <1>2, <1>3, BusyWants
  <2>2. \A n \in Managers, a \in Assets : Wanted(n, a)' <=> a \in Tracked(n)'
    BY <1>4 DEF Wanted, Unsaid, NoCall
  <2> QED BY <1>1, <2>1, <2>2 DEF Tracked
<1>9. Alone'
  BY <1>4 DEF Alone
<1>10. ASSUME NEW n \in Managers PROVE ManagerSettles(n)'
  <2>1. CASE n # m
    BY <1>0, <1>1, <1>3, <1>7, <1>8, <2>1, ManagerCarries DEF AllSettle
  <2>2. CASE n = m
    <3>1. ManagerSettles(m)
      BY DEF AllSettle
    <3>2. HandlerPlace(m)'
      BY <1>1, <1>3, <3>1 DEF ManagerSettles, HandlerPlace
    <3>3. conn[m] # "absent" /\ ~Cancelled(m)
      BY <1>2, <1>5 DEF ManagersSound, Cancelled, Owned, CanSend
    <3>4. ServedPlace(m)'
      BY <1>1, <3>1, <3>3 DEF ManagerSettles, ServedPlace
    <3>5. SaysWanted(m)'
      BY <1>1, <1>6, <1>7, <1>8, <3>1 DEF ManagerSettles, SaysWanted, Synced
    <3> QED BY <2>2, <3>2, <3>4, <3>5 DEF ManagerSettles
  <2> QED BY <2>1, <2>2
<1> QED BY <1>9, <1>10 DEF AllSettle

LEMMA SendUnsubscribeSettles ==
  ASSUME IInv, ~Threaded, Alone, AllSettle, NEW c \in Callers, SendUnsubscribe(c)
  PROVE  Alone' /\ AllSettle'
<1> USE DEF IInv
<1>0. [MarketNext]_marketvars
  BY DEF MarketNext, CallStep
<1>1. /\ call[c].op = "unsubscribe" /\ call[c] # NoCall
      /\ UNCHANGED <<conn, served, mute, beat, changed, ordered, losses, runtime,
                     channel, counts, handler, was, resend, stream, closing, calls>>
  BY DEF SendUnsubscribe, NoCall
<1>2. PICK m \in Managers : m = call[c].m /\ channel = m
  BY <1>1 DEF CallersSound, CallerSound, Alone
<1>3. /\ \A d \in Callers : d # c => call[d] = NoCall
      /\ \A n \in Managers : handler[n] # "sending"
  BY <1>1, BusyAlone
<1>4. CanSend(m) /\ m # 0
  BY <1>2, ManagersAreNumbers DEF CanSend, ManagersSound
<1>5. call[c].hot \in SUBSET Assets /\ call[c].hot \cap Tracked(m) = {} /\ call[c] \in Calls
  BY <1>1, <1>2 DEF MarketTypeOK, Calls, Alone
<1>6. /\ call'[c].op = "clean" /\ call'[c].m = m
      /\ \A d \in Callers : d # c => call'[d] = NoCall
  <2> DEFINE cleaning == [call[c] EXCEPT !.op = "clean"]
  <2>1. cleaning.op = "clean" /\ cleaning.m = m
    BY <1>2, <1>5 DEF Calls
  <2>2. call' = [call EXCEPT ![c] = cleaning]
    BY <1>2, <1>4 DEF SendUnsubscribe
  <2> HIDE DEF cleaning
  <2> QED BY <1>3, <2>1, <2>2 DEF MarketTypeOK
<1>7. /\ \A a \in Assets : Said(m, a)' <=> (Said(m, a) /\ a \notin call[c].hot)
      /\ \A n \in Managers : n # m => requests'[n] = requests[n]
  <2>1. CASE call[c].hot = {}
    <3>1. requests' = requests
      BY <2>1 DEF SendUnsubscribe
    <3> QED BY <1>1, <2>1, <3>1 DEF Said
  <2>2. CASE call[c].hot # {}
    <3> DEFINE frame == [op |-> "unsubscribe", assets |-> call[c].hot]
    <3>1. Enqueue(m, frame)
      BY <1>2, <2>2 DEF SendUnsubscribe
    <3>2. frame \in Frame /\ frame.op = "unsubscribe" /\ frame.assets = call[c].hot
      BY <1>5 DEF Frame
    <3> HIDE DEF frame
    <3> QED BY <1>1, <1>4, <3>1, <3>2, SaysMore
  <2> QED BY <2>1, <2>2
<1>8. \A n \in Managers, a \in Assets :
         /\ Wanted(n, a) <=> a \in Tracked(n) \/ (m = n /\ a \in call[c].hot)
         /\ Wanted(n, a)' <=> a \in Tracked(n)
  <2>1. \A n \in Managers, a \in Assets :
           Wanted(n, a) <=> a \in Tracked(n) \/ (m = n /\ a \in call[c].hot)
    BY <1>1, <1>2, <1>3, BusyWants
  <2>2. \A n \in Managers, a \in Assets : Wanted(n, a)' <=> a \in Tracked(n)'
    BY <1>6 DEF Wanted, Unsaid, NoCall
  <2> QED BY <1>1, <2>1, <2>2 DEF Tracked
<1>9. Alone'
  BY <1>1, <1>2, <1>3, <1>6 DEF Alone
<1>10. ASSUME NEW n \in Managers PROVE ManagerSettles(n)'
  <2>1. CASE n # m
    BY <1>0, <1>1, <1>3, <1>7, <1>8, <2>1, ManagerCarries DEF AllSettle
  <2>2. CASE n = m
    <3>1. ManagerSettles(m)
      BY DEF AllSettle
    <3>2. HandlerPlace(m)'
      BY <1>1, <1>3, <3>1 DEF ManagerSettles, HandlerPlace
    <3>3. conn[m] # "absent" /\ ~Cancelled(m)
      BY <1>2, <1>4 DEF ManagersSound, Cancelled, Owned, CanSend
    <3>4. ServedPlace(m)'
      BY <1>1, <3>1, <3>3 DEF ManagerSettles, ServedPlace
    <3>5. SaysWanted(m)'
      BY <1>1, <1>5, <1>7, <1>8, <3>1 DEF ManagerSettles, SaysWanted, Synced
    <3> QED BY <2>2, <3>2, <3>4, <3>5 DEF ManagerSettles
  <2> QED BY <2>1, <2>2
<1> QED BY <1>9, <1>10 DEF AllSettle

-----------------------------------------------------------------------------
(* The handler.                                                            *)

LEMMA HandlerSettles ==
  ASSUME IInv, ~Threaded, Alone, AllSettle, NEW m \in Managers, HandlerStep(m)
  PROVE  Alone' /\ AllSettle'
<1> USE DEF IInv
<1>0. [MarketNext]_marketvars
  BY DEF MarketNext
<1>1. UNCHANGED <<conn, served, mute, ordered, channel, counts, call>>
  BY DEF HandlerStep, HandlerStarts, HandlerObserves, HandlerResends, HandlerCancelled,
     socketvars
<1>2. \A n \in Managers : n # m => /\ was'[n] = was[n] /\ changed'[n] = changed[n]
                                   /\ handler'[n] = handler[n] /\ resend'[n] = resend[n]
                                   /\ requests'[n] = requests[n]
  BY DEF HandlerStep, HandlerStarts, HandlerObserves, HandlerResends, HandlerCancelled,
     socketvars, MarketTypeOK, Enqueue
<1>3. \A d \in Callers : call[d] = NoCall
  BY DEF HandlerStep, HandlerStarts, HandlerObserves, HandlerResends, HandlerCancelled,
     Free, Quiet, Alone
<1>4. \A n \in Managers, a \in Assets :
         /\ Wanted(n, a)' <=> Wanted(n, a)
         /\ Wanted(n, a) <=> a \in Tracked(n)
  <2>1. \A n \in Managers, a \in Assets : Wanted(n, a) <=> a \in Tracked(n)
    BY <1>3, QuietWants
  <2>2. \A n \in Managers, a \in Assets : Wanted(n, a)' <=> a \in Tracked(n)'
    BY <1>1, <1>3 DEF Wanted, Unsaid, NoCall
  <2> QED BY <1>1, <2>1, <2>2 DEF Tracked
<1>4a. \A n \in Managers : Tracked(n)' = Tracked(n)
  BY <1>1 DEF Tracked
<1>5. Alone'
  BY <1>1, <1>3 DEF Alone
<1>6. ManagerSettles(m) /\ m # 0
  BY ManagersAreNumbers DEF AllSettle
<1>7. channel = m => /\ CanSend(m) /\ ~Cancelled(m) /\ Owned(m)
                     /\ conn[m] \notin {"absent", "closed"}
  BY <1>6 DEF ManagersSound, CanSend, Cancelled, Owned
<1>8. conn[m] # "absent" /\ Cancelled(m) => Cancelled(m)'
  BY <1>0, CancelledStays
<1>9. ASSUME requests'[m] = requests[m], HandlerPlace(m)',
             conn[m] = "absent" => ~was'[m],
             channel = m /\ Synced(m)' => Synced(m)
      PROVE  ManagerSettles(m)'
  <2>1. ServedPlace(m)'
    BY <1>1, <1>6, <1>8, <1>9 DEF ManagerSettles, ServedPlace
  <2>2. \A a \in Assets : Said(m, a)' <=> Said(m, a)
    BY <1>1, <1>9 DEF Said
  <2>3. SaysWanted(m)'
    BY <1>1, <1>4, <1>6, <1>9, <2>2 DEF ManagerSettles, SaysWanted
  <2> QED BY <1>9, <2>1, <2>3 DEF ManagerSettles
<1>10. ASSUME HandlerStarts(m) PROVE ManagerSettles(m)'
  <2>1. /\ handler[m] = "starting" /\ handler'[m] = "waiting"
        /\ was'[m] = (conn[m] = "connected")
        /\ changed' = changed /\ requests' = requests
    BY <1>10 DEF HandlerStarts, socketvars, MarketTypeOK
  <2>2. ~was[m]
    BY <1>6, <2>1 DEF ManagerSettles, HandlerPlace
  <2>3. HandlerPlace(m)'
    BY <1>1, <2>1 DEF HandlerPlace
  <2> QED BY <1>1, <1>9, <2>1, <2>2, <2>3 DEF Synced
<1>11. ASSUME HandlerObserves(m) PROVE ManagerSettles(m)'
  <2>1. /\ handler[m] = "waiting" /\ changed[m] /\ ~changed'[m]
        /\ was'[m] = (was[m] \/ conn[m] = "connected")
        /\ requests' = requests
    BY <1>11 DEF HandlerObserves, MarketTypeOK
  <2>2. CASE conn[m] = "connected" /\ was[m] /\ (Owned(m) \/ m \in ordered)
    <3>1. handler'[m] = "sending" /\ resend'[m] = Tracked(m)
      BY <1>11, <2>2 DEF HandlerObserves, MarketTypeOK
    <3>2. channel = m \/ m \in ordered
      BY <1>3, <1>6, <2>1, <2>2 DEF Owned, NoCall
    <3>3. HandlerPlace(m)'
      BY <1>1, <1>4a, <2>1, <2>2, <3>1, <3>2 DEF HandlerPlace
    <3> QED BY <1>9, <2>1, <2>2, <3>1, <3>3 DEF Synced
  <2>3. CASE ~(conn[m] = "connected" /\ was[m] /\ (Owned(m) \/ m \in ordered))
    <3>1. /\ handler'[m] = IF conn[m] = "closed" \/ (conn[m] = "connected" /\ was[m])
                           THEN "done" ELSE "waiting"
          /\ resend' = resend
      BY <1>11, <2>3 DEF HandlerObserves, MarketTypeOK
    <3>2. HandlerPlace(m)'
      BY <1>1, <1>7, <2>1, <2>3, <3>1 DEF HandlerPlace
    <3>3. channel = m /\ Synced(m)' => Synced(m)
      BY <1>1, <2>1, <3>1 DEF Synced
    <3>4. conn[m] = "absent" => ~was'[m]
      BY <1>6, <2>1 DEF ManagerSettles, ServedPlace
    <3> QED BY <1>9, <2>1, <3>2, <3>3, <3>4
  <2> QED BY <2>2, <2>3
<1>12. ASSUME HandlerResends(m) PROVE ManagerSettles(m)'
  <2>1. /\ handler[m] = "sending" /\ handler'[m] = "waiting"
        /\ was' = was /\ changed' = changed
    BY <1>12 DEF HandlerResends, MarketTypeOK
  <2>2. was[m] /\ resend[m] = Tracked(m) /\ (channel = m \/ m \in ordered)
    BY <1>6, <2>1 DEF ManagerSettles, HandlerPlace
  <2>3. HandlerPlace(m)'
    BY <1>1, <2>1, <2>2 DEF HandlerPlace
  <2>4. CASE requests' = requests /\ (channel # m \/ resend[m] = {})
    <3>1. channel = m => \A a \in Assets : Wanted(m, a) => Said(m, a)
      BY <1>4, <2>2, <2>4
    <3>2. \A a \in Assets : Said(m, a)' <=> Said(m, a)
      BY <1>1, <2>4 DEF Said
    <3>3. SaysWanted(m)'
      BY <1>1, <1>4, <1>6, <3>1, <3>2 DEF ManagerSettles, SaysWanted
    <3>4. ServedPlace(m)'
      BY <1>1, <1>6, <1>8, <2>1, <2>4 DEF ManagerSettles, ServedPlace
    <3> QED BY <2>3, <3>3, <3>4 DEF ManagerSettles
  <2>5. CASE channel = m /\ resend[m] # {}
    <3> DEFINE frame == [op |-> "subscribe", assets |-> resend[m]]
    <3>1. Enqueue(m, frame)
      BY <1>12, <2>5 DEF HandlerResends
    <3>2. frame \in Frame /\ frame.op = "subscribe" /\ frame.assets = Tracked(m)
      BY <2>2 DEF Frame, Tracked
    <3> HIDE DEF frame
    <3>3. \A a \in Assets : Said(m, a)' <=> (Said(m, a) \/ a \in Tracked(m))
      BY <1>1, <1>7, <2>5, <3>1, <3>2, SaysMore
    <3>4. SaysWanted(m)'
      BY <1>1, <1>4, <1>6, <3>3 DEF ManagerSettles, SaysWanted
    <3>5. ServedPlace(m)'
      BY <1>1, <1>6, <1>7, <2>1, <2>5 DEF ManagerSettles, ServedPlace
    <3> QED BY <2>3, <3>4, <3>5 DEF ManagerSettles
  <2>6. m \in ordered => requests' = requests /\ channel # m
    BY <1>12, <1>7 DEF HandlerResends, Enqueue, CanSend
  <2>7. resend[m] = {} => requests' = requests
    BY <1>12 DEF HandlerResends
  <2> QED BY <2>2, <2>4, <2>5, <2>6, <2>7
<1>13. ASSUME HandlerCancelled(m) PROVE ManagerSettles(m)'
  <2>1. /\ handler[m] = "waiting" /\ handler'[m] = "done" /\ channel # m
        /\ was' = was /\ changed' = changed /\ requests' = requests
    BY <1>7, <1>13 DEF HandlerCancelled, socketvars, MarketTypeOK
  <2>2. HandlerPlace(m)'
    BY <1>1, <2>1 DEF HandlerPlace
  <2>3. conn[m] = "absent" => ~was'[m]
    BY <1>6, <2>1 DEF ManagerSettles, ServedPlace
  <2> QED BY <1>9, <2>1, <2>2, <2>3
<1>14. ManagerSettles(m)'
  BY <1>10, <1>11, <1>12, <1>13 DEF HandlerStep
<1>15. ASSUME NEW n \in Managers, n # m PROVE ManagerSettles(n)'
  BY <1>0, <1>1, <1>2, <1>4, <1>15, <1>4a, ManagerCarries DEF AllSettle
<1> QED BY <1>5, <1>14, <1>15 DEF AllSettle


-----------------------------------------------------------------------------
(* The loop and the network.                                               *)

LEMMA ConnectionSettles ==
  ASSUME IInv, ~Threaded, Alone, AllSettle, NEW m \in Managers,
         ConnectionStep(m) \/ Background(m)
  PROVE  Alone' /\ AllSettle'
<1> USE DEF IInv
<1>0. [MarketNext]_marketvars
  BY DEF MarketNext
<1>1. /\ UNCHANGED clientvars
      /\ HandlerKeepsUp(m)
      /\ LoopStep(m, Cancelled(m)) \/ Network(m, Cancelled(m))
      /\ \A d \in Callers : call[d] = NoCall
      /\ \A n \in Managers : handler[n] # "sending"
  BY DEF ConnectionStep, Background, Free, Quiet
<1>2. UNCHANGED <<channel, counts, handler, was, resend, call>>
  BY <1>1 DEF clientvars
<1>3. /\ conn \in [Managers -> {"absent", "spawned", "dialing", "connected", "backoff",
                                "closed"}]
      /\ requests \in [Managers -> Seq(Frame)]
      /\ served \in [Managers -> SUBSET Assets]
      /\ mute \in [Managers -> BOOLEAN]
      /\ changed \in [Managers -> BOOLEAN]
  BY DEF MarketTypeOK
<1>4. \A n \in Managers, a \in Assets :
         /\ Wanted(n, a)' <=> Wanted(n, a)
         /\ Wanted(n, a) <=> a \in Tracked(n)
  <2>1. \A n \in Managers, a \in Assets : Wanted(n, a) <=> a \in Tracked(n)
    BY <1>1, QuietWants
  <2>2. \A n \in Managers, a \in Assets : Wanted(n, a)' <=> a \in Tracked(n)'
    BY <1>1, <1>2 DEF Wanted, Unsaid, NoCall
  <2> QED BY <1>2, <2>1, <2>2 DEF Tracked
<1>5. Alone'
  BY <1>1, <1>2 DEF Alone
<1>6. ASSUME NEW n \in Managers, n # m PROVE ManagerSettles(n)'
  <2>1. /\ requests'[n] = requests[n] /\ served'[n] = served[n] /\ mute'[n] = mute[n]
        /\ changed'[n] = changed[n] /\ conn'[n] = conn[n]
    BY <1>1, <1>3, <1>6 DEF LoopStep, Dial, DialSucceeds, WriteFrame, CloseDrained,
       DialCancelled, Network, DialFails, WriteFails, SocketEnds, GoMute, HeartbeatEnds,
       LeaveSocket, Goto, Forget
  <2> QED BY <1>0, <1>1, <1>2, <1>4, <2>1, ManagerCarries DEF AllSettle
<1>7. ManagerSettles(m)
  BY DEF AllSettle
<1>8. /\ channel = m => ~Cancelled(m)
      /\ conn[m] # "absent" /\ Cancelled(m) => Cancelled(m)'
  BY <1>0, CancelledStays, ManagersAreNumbers DEF ManagersSound, Cancelled, Owned
<1>9. (channel = m /\ conn[m] = "connected" /\ conn'[m] # "connected") => was[m]
  <2>1. (channel = m /\ conn[m] = "connected" /\ conn'[m] # "connected") =>
           handler[m] = "waiting" /\ ~changed[m]
    BY <1>1, <1>7 DEF HandlerKeepsUp, ManagerSettles, HandlerPlace
  <2> QED BY <1>7, <2>1 DEF ManagerSettles, HandlerPlace
<1>10. ASSUME (conn'[m] = conn[m] /\ changed'[m] = changed[m]) \/ changed'[m]
       PROVE  HandlerPlace(m)'
  BY <1>1, <1>2, <1>7, <1>10 DEF ManagerSettles, HandlerPlace
<1>11. ASSUME (conn'[m] = conn[m] /\ changed'[m] = changed[m]) \/ changed'[m],
              ServedPlace(m)',
              \A a \in Assets : Said(m, a)' => Said(m, a),
              channel = m /\ Synced(m)' =>
                 Synced(m) /\ \A a \in Assets : Said(m, a) => Said(m, a)'
       PROVE  ManagerSettles(m)'
  <2>1. SaysWanted(m)'
    BY <1>2, <1>4, <1>7, <1>11 DEF ManagerSettles, SaysWanted
  <2> QED BY <1>10, <1>11, <2>1 DEF ManagerSettles
<1>12. /\ \A a \in Assets : Told({}, requests[m], a) => Said(m, a)
       /\ requests[m] # <<>> =>
             /\ \A a \in Assets : Told({}, Tail(requests[m]), a) => Said(m, a)
             /\ \A a \in Assets :
                   Told(Apply(served[m], Head(requests[m])), Tail(requests[m]), a)
                      <=> Said(m, a)
  BY <1>3, ToldLess, ToldWrite DEF Said
<1>13. ASSUME conn[m] \notin {"connected", "absent"}, conn'[m] \notin {"connected", "absent"},
              changed'[m], UNCHANGED <<requests, served, mute>>
       PROVE  ManagerSettles(m)'
  <2>1. ServedPlace(m)'
    BY <1>7, <1>8, <1>13 DEF ManagerSettles, ServedPlace
  <2>2. \A a \in Assets : Said(m, a)' <=> Said(m, a)
    BY <1>13 DEF Said
  <2>3. Synced(m)' => Synced(m)
    BY <1>2, <1>13 DEF Synced
  <2> QED BY <1>11, <1>13, <2>1, <2>2, <2>3
<1>14. ASSUME Dial(m, Cancelled(m)) \/ DialCancelled(m, Cancelled(m)) \/ DialFails(m)
       PROVE  ManagerSettles(m)'
  <2>1. /\ conn[m] \in {"spawned", "backoff", "dialing"}
        /\ UNCHANGED <<requests, served, mute>>
        /\ Goto(m, "closed") \/ Goto(m, "dialing") \/ Goto(m, "backoff")
    BY <1>14 DEF Dial, DialCancelled, DialFails
  <2>2. conn'[m] \notin {"connected", "absent"} /\ changed'[m]
    BY <1>3, <2>1 DEF Goto
  <2> QED BY <1>13, <2>1, <2>2
<1>15. ASSUME DialSucceeds(m) PROVE ManagerSettles(m)'
  <2>1. /\ conn[m] = "dialing" /\ conn'[m] = "connected" /\ changed'[m]
        /\ served'[m] = {} /\ requests' = requests /\ mute' = mute
    BY <1>3, <1>15 DEF DialSucceeds, Goto, Forget
  <2>2. ServedPlace(m)'
    BY <2>1 DEF ServedPlace
  <2>3. \A a \in Assets : Said(m, a)' => Said(m, a)
    BY <1>12, <2>1 DEF Said
  <2>4. channel = m => served[m] = {}
    BY <1>7, <1>8, <2>1 DEF ManagerSettles, ServedPlace
  <2>5. channel = m => \A a \in Assets : Said(m, a) => Said(m, a)'
    BY <2>1, <2>4 DEF Said
  <2>6. Synced(m)' => Synced(m)
    BY <1>2, <2>1 DEF Synced
  <2> QED BY <1>11, <2>1, <2>2, <2>3, <2>5, <2>6
<1>16. ASSUME WriteFrame(m) PROVE ManagerSettles(m)'
  <2>1. /\ conn[m] = "connected" /\ requests[m] # <<>>
        /\ served'[m] = IF mute[m] THEN served[m] ELSE Apply(served[m], Head(requests[m]))
        /\ requests'[m] = Tail(requests[m])
        /\ UNCHANGED <<conn, mute, changed>>
    BY <1>3, <1>16 DEF WriteFrame
  <2>2. mute[m] => served[m] = {}
    BY <1>7 DEF ManagerSettles, ServedPlace
  <2>3. ServedPlace(m)'
    BY <2>1, <2>2 DEF ServedPlace
  <2>4. CASE mute[m]
    <3>1. \A a \in Assets : Said(m, a)' => Said(m, a)
      BY <1>12, <2>1, <2>2, <2>4 DEF Said
    <3>2. ~Synced(m)'
      BY <2>1, <2>4 DEF Synced
    <3> QED BY <1>11, <2>1, <2>3, <3>1, <3>2
  <2>5. CASE ~mute[m]
    <3>1. \A a \in Assets : Said(m, a)' <=> Said(m, a)
      BY <1>12, <2>1, <2>5 DEF Said
    <3>2. Synced(m)' => Synced(m)
      BY <1>2, <2>1 DEF Synced
    <3> QED BY <1>11, <2>1, <2>3, <3>1, <3>2
  <2> QED BY <2>4, <2>5
<1>17. ASSUME CloseDrained(m, Cancelled(m)) \/ SocketEnds(m, Cancelled(m)) \/ WriteFails(m)
       PROVE  ManagerSettles(m)'
  <2>1. /\ conn[m] = "connected" /\ conn'[m] = "backoff" /\ changed'[m] /\ ~mute'[m]
    BY <1>3, <1>17 DEF CloseDrained, SocketEnds, WriteFails, LeaveSocket, Goto
  <2>2. \/ served'[m] = {}
        \/ served' = served /\ requests' = requests /\ requests[m] = <<>> /\ Cancelled(m)
    BY <1>3, <1>17 DEF CloseDrained, SocketEnds, WriteFails, Forget
  <2>3. \/ requests' = requests
        \/ served'[m] = {} /\ requests[m] # <<>> /\ requests'[m] = Tail(requests[m])
    BY <1>3, <1>17 DEF CloseDrained, SocketEnds, WriteFails, Forget
  <2>4. ServedPlace(m)'
    BY <1>8, <2>1, <2>2 DEF ServedPlace
  <2>5. \A a \in Assets : Said(m, a)' => Said(m, a)
    BY <1>12, <2>2, <2>3 DEF Said
  <2>6. channel = m => ~Synced(m)'
    BY <1>2, <1>9, <2>1 DEF Synced
  <2> QED BY <1>11, <2>1, <2>4, <2>5, <2>6
<1>18. ASSUME GoMute(m) PROVE ManagerSettles(m)'
  <2>1. /\ conn[m] = "connected" /\ served'[m] = {} /\ mute'[m]
        /\ UNCHANGED <<conn, requests, changed>>
    BY <1>3, <1>18 DEF GoMute, Forget
  <2>2. ServedPlace(m)'
    BY <2>1 DEF ServedPlace
  <2>3. \A a \in Assets : Said(m, a)' => Said(m, a)
    BY <1>12, <2>1 DEF Said
  <2>4. ~Synced(m)'
    BY <2>1 DEF Synced
  <2> QED BY <1>11, <2>1, <2>2, <2>3, <2>4
<1>19. ASSUME HeartbeatEnds(m) PROVE ManagerSettles(m)'
  <2>1. UNCHANGED <<conn, requests, served, mute, changed>>
    BY <1>19 DEF HeartbeatEnds
  <2> QED BY <1>0, <1>1, <1>2, <1>4, <1>7, <2>1, ManagerCarries
<1>20. ManagerSettles(m)'
  BY <1>1, <1>14, <1>15, <1>16, <1>17, <1>18, <1>19 DEF LoopStep, Network
<1> QED BY <1>5, <1>6, <1>20 DEF AllSettle

-----------------------------------------------------------------------------
(* All steps.                                                              *)

LEMMA ShutdownSettles ==
  ASSUME IInv, ~Threaded, Alone, AllSettle,
         BeginShutdown \/ ShutdownReturns \/ UNCHANGED marketvars
  PROVE  Alone' /\ AllSettle'
<1>0. [MarketNext]_marketvars
  BY DEF MarketNext
<1>1. /\ UNCHANGED <<requests, served, mute, was, changed, conn, handler, resend, call, counts>>
      /\ ordered \subseteq ordered'
      /\ \/ channel' = channel
         \/ channel' = 0 /\ Quiet
  BY DEF BeginShutdown, ShutdownReturns, Free, marketvars, socketvars, clientvars
<1>2. \A n \in Managers, a \in Assets : Wanted(n, a)' <=> Wanted(n, a)
  BY <1>1 DEF Wanted, Unsaid, Tracked
<1>3. Alone'
  <2>1. Tracked(channel)' = Tracked(channel')
    BY <1>1 DEF Tracked
  <2>2. CASE channel' = channel
    BY <1>1, <2>1, <2>2 DEF Alone, Tracked
  <2>3. CASE Quiet
    BY <1>1, <2>3 DEF Quiet, Alone
  <2> QED BY <1>1, <2>2, <2>3
<1>4. ASSUME NEW n \in Managers PROVE ManagerSettles(n)'
  <2>1. channel' = n => channel = n
    BY <1>1, ManagersAreNumbers
  <2>2. handler[n] = "sending" =>
           /\ Tracked(n)' = Tracked(n)
           /\ channel = n \/ n \in ordered => channel' = n \/ n \in ordered'
    BY <1>1 DEF Tracked, Quiet
  <2> QED BY <1>0, <1>1, <1>2, <2>1, <2>2, ManagerCarries DEF AllSettle
<1> QED BY <1>3, <1>4 DEF AllSettle

LEMMA SettleInit == MarketInit => SettleInv
<1> SUFFICES ASSUME MarketInit PROVE Alone /\ AllSettle
  BY DEF SettleInv
<1>1. /\ \A c \in Callers : call[c] = NoCall
      /\ channel = 0
      /\ \A m \in Managers : /\ conn[m] = "absent" /\ requests[m] = <<>> /\ served[m] = {}
                             /\ ~mute[m] /\ ~was[m] /\ handler[m] = "absent"
                             /\ m # 0
  BY ManagersAreNumbers DEF MarketInit, SocketInit
<1>2. Alone
  BY <1>1 DEF Alone
<1>3. ASSUME NEW m \in Managers PROVE ManagerSettles(m)
  <2>1. \A a \in Assets : ~Said(m, a)
    BY <1>1, ToldNow DEF Said
  <2> QED BY <1>1, <2>1 DEF ManagerSettles, HandlerPlace, ServedPlace, SaysWanted
<1> QED BY <1>2, <1>3 DEF AllSettle

LEMMA SettleStep == IInv /\ SettleInv /\ [MarketNext]_marketvars => SettleInv'
<1> SUFFICES ASSUME IInv, SettleInv, [MarketNext]_marketvars, ~Threaded'
             PROVE  Alone' /\ AllSettle'
  BY DEF SettleInv
<1>1. runtime' = runtime
  BY DEF MarketNext, StartSubscribe, StartUnsubscribe, CallStep, CountUp, FinishSubscribe,
     CountDown, SendUnsubscribe, CleanUp, HandlerStep, HandlerStarts, HandlerObserves,
     HandlerResends, HandlerCancelled, ConnectionStep, Background, BeginShutdown,
     ShutdownReturns, clientvars, marketvars
<1>2. ~Threaded /\ Alone /\ AllSettle
  BY <1>1 DEF Threaded, SettleInv
<1>3. ASSUME NEW c \in Callers, StartSubscribe(c) \/ StartUnsubscribe(c) \/ CallStep(c)
      PROVE  Alone' /\ AllSettle'
  BY <1>2, <1>3, StartSubscribeSettles, StartUnsubscribeSettles, CountUpSettles,
     FinishSubscribeSettles, CountDownSettles, SendUnsubscribeSettles, CleanUpSettles
     DEF CallStep
<1>4. ASSUME NEW m \in Managers, HandlerStep(m) \/ ConnectionStep(m) \/ Background(m)
      PROVE  Alone' /\ AllSettle'
  BY <1>2, <1>4, HandlerSettles, ConnectionSettles
<1> QED BY <1>2, <1>3, <1>4, ShutdownSettles DEF MarketNext

(* On a current-thread runtime, whatever sockets were lost and whatever    *)
(* was subscribed and unsubscribed in between, a peer that has read        *)
(* everything serves exactly what is counted.                              *)
THEOREM SettledPeersAreExact == MarketSpec => []SettledExact
<1>1. MarketInit => IInv /\ SettleInv
  BY Initially, SettleInit
<1>2. IInv /\ SettleInv /\ [MarketNext]_marketvars => IInv' /\ SettleInv'
  BY StepKeeps, SettleStep
<1>3. ASSUME IInv, SettleInv PROVE SettledExact
  <2> SUFFICES ASSUME ~Threaded, NEW m \in Managers, Settled(m)
               PROVE  served[m] = Tracked(m)
    BY DEF SettledExact
  <2>1. Synced(m) /\ channel = m /\ requests[m] = <<>> /\ \A c \in Callers : call[c] = NoCall
    BY DEF Settled, Synced, Quiet
  <2>2. SaysWanted(m)
    BY <1>3 DEF SettleInv, AllSettle, ManagerSettles
  <2>3. \A a \in Assets : Said(m, a) <=> Wanted(m, a)
    BY <2>1, <2>2 DEF SaysWanted
  <2>4. \A a \in Assets : (Said(m, a) <=> a \in served[m]) /\ (Wanted(m, a) <=> a \in Tracked(m))
    BY <2>1, ToldNow, QuietWants DEF Said
  <2>5. served[m] \subseteq Assets /\ Tracked(m) \subseteq Assets
    BY <1>3 DEF IInv, MarketTypeOK, Tracked
  <2> QED BY <2>3, <2>4, <2>5
<1> QED BY <1>1, <1>2, <1>3, PTL DEF MarketSpec

(* A peer whose loop has ended serves nothing that was unsubscribed: a     *)
(* cancelled loop leaves its socket only when it has said everything, and  *)
(* any other end of a socket makes the peer forget.                        *)
THEOREM ClosedPeersServeNoMore == MarketSpec => []UnsubscribedBeforeClose
<1>1. MarketInit => IInv /\ SettleInv
  BY Initially, SettleInit
<1>2. IInv /\ SettleInv /\ [MarketNext]_marketvars => IInv' /\ SettleInv'
  BY StepKeeps, SettleStep
<1>3. ASSUME IInv, SettleInv PROVE UnsubscribedBeforeClose
  <2> SUFFICES ASSUME ~Threaded, NEW m \in Managers, conn[m] = "closed", Quiet
               PROVE  served[m] \subseteq Tracked(m)
    BY DEF UnsubscribedBeforeClose
  <2>1. SaysWanted(m) /\ ServedPlace(m)
    BY <1>3 DEF SettleInv, AllSettle, ManagerSettles
  <2>2. CASE served[m] = {}
    BY <2>2
  <2>3. CASE requests[m] = <<>>
    <3>1. \A a \in Assets : Said(m, a) <=> a \in served[m]
      BY <2>3, ToldNow DEF Said
    <3>2. \A a \in Assets : Wanted(m, a) <=> a \in Tracked(m)
      BY QuietWants DEF Quiet
    <3>3. served[m] \subseteq Assets
      BY <1>3 DEF IInv, MarketTypeOK
    <3> QED BY <2>1, <3>1, <3>2, <3>3 DEF SaysWanted
  <2> QED BY <2>1, <2>2, <2>3 DEF ServedPlace
<1> QED BY <1>1, <1>2, <1>3, PTL DEF MarketSpec

=============================================================================

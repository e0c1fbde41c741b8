---------------------------- MODULE FeeSchedules ----------------------------
(***************************************************************************)
(* The fee metadata client (rspm, clob/fee_metadata.rs): a read-through    *)
(* cache of fee schedules by outcome token, shared by concurrent readers   *)
(* and never invalidated.  A miss takes two requests, the market of the    *)
(* token and the fee details of that market, and fills both tokens of the  *)
(* market under one write lock.                                            *)
(*                                                                         *)
(* The venue may change a schedule at any time, and an answer may be the   *)
(* record of another market.  A schedule stands for rate, exponent and     *)
(* taker_only; an invalid one fails like an answer that does not decode.   *)
(***************************************************************************)
EXTENDS Naturals, FiniteSets

CONSTANTS
    Markets,       \* conditions
    Tokens,        \* outcome tokens
    TokensOf,      \* the primary and the secondary token of each market
    Schedules,
    Readers,       \* concurrent calls of platform_fee_schedule
    PublishMax     \* schedules a venue publishes after the first (model bound)

ASSUME FeesAssumption ==
    /\ TokensOf \in [Markets -> SUBSET Tokens]
    /\ \A m, n \in Markets : m # n => TokensOf[m] \cap TokensOf[n] = {}
    /\ \A m \in Markets : Cardinality(TokensOf[m]) = 2
    /\ PublishMax \in Nat

VARIABLES
    published,     \* the schedules each market has had
    current,       \* the schedule of each market now
    schedules,     \* the cache; partial, by token
    reader,        \* the call each reader is in
    publications   \* schedules published after the first

feevars == <<published, current, schedules, reader, publications>>

(* Where a call is, its token, the market its first answer named, and the  *)
(* answer it is about to store or has returned.                            *)
Idle == [at |-> "idle"]

Cached == DOMAIN schedules

FeesInit ==
    /\ current \in [Markets -> Schedules]
    /\ published = [m \in Markets |-> {current[m]}]
    /\ schedules = [t \in {} |-> current]
    /\ reader = [r \in Readers |-> Idle]
    /\ publications = 0

Move(r, to) == reader' = [reader EXCEPT ![r] = to]

-----------------------------------------------------------------------------

(* platform_fee_schedule: a hit returns at once.                           *)
StartRead(r) ==
    /\ reader[r].at \in {"idle", "returned"}
    /\ \E t \in Tokens :
          Move(r, IF t \in Cached
                  THEN [at |-> "returned", token |-> t, schedule |-> schedules[t]]
                  ELSE [at |-> "resolving", token |-> t])
    /\ UNCHANGED <<published, current, schedules, publications>>

(* markets-by-token: the market must have the token.                       *)
MarketAnswered(r) ==
    /\ reader[r].at = "resolving"
    /\ \E m \in Markets :
          Move(r, IF reader[r].token \in TokensOf[m]
                  THEN [at |-> "detailing", token |-> reader[r].token, market |-> m]
                  ELSE Idle)
    /\ UNCHANGED <<published, current, schedules, publications>>

(* clob-markets: an answer with another condition, or other than exactly   *)
(* the two tokens of the market, is refused.                               *)
TokenLists == {T \in SUBSET Tokens : Cardinality(T) <= 2}

SameMarket(r, m, T) == m = reader[r].market /\ T = TokensOf[reader[r].market]

DetailsAnswered(r) ==
    /\ reader[r].at = "detailing"
    /\ \E m \in Markets, T \in TokenLists :
          Move(r, IF SameMarket(r, m, T)
                  THEN [at |-> "storing", token |-> reader[r].token, market |-> m,
                        schedule |-> current[m]]
                  ELSE Idle)
    /\ UNCHANGED <<published, current, schedules, publications>>

(* Variant: the token that was asked for is the only one stored.           *)
StoreRequested(r) ==
    /\ reader[r].at = "storing"
    /\ schedules' = [t \in Cached \cup {reader[r].token} |->
                        IF t = reader[r].token THEN reader[r].schedule ELSE schedules[t]]
    /\ Move(r, [at |-> "returned", token |-> reader[r].token, schedule |-> reader[r].schedule])
    /\ UNCHANGED <<published, current, publications>>

(* Both tokens, under one write lock; an entry already there is replaced.  *)
Store(r) ==
    /\ reader[r].at = "storing"
    /\ LET both == TokensOf[reader[r].market]
       IN  schedules' = [t \in Cached \cup both |->
                            IF t \in both THEN reader[r].schedule ELSE schedules[t]]
    /\ Move(r, [at |-> "returned", token |-> reader[r].token, schedule |-> reader[r].schedule])
    /\ UNCHANGED <<published, current, publications>>

(* A request fails, does not decode, or the caller drops the call.         *)
ReadFails(r) ==
    /\ reader[r].at \in {"resolving", "detailing", "storing"}
    /\ Move(r, Idle)
    /\ UNCHANGED <<published, current, schedules, publications>>

(* The venue.                                                              *)
Publish(m) ==
    /\ publications < PublishMax
    /\ publications' = publications + 1
    /\ \E s \in Schedules \ {current[m]} :
          /\ current' = [current EXCEPT ![m] = s]
          /\ published' = [published EXCEPT ![m] = @ \cup {s}]
    /\ UNCHANGED <<schedules, reader>>

FeesNext ==
    \/ \E r \in Readers :
          StartRead(r) \/ MarketAnswered(r) \/ DetailsAnswered(r) \/ Store(r) \/ ReadFails(r)
    \/ \E m \in Markets : Publish(m)

FeesSpec == FeesInit /\ [][FeesNext]_feevars

-----------------------------------------------------------------------------
(* Properties.                                                             *)

(* The two tokens of a market never disagree about its fees, whatever      *)
(* readers overlap and however often the venue changed them in between,    *)
(* and what is cached or returned was published for that very market       *)
(* (platform_fee_schedule: its checks, and the insertion under one lock).  *)
SchedulesAreTheMarkets ==
    /\ \A m \in Markets : TokensOf[m] \cap Cached # {} =>
          /\ TokensOf[m] \subseteq Cached
          /\ \E s \in published[m] : \A t \in TokensOf[m] : schedules[t] = s
    /\ \A r \in Readers : reader[r].at = "returned" =>
          \E m \in Markets : reader[r].token \in TokensOf[m]
                              /\ reader[r].schedule \in published[m]

=============================================================================

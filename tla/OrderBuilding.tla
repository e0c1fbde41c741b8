--------------------------- MODULE OrderBuilding ---------------------------
(***************************************************************************)
(* The order builder of the patched SDK (clob/order_builder.rs): from a    *)
(* request, the book and the tick size to the two integer amounts that are *)
(* signed, with the tick-size cache of the client between them.            *)
(*                                                                         *)
(* Units.  Prices are integers in their finest steps, PriceOne to the      *)
(* dollar; amounts are integers in steps of 10^-USDC_DECIMALS; fee rates   *)
(* in steps of 1 / RateOne.  The scale a Decimal was written with is its   *)
(* grain: the step 10^-scale, so a finer scale is a grain that divides.    *)
(* Of the f64 powf of the fee curve, which is kept to 15 digits, and of    *)
(* Decimal's 28 digits, what counts is the error they leave in an amount:  *)
(* a truncation may fall on either side where the quotient is that close.  *)
(***************************************************************************)
EXTENDS Integers, Sequences, FiniteSets

CONSTANTS
    PriceOne,        \* one dollar, in steps of a price
    LotGrain,        \* the grain of LOT_SIZE_SCALE
    Ticks,           \* tick sizes, with their grain
    LimitRequests, MarketRequests,
    Books,           \* asks and bids, levels worst first
    Fees,            \* rate, exponent and builder taker fee
    RateOne,         \* a fee of the whole, in steps of a rate
    Precision,       \* the fees are known to 1 / Precision of a unit of USDC
    RetickMax        \* changes of the tick size (model bound)

Positive == Nat \ {0}

(* The decimals of a tick size and LOT_SIZE_SCALE fit in USDC_DECIMALS.    *)
TickSound(t) ==
    /\ t.size \in Positive /\ t.grain \in Positive
    /\ t.size % t.grain = 0
    /\ (LotGrain * t.grain) % PriceOne = 0

(* A number is a multiple of the grain it was written with.  Amount::shares*)
(* refuses one finer than a lot, but neither it nor Amount::usdc a sign.   *)
LimitSound(r) ==
    /\ r.kind = "limit" /\ r.side \in {"Buy", "Sell"}
    /\ r.price \in Nat /\ r.priceGrain \in Positive
    /\ r.size \in Int /\ r.sizeGrain \in Positive
    /\ r.size % r.sizeGrain = 0

MarketSound(r) ==
    /\ r.kind = "market" /\ r.side \in {"Buy", "Sell"} /\ r.unit \in {"usdc", "shares"}
    /\ r.price \in Nat /\ r.amount \in Int /\ r.balance \in Int
    /\ r.unit = "shares" => r.amount % LotGrain = 0

(* The wire delivers the worst level first (utilities.rs:21).              *)
LevelsSound(levels, Worse(_, _)) ==
    /\ levels \in Seq([price : Nat, size : Nat])
    /\ \A i, j \in DOMAIN levels :
          i <= j => levels[i].price = levels[j].price \/ Worse(levels[i].price, levels[j].price)

BookSound(book) == LevelsSound(book.asks, >) /\ LevelsSound(book.bids, <)

ASSUME BuildingAssumption ==
    /\ PriceOne \in Positive /\ LotGrain \in Positive /\ RetickMax \in Nat
    /\ \A t \in Ticks : TickSound(t)
    /\ \A r \in LimitRequests : LimitSound(r)
    /\ \A r \in MarketRequests : MarketSound(r)
    /\ \A book \in Books : BookSound(book)
    /\ RateOne \in Positive /\ Precision \in 3 .. RateOne
    /\ \A fee \in Fees : {fee.rate, fee.exponent, fee.builder} \subseteq Nat

VARIABLES
    tick_size,       \* of the token, at the venue
    tick_cached,     \* tick_sizes of the client: none or one
    order,           \* the order being built
    reticks          \* changes so far

ordervars == <<tick_size, tick_cached, order, reticks>>

NoTick == [size |-> 0, grain |-> 0]
NoOrder == [at |-> "idle"]
NoFee == [rate |-> 0, exponent |-> 0, builder |-> 0]

OrdersInit ==
    /\ tick_size \in Ticks
    /\ tick_cached = {}
    /\ order = NoOrder
    /\ reticks = 0

-----------------------------------------------------------------------------
(* Decimals.                                                               *)

(* trunc_with_scale of a price, and of an amount at the tick's decimals    *)
(* and LOT_SIZE_SCALE; to_fixed_u128 keeps nothing finer than one.         *)
Trunc(a, grain) == a - (a % grain)
Quotient(a, b) == IF a < 0 THEN -((-a) \div b) ELSE a \div b

AmountGrain(tick) ==
    IF LotGrain * tick.grain < PriceOne THEN 1 ELSE (LotGrain * tick.grain) \div PriceOne

Times(a, p, tick) == Trunc((a * p) \div PriceOne, AmountGrain(tick))
Over(a, p, tick) == Trunc((a * PriceOne) \div p, AmountGrain(tick))

(* The range and the grid of a tick size.                                  *)
OnGrid(p, tick) ==
    /\ tick.size <= p /\ p <= PriceOne - tick.size
    /\ p % tick.size = 0

-----------------------------------------------------------------------------
(* calculate_price and walk_levels.                                        *)

Worth(level, unit) == level.size * (IF unit = "usdc" THEN level.price ELSE PriceOne)

(* w[1] + ... + w[k].                                                      *)
SumTo(w, n) ==
    LET sum[k \in 0 .. n] == IF k = 0 THEN 0 ELSE sum[k - 1] + w[k]
    IN  sum

(* What the levels from i on hold together; the last is the best.          *)
(* (Variant: from the worst on, as the wire delivers them.)                *)
DepthFromWorst(levels, unit, i) ==
    SumTo([k \in DOMAIN levels |-> Worth(levels[k], unit)], Len(levels))[i]

Depth(levels, unit, i) ==
    LET n == Len(levels)
    IN  SumTo([k \in 1 .. n |-> Worth(levels[n + 1 - k], unit)], n)[n + 1 - i]

Opposite(book, side) == IF side = "Buy" THEN book.asks ELSE book.bids

(* The possible cutoff prices: one, or none.                               *)
Cutoff(levels, r) ==
    LET enough == {i \in DOMAIN levels :
                      Depth(levels, r.unit, i) >= r.amount * PriceOne}
    IN  IF enough # {}
        THEN {levels[CHOOSE i \in enough : \A j \in enough : j <= i].price}
        ELSE IF levels = <<>> \/ r.type = "FOK" THEN {} ELSE {levels[1].price}

-----------------------------------------------------------------------------
(* adjust_market_buy_amount.  The fees per USDC at price p are the quotient*)
(* of FeePart and FeeWhole: platform_fee_rate / price + builder.           *)

Power(b, n) ==
    LET power[k \in 0 .. n] == IF k = 0 THEN 1 ELSE power[k - 1] * b
    IN  power[n]

FeeWhole(fee, p) ==
    RateOne * (IF fee.exponent = 0 THEN p ELSE Power(PriceOne, 2 * fee.exponent - 1))

FeePart(fee, p) ==
    fee.rate * (IF fee.exponent = 0 THEN PriceOne
                ELSE Power(p, fee.exponent - 1) * Power(PriceOne - p, fee.exponent))
    + fee.builder * (FeeWhole(fee, p) \div RateOne)

UnitCost(fee, p) == FeeWhole(fee, p) + FeePart(fee, p)
Cost(a, fee, p) == a * UnitCost(fee, p)

(* How far the code's rounded costs and quotients may be from these.       *)
Slack(fee, p) == IF FeePart(fee, p) = 0 THEN 0 ELSE UnitCost(fee, p) \div Precision

(* What a quotient known to within slack / b may be truncated to.          *)
Rounded(a, b, slack) == {Quotient(a + e, b) : e \in {-slack, 0, slack}}

(* A balance within the slack of the cost may be taken for either.         *)
Tight(r, fee, p) ==
    r.balance * FeeWhole(fee, p) <= Cost(r.amount, fee, p) + Slack(fee, p)
Ample(r, fee, p) ==
    r.balance * FeeWhole(fee, p) > Cost(r.amount, fee, p) - Slack(fee, p)

(* Variant: the fee is taken from the balance, not added to the amount.    *)
AdjustedLess(r, fee, p) ==
    {m \in Rounded(r.balance * (FeeWhole(fee, p) - FeePart(fee, p)), FeeWhole(fee, p),
                   Slack(fee, p)) : Tight(r, fee, p)}
    \cup {m \in {r.amount} : Ample(r, fee, p)}

(* The amounts the code may come to: one, except at a boundary.            *)
Adjusted(r, fee, p) ==
    {m \in Rounded(r.balance * FeeWhole(fee, p), UnitCost(fee, p), Slack(fee, p)) :
        Tight(r, fee, p)}
    \cup {m \in {r.amount} : Ample(r, fee, p)}

Shrinks(r) == r.kind = "market" /\ r.side = "Buy" /\ r.unit = "usdc" /\ r.limited

-----------------------------------------------------------------------------
(* One order.                                                              *)

(* Limit orders and priced market orders go on to the tick size.           *)
Begin ==
    /\ order = NoOrder
    /\ \E r \in LimitRequests \cup MarketRequests :
          order' = [at |-> IF r.kind = "limit" \/ r.price > 0 THEN "pricing" ELSE "booking",
                    request |-> r, price |-> r.price, tick |-> NoTick,
                    levels |-> <<>>, quoted |-> NoTick]
    /\ UNCHANGED <<tick_size, tick_cached, reticks>>

Clear == order' = NoOrder

(* The book comes first, then the checks.  The venue quotes on its grid.   *)
ReadBook ==
    /\ order.at = "booking"
    /\ \E book \in Books :
          LET r == order.request
              levels == Opposite(book, r.side)
          IN  /\ \A i \in DOMAIN levels : OnGrid(levels[i].price, tick_size)
              /\ IF /\ r.type \in {"FAK", "FOK"}
                    /\ r.side = "Buy" \/ r.unit = "shares"
                    /\ Cutoff(levels, r) # {}
                 THEN \E p \in Cutoff(levels, r) :
                         order' = [order EXCEPT !.at = "pricing", !.price = p,
                                     !.levels = levels, !.quoted = tick_size]
                 ELSE Clear
    /\ UNCHANGED <<tick_size, tick_cached, reticks>>

(* tick_size: a hit, or a request whose answer is cached when it arrives.  *)
TickHit ==
    /\ order.at = "pricing"
    /\ \E tick \in tick_cached :
          order' = [order EXCEPT !.at = "sizing", !.tick = tick]
    /\ UNCHANGED <<tick_size, tick_cached, reticks>>

TickAnswered ==
    /\ order.at = "pricing"
    /\ tick_cached = {}
    /\ order' = [order EXCEPT !.at = "arriving", !.tick = tick_size]
    /\ UNCHANGED <<tick_size, tick_cached, reticks>>

TickArrives ==
    /\ order.at = "arriving"
    /\ order' = [order EXCEPT !.at = "sizing"]
    /\ tick_cached' = {order.tick}
    /\ UNCHANGED <<tick_size, reticks>>

Sized(maker, taker, price, fee) ==
    order' = [at |-> "built", request |-> order.request, price |-> price,
              tick |-> order.tick, levels |-> order.levels, quoted |-> order.quoted,
              fee |-> fee, maker |-> maker, taker |-> taker]

(* OrderBuilder<Limit>::build.                                             *)
LimitAccepts(r, tick) ==
    /\ r.priceGrain % tick.grain = 0
    /\ OnGrid(r.price, tick)
    /\ r.sizeGrain % LotGrain = 0
    /\ r.size > 0
    /\ r.expires => r.type = "GTD"
    /\ r.postOnly => r.type \in {"GTC", "GTD"}

BuildLimit ==
    /\ order.at = "sizing"
    /\ order.request.kind = "limit"
    /\ LET r == order.request
           usdc == Times(r.size, r.price, order.tick)
       IN  IF LimitAccepts(r, order.tick)
           THEN IF r.side = "Buy" THEN Sized(usdc, r.size, r.price, NoFee)
                                  ELSE Sized(r.size, usdc, r.price, NoFee)
           ELSE Clear
    /\ UNCHANGED <<tick_size, tick_cached, reticks>>

(* OrderBuilder<Market>::build after the tick size: the price is truncated *)
(* to it, and a purchase for USDC with a balance is shrunk by its fees.    *)
(* The conversion of a negative amount to u128 panics.                     *)
BuildMarket ==
    /\ order.at = "sizing"
    /\ order.request.kind = "market"
    /\ LET r == order.request
           tick == order.tick
           price == Trunc(order.price, tick.grain)
       IN  \/ ~OnGrid(price, tick) /\ Clear
           \/ /\ OnGrid(price, tick)
              /\ \E fee \in Fees :
                   \E amount \in IF Shrinks(r) THEN Adjusted(r, fee, price) ELSE {r.amount} :
                     CASE \/ Shrinks(r) /\ amount = 0
                          \/ r.side = "Sell" /\ r.unit = "usdc" -> Clear
                       [] OTHER ->
                            IF amount < 0 THEN order' = [at |-> "panicked"]
                            ELSE CASE r.unit = "usdc" ->
                                        Sized(amount, Over(amount, price, tick), price, fee)
                                   [] r.unit = "shares" /\ r.side = "Buy" ->
                                        Sized(Times(amount, price, tick), amount, price, fee)
                                   [] r.unit = "shares" /\ r.side = "Sell" ->
                                        Sized(amount, Times(amount, price, tick), price, fee)
    /\ UNCHANGED <<tick_size, tick_cached, reticks>>

(* A request fails, or the caller drops the call.                          *)
BuildFails ==
    /\ order.at \in {"booking", "pricing", "arriving", "sizing"}
    /\ Clear
    /\ UNCHANGED <<tick_size, tick_cached, reticks>>

(* The order is signed and posted, or dropped; a panic ends the call.      *)
HandOver ==
    /\ order.at \in {"built", "panicked"}
    /\ Clear
    /\ UNCHANGED <<tick_size, tick_cached, reticks>>

(* invalidate_internal_caches, as far as tick sizes go.                    *)
Invalidate ==
    /\ tick_cached' = {}
    /\ UNCHANGED <<tick_size, order, reticks>>

Retick ==
    /\ reticks < RetickMax
    /\ reticks' = reticks + 1
    /\ tick_size' \in Ticks
    /\ UNCHANGED <<tick_cached, order>>

OrdersNext ==
    \/ Begin \/ ReadBook \/ TickHit \/ TickAnswered \/ TickArrives
    \/ BuildLimit \/ BuildMarket \/ BuildFails \/ HandOver
    \/ Invalidate \/ Retick

OrdersSpec == OrdersInit /\ [][OrdersNext]_ordervars

-----------------------------------------------------------------------------
(* Properties.                                                             *)

Shares(o) == IF o.request.side = "Buy" THEN o.taker ELSE o.maker
Dollars(o) == IF o.request.side = "Buy" THEN o.maker ELSE o.taker

(* The two integers that are signed stand for the price, exactly, or by a  *)
(* fraction of a share in favour of the fill for a purchase in USDC.       *)
AmountsMean(o) ==
    IF o.request.side = "Buy" /\ o.request.kind = "market" /\ o.request.unit = "usdc"
    THEN Dollars(o) * PriceOne >= Shares(o) * o.price
    ELSE /\ Dollars(o) * PriceOne = Shares(o) * o.price
         /\ Shares(o) > 0 => Dollars(o) > 0

(* Together, the levels that satisfy Good hold the target.                 *)
HoldTarget(o, Good(_)) ==
    LET worth == [i \in DOMAIN o.levels |->
                     IF Good(o.levels[i].price) THEN Worth(o.levels[i], o.request.unit)
                                                ELSE 0]
    IN  SumTo(worth, Len(o.levels))[Len(o.levels)] >= o.request.amount * PriceOne

(* The prices that are cut off to the price of an order at its tick size:  *)
(* itself, where the book was quoted in a tick size no finer.              *)
CutFrom(o) ==
    {found \in o.price .. o.price + o.tick.grain - 1 :
        o.quoted.grain % o.tick.grain = 0 => found = o.price}

(* An order says what was asked: a limit order its own size at its own     *)
(* price; a market order priced from the book the worst price it needs.    *)
(* The levels strictly better do not hold the target, and those at least   *)
(* as good hold it, or are the whole side and the order may fill in part.  *)
(* When the tick size cached is not the one the book was quoted in, the    *)
(* price signed is cut off by less than a step of it, and never raised.    *)
(* Of nothing, the best level is too much (order_builder.rs, walk_levels). *)
OrdersMeetTheirPrice ==
    order.at = "built" =>
        /\ AmountsMean(order)
        /\ order.request.kind = "limit" =>
              Shares(order) = order.request.size /\ order.price = order.request.price
        /\ (order.levels # <<>> /\ order.request.amount > 0) =>
              \E found \in CutFrom(order) :
                LET Better(p) == IF order.request.side = "Buy" THEN p < found ELSE p > found
                    AsGood(p) == p = found \/ Better(p)
                IN  /\ ~HoldTarget(order, Better)
                    /\ \/ HoldTarget(order, AsGood)
                       \/ /\ \A i \in DOMAIN order.levels : AsGood(order.levels[i].price)
                          /\ order.request.type # "FOK"

(* A purchase with a balance spends, with the fees at its price, at most   *)
(* the balance, and not a unit less than it could unless it spends all     *)
(* that was asked (adjust_market_buy_amount).  Both hold up to the Slack   *)
(* of the fees: a balance that buys an amount to the last step may buy a   *)
(* unit less in the code, and one short of it by less, the amount.         *)
WithinBalance ==
    (order.at = "built" /\ Shrinks(order.request)) =>
        LET whole == order.request.balance * FeeWhole(order.fee, order.price)
            slack == Slack(order.fee, order.price)
        IN  /\ Cost(order.maker, order.fee, order.price) <= whole + slack
            /\ order.maker <= order.request.amount
            /\ \/ order.maker = order.request.amount
               \/ Cost(order.maker + 1, order.fee, order.price) > whole - slack

=============================================================================

---------------------------- MODULE MCClobClient ----------------------------
(* Model checking of the three parts of the REST client that keep state:   *)
(* positions, fee schedules, order amounts.  They share none, so one       *)
(* instance runs one of them (focus) and leaves the others at rest.        *)
EXTENDS PositionPages, FeeSchedules, OrderBuilding, TLC

CONSTANTS m1, m2, t1, t2, u1, u2

VARIABLE focus

clientvars == <<pagevars, feevars, ordervars, focus>>

MCTokensOf == (m1 :> {t1, t2}) @@ (m2 :> {u1, u2})

MCTicks == {[size |-> 10, grain |-> 10], [size |-> 5, grain |-> 1], [size |-> 1, grain |-> 1]}

MCLimitRequests ==
    {[kind |-> "limit", side |-> side, price |-> p.price, priceGrain |-> p.grain,
      size |-> z.size, sizeGrain |-> z.grain, type |-> k.type, expires |-> k.expires,
      postOnly |-> k.postOnly] :
        side \in {"Buy", "Sell"},
        p \in {[price |-> 50, grain |-> 10], [price |-> 50, grain |-> 1],
               [price |-> 53, grain |-> 1], [price |-> 99, grain |-> 1],
               [price |-> 100, grain |-> 1]},
        z \in {[size |-> 0, grain |-> 10000], [size |-> 10100, grain |-> 100],
               [size |-> 10150, grain |-> 10]},
        k \in {[type |-> "GTC", expires |-> FALSE, postOnly |-> TRUE],
               [type |-> "GTD", expires |-> TRUE, postOnly |-> FALSE],
               [type |-> "GTC", expires |-> TRUE, postOnly |-> FALSE],
               [type |-> "FAK", expires |-> FALSE, postOnly |-> FALSE],
               [type |-> "FOK", expires |-> FALSE, postOnly |-> TRUE]}}

MCMarketRequests ==
    {[kind |-> "market", side |-> side, unit |-> a.unit, amount |-> a.amount,
      price |-> p, type |-> k, limited |-> b # 0, balance |-> b] :
        side \in {"Buy", "Sell"},
        a \in {[unit |-> "usdc", amount |-> 10001], [unit |-> "usdc", amount |-> 5300],
               [unit |-> "shares", amount |-> 10000], [unit |-> "shares", amount |-> 20100],
              [unit |-> "shares", amount |-> 0], [unit |-> "usdc", amount |-> -5000]},
        p \in {0, 53, 90},
        k \in {"FAK", "FOK", "GTC"},
        b \in {0, -1, 1, 5100, 5600, 10100, 15000}}

Level(p, s) == [price |-> p, size |-> s]

MCBooks ==
    {[asks |-> <<>>, bids |-> <<Level(20, 10000), Level(40, 10000)>>],
     [asks |-> <<Level(60, 10000), Level(50, 10000)>>, bids |-> <<>>],
     [asks |-> <<Level(57, 20000), Level(53, 10000), Level(51, 9900)>>,
      bids |-> <<Level(3, 20000), Level(41, 9900), Level(44, 200)>>],
     [asks |-> <<Level(95, 30000)>>, bids |-> <<Level(5, 30000), Level(15, 10000)>>]}

(* A rate of 0.072, one of 0.03 per share (of 53 at 0.53, 56 is the cost   *)
(* exactly: 5300 and 5600 above), builder fees of 0.005 and 0.02.          *)
MCFees ==
    {[rate |-> 0, exponent |-> 1, builder |-> 0], [rate |-> 72, exponent |-> 1, builder |-> 0],
     [rate |-> 30, exponent |-> 0, builder |-> 0], [rate |-> 72, exponent |-> 1, builder |-> 20],
     [rate |-> 0, exponent |-> 1, builder |-> 5]}

(* Identities are interchangeable: one order of them is enough to start.   *)
Inventory == CHOOSE q \in Lists[Entries] : TRUE

Init ==
    /\ PagesInit /\ FeesInit /\ OrdersInit
    /\ focus \in {"pages", "fees", "orders"}
    /\ inventory \in {SubSeq(Inventory, 1, n) : n \in 0 .. Cardinality(Entries)}
    /\ focus # "pages" => inventory = <<>>
    /\ focus # "fees" => \A m \in Markets : current[m] = CHOOSE s \in Schedules : TRUE
    /\ focus # "orders" => tick_size = CHOOSE t \in Ticks : TRUE

Next ==
    \/ focus = "pages" /\ PagesNext /\ UNCHANGED <<feevars, ordervars, focus>>
    \/ focus = "fees" /\ FeesNext /\ UNCHANGED <<pagevars, ordervars, focus>>
    \/ focus = "orders" /\ OrdersNext /\ UNCHANGED <<pagevars, feevars, focus>>

Spec == Init /\ [][Next]_clientvars
=============================================================================

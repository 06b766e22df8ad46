------------------------------- MODULE GridRisk -------------------------------
(***************************************************************************)
(* The liquidation check of a grid: grid_prices and level_size             *)
(* (strategies/grid.py), calculate_liquidation_metrics (risk_service.py)   *)
(* and its request (api/bots.py).                                          *)
(*                                                                         *)
(* Decimals are whole numbers: a step is a number of D-ths, prices are     *)
(* multiples of D^MaxCount, so every level divides evenly, and a           *)
(* liquidation price is its numerator over 101 times the quantity (1.01    *)
(* is the leverage the code puts in place of one below 1).  The leverage   *)
(* that a request carries is not used by the calculation.                  *)
(***************************************************************************)
EXTENDS Integers

CONSTANTS
    D,         \* parts a step is counted in
    Steps,     \* grid_step_percent, in D-ths
    MaxCount,  \* bound on grid_orders_count
    Amounts,   \* initial_amount
    Prices,    \* start_price, current_price and the ticker; 0 is none
    Balances   \* total_balance

ASSUME DAssumption == D \in Nat \ {0}
ASSUME StepsAssumption == Steps \subseteq 1..D
ASSUME CountAssumption == MaxCount \in Nat \ {0}
ASSUME AmountsAssumption == Amounts \subseteq Nat \ {0}
ASSUME PricesAssumption == Prices \subseteq Nat /\ 0 \in Prices
ASSUME BalancesAssumption == Balances \subseteq Nat \ {0}

\* Powers of b, as a function: Pow(b)[n] is b ^ n.
Pow(b) == LET f[n \in Nat] == IF n = 0 THEN 1 ELSE b * f[n - 1] IN f

\* The unit of a price is small enough for every level to be a whole number.
ASSUME EvenAssumption == \A p \in Prices : p % Pow(D)[MaxCount] = 0

VARIABLES
    at,        \* where the calculation is, or how it ended
    req,       \* the request's body
    base,      \* base_price
    level,     \* levels laid so far
    power,     \* 2 ** index of the next one
    price,     \* p, the price of the last one
    worst,     \* min(grid_levels) for LONG, max(grid_levels) for SHORT
    total,     \* total_base_quantity so far
    notional   \* notional_usdt so far

vars == <<at, req, base, level, power, price, worst, total, notional>>

Direction == {"LONG", "SHORT"}
VolumeMode == {"fixed", "linear", "exponential"}

Body == [direction : Direction, amount : Amounts, count : 1..MaxCount,
         step : Steps, mode : VolumeMode, start : Prices, current : Prices,
         balance : Balances]

Init ==
    /\ at = "anchor" /\ req \in Body
    /\ base = 0 /\ level = 0 /\ power = 1 /\ price = 0 /\ worst = 0
    /\ total = 0 /\ notional = 0

-----------------------------------------------------------------------------
\* The price the grid starts from: start_price, or current_price, or the
\* ticker, which may say 0 and may fail.
Anchor ==
    /\ at = "anchor"
    /\ \E p \in IF req.start # 0 THEN {req.start}
                ELSE IF req.current # 0 THEN {req.current} ELSE Prices :
         /\ p # 0
         /\ base' = p /\ price' = p
         /\ total' = req.amount /\ notional' = p * req.amount
    /\ at' = "levels"
    /\ UNCHANGED <<req, level, power, worst>>

\* No anchor: the ticker failed or said 0.
NoAnchor ==
    /\ at = "anchor" /\ req.start = 0 /\ req.current = 0
    /\ at' = "refused"
    /\ UNCHANGED <<req, base, level, power, price, worst, total, notional>>

\* Mutants: a step is taken from the anchor; sizes are one index ahead.
StepFromAnchor(p) == IF req.direction = "LONG" THEN p - (base * req.step) \div D
                                               ELSE p + (base * req.step) \div D
SizeAhead(i) ==
    CASE req.mode = "fixed"       -> req.amount
      [] req.mode = "linear"      -> req.amount * (i + 2)
      [] req.mode = "exponential" -> req.amount * 2 * power

\* grid_prices: the next price is a step away from p.
NextPrice(p) == IF req.direction = "LONG" THEN (p * (D - req.step)) \div D
                                          ELSE (p * (D + req.step)) \div D

\* level_size of the level with index i.
LevelSize(i) ==
    CASE req.mode = "fixed"       -> req.amount
      [] req.mode = "linear"      -> req.amount * (i + 1)
      [] req.mode = "exponential" -> req.amount * power

\* The worse of two prices for the position.
Worse(p, q) == IF (req.direction = "LONG") <=> (p =< q) THEN p ELSE q

\* Mutant: the entry is left out of the quantity.
LayLevelNoEntry ==
    /\ at = "levels" /\ level < req.count
    /\ LET p == NextPrice(price)
           s == LevelSize(level)
       IN /\ price' = p
          /\ worst' = IF level = 0 THEN p ELSE Worse(worst, p)
          /\ total' = IF level = 0 THEN s ELSE total + s
          /\ notional' = notional + p * s
    /\ level' = level + 1 /\ power' = 2 * power
    /\ UNCHANGED <<at, req, base>>

LayLevel ==
    /\ at = "levels" /\ level < req.count
    /\ LET p == NextPrice(price)
           s == LevelSize(level)
       IN /\ price' = p
          /\ worst' = IF level = 0 THEN p ELSE Worse(worst, p)
          /\ total' = total + s
          /\ notional' = notional + p * s
    /\ level' = level + 1 /\ power' = 2 * power
    /\ UNCHANGED <<at, req, base>>

-----------------------------------------------------------------------------
\* The liquidation price with balance b, times 101 times the quantity.  The
\* effective leverage is notional / b, or 1.01 where that is not above 1.
Liquidation(b) ==
    IF notional =< b
    THEN IF req.direction = "LONG" THEN notional ELSE 201 * notional
    ELSE IF req.direction = "LONG" THEN 101 * (notional - b)
                                   ELSE 101 * (notional + b)

\* Mutant: the test is made at the level next to the anchor.
UnsafeAtFirst ==
    IF req.direction = "LONG"
    THEN Liquidation(req.balance) >= 101 * base * total
    ELSE Liquidation(req.balance) =< 101 * base * total

\* "Unsafe grid": the liquidation price lies inside the grid.
Unsafe ==
    IF req.direction = "LONG"
    THEN Liquidation(req.balance) >= 101 * worst * total
    ELSE Liquidation(req.balance) =< 101 * worst * total

Decide ==
    /\ at = "levels" /\ level = req.count
    /\ at' = IF Unsafe THEN "refused" ELSE "accepted"
    /\ UNCHANGED <<req, base, level, power, price, worst, total, notional>>

Done == at \in {"refused", "accepted"} /\ UNCHANGED vars

Next == Anchor \/ NoAnchor \/ LayLevel \/ Decide \/ Done

Spec == Init /\ [][Next]_vars

-----------------------------------------------------------------------------
(* Properties.                                                             *)

\* Every variable has its type: no price, quantity or notional is negative.
TypeOK ==
    /\ at \in {"anchor", "levels", "refused", "accepted"} /\ req \in Body
    /\ base \in Nat /\ level \in Nat /\ power \in Nat
    /\ price \in Nat /\ worst \in Nat /\ total \in Nat /\ notional \in Nat

\* What the full position has lost when the market stands at p.
LossAt(p) == IF req.direction = "LONG" THEN notional - p * total
                                       ELSE p * total - notional

\* The purpose of the check: the balance outlasts the whole of an accepted
\* grid.  With every level filled and the market at the last one, the loss is
\* smaller than the balance.
AcceptedSurvives == at = "accepted" => LossAt(worst) < req.balance

\* The average entry price lies between the anchor and the last level.
AverageInGrid ==
    at = "levels" /\ level > 0 =>
        IF req.direction = "LONG"
        THEN worst * total =< notional /\ notional =< base * total
        ELSE base * total =< notional /\ notional =< worst * total

\* Quantity and last price in closed form: the entry and the levels are laid
\* with the sizes and at the distances that the volume mode and step say.
FullQuantity ==
    CASE req.mode = "fixed"       -> req.amount * (req.count + 1)
      [] req.mode = "linear"      -> req.amount * (1 + (req.count * (req.count + 1)) \div 2)
      [] req.mode = "exponential" -> req.amount * Pow(2)[req.count]
LastPrice ==
    IF req.direction = "LONG"
    THEN (base * Pow(D - req.step)[req.count]) \div Pow(D)[req.count]
    ELSE (base * Pow(D + req.step)[req.count]) \div Pow(D)[req.count]
GridClosedForm ==
    level = req.count => total = FullQuantity /\ worst = LastPrice
=============================================================================

---------------------------- MODULE GridRiskProofs ----------------------------
(* The liquidation check for any inputs: its types, its verdict, the        *)
(* average entry price, and the whole grid in closed form.                  *)
EXTENDS GridRisk, WellFoundedInduction, TLAPS

\* The bounds that a step's division and product keep.
LEMMA Scaled ==
    ASSUME NEW p \in Nat, NEW k \in Nat
    PROVE  (p * k) \div D \in Nat
  <1>1. p * k \in Nat
    OBVIOUS
  <1>2. QED
    BY <1>1, DAssumption

LEMMA SizeIsNat == TypeOK => \A i \in Nat : LevelSize(i) \in Nat
  <1> SUFFICES ASSUME TypeOK, NEW i \in Nat PROVE LevelSize(i) \in Nat
    OBVIOUS
  <1>1. req.amount \in Nat /\ power \in Nat /\ req.mode \in VolumeMode
    BY AmountsAssumption DEF TypeOK, Body
  <1>2. req.amount * (i + 1) \in Nat /\ req.amount * power \in Nat
    BY <1>1
  <1>3. QED
    BY <1>1, <1>2 DEF LevelSize, VolumeMode

LEMMA PriceIsNat == TypeOK => NextPrice(price) \in Nat
  <1> SUFFICES ASSUME TypeOK PROVE NextPrice(price) \in Nat
    OBVIOUS
  <1>1. price \in Nat /\ req.step \in 1..D
    BY StepsAssumption DEF TypeOK, Body
  <1>2. D - req.step \in Nat /\ D + req.step \in Nat
    BY <1>1, DAssumption
  <1>3. (price * (D - req.step)) \div D \in Nat
    BY <1>1, <1>2, Scaled
  <1>4. (price * (D + req.step)) \div D \in Nat
    BY <1>1, <1>2, Scaled
  <1>5. QED
    BY <1>3, <1>4 DEF NextPrice

\* No level is laid before there is an anchor, and a request is answered
\* "accepted" only if its liquidation price lies beyond the last level.
Verdict == /\ at = "anchor" => level = 0
           /\ at = "accepted" => ~Unsafe

RiskInv == TypeOK /\ Verdict

LEMMA RiskInit == Init => RiskInv
  BY DEF Init, RiskInv, TypeOK, Verdict

LEMMA RiskNext == RiskInv /\ [Next]_vars => RiskInv'
  <1> SUFFICES ASSUME RiskInv, [Next]_vars PROVE RiskInv'
    OBVIOUS
  <1>t. TypeOK
    BY DEF RiskInv
  <1>1. CASE Anchor
    <2>1. PICK p \in Prices : /\ p # 0 /\ base' = p /\ price' = p
                              /\ total' = req.amount /\ notional' = p * req.amount
      BY <1>1, <1>t DEF Anchor, TypeOK, Body
    <2>2. p \in Nat /\ req.amount \in Nat
      BY <1>t, PricesAssumption, AmountsAssumption DEF TypeOK, Body
    <2>3. p * req.amount \in Nat
      BY <2>2
    <2>4. at' = "levels" /\ UNCHANGED <<req, level, power, worst>>
      BY <1>1 DEF Anchor
    <2>5. QED
      BY <1>t, <2>1, <2>2, <2>3, <2>4 DEF RiskInv, TypeOK, Verdict
  <1>2. CASE NoAnchor
    BY <1>2 DEF NoAnchor, RiskInv, TypeOK, Verdict
  <1>3. CASE LayLevel
    <2> DEFINE p == NextPrice(price)
               s == LevelSize(level)
    <2>1. p \in Nat /\ s \in Nat
      BY <1>t, PriceIsNat, SizeIsNat DEF TypeOK
    <2>2. p * s \in Nat
      BY <2>1
    <2>3. /\ price' = p /\ worst' = (IF level = 0 THEN p ELSE Worse(worst, p))
          /\ total' = total + s /\ notional' = notional + p * s
          /\ level' = level + 1 /\ power' = 2 * power
          /\ UNCHANGED <<at, req, base>> /\ at = "levels"
      BY <1>3 DEF LayLevel
    <2>4. Worse(worst, p) \in Nat
      BY <1>t, <2>1 DEF TypeOK, Worse
    <2> HIDE DEF p, s
    <2>5. TypeOK'
      BY <1>t, <2>1, <2>2, <2>3, <2>4 DEF TypeOK
    <2>6. QED
      BY <2>3, <2>5 DEF RiskInv, Verdict
  <1>4. CASE Decide
    BY <1>4 DEF Decide, RiskInv, TypeOK, Verdict, Unsafe, Liquidation
  <1>5. CASE UNCHANGED vars
    BY <1>5 DEF vars, RiskInv, TypeOK, Verdict, Unsafe, Liquidation
  <1>6. QED
    BY <1>1, <1>2, <1>3, <1>4, <1>5 DEF Next, Done

\* Beyond the last level the loss is smaller than the balance: with the test
\* of the code, and with the leverage 1.01 it puts in place of a smaller one.
LEMMA BeyondIsSurvived == TypeOK /\ ~Unsafe => LossAt(worst) < req.balance
  <1> SUFFICES ASSUME TypeOK, ~Unsafe PROVE LossAt(worst) < req.balance
    OBVIOUS
  <1> DEFINE w == worst * total
  <1>1. worst \in Nat /\ total \in Nat /\ notional \in Nat /\ req.balance \in Nat \ {0}
    BY BalancesAssumption DEF TypeOK, Body
  <1>2. w \in Nat /\ 101 * worst * total = 101 * w
    BY <1>1
  <1> HIDE DEF w
  <1>3. CASE req.direction = "LONG"
    <2>1. Liquidation(req.balance) < 101 * w
      BY <1>1, <1>2, <1>3 DEF Unsafe, Liquidation
    <2>2. notional - w < req.balance
      BY <1>1, <1>2, <1>3, <2>1 DEF Liquidation
    <2>3. QED
      BY <1>3, <2>2 DEF LossAt, w
  <1>4. CASE req.direction # "LONG"
    <2>1. Liquidation(req.balance) > 101 * w
      BY <1>1, <1>2, <1>4 DEF Unsafe, Liquidation
    <2>2. w - notional < req.balance
      BY <1>1, <1>2, <1>4, <2>1 DEF Liquidation
    <2>3. QED
      BY <1>4, <2>2 DEF LossAt, w
  <1>5. QED
    BY <1>3, <1>4

\* TypeOK for all inputs: no price, quantity or notional goes below zero.
THEOREM RiskTypes == Spec => []TypeOK
  <1>1. RiskInv => TypeOK
    BY DEF RiskInv
  <1>2. QED
    BY RiskInit, RiskNext, <1>1, PTL DEF Spec

\* AcceptedSurvives for all inputs: the balance of an accepted request outlasts
\* its whole grid, in both directions and every volume mode.
THEOREM AcceptedGridSurvives == Spec => []AcceptedSurvives
  <1>1. RiskInv => AcceptedSurvives
    BY BeyondIsSurvived DEF RiskInv, Verdict, AcceptedSurvives
  <1>2. QED
    BY RiskInit, RiskNext, <1>1, PTL DEF Spec

-----------------------------------------------------------------------------
(* The average entry price.                                                *)

LEMMA Monotone ==
    ASSUME NEW a \in Nat, NEW b \in Nat, NEW c \in Nat, a =< b
    PROVE  a * c =< b * c
  <1>1. (b - a) * c \in Nat
    OBVIOUS
  <1>2. QED
    BY <1>1

\* A step of the grid moves the price away from the anchor.
LEMMA PriceMoves ==
    ASSUME TypeOK
    PROVE  /\ req.direction = "LONG" => NextPrice(price) =< price
           /\ req.direction # "LONG" => price =< NextPrice(price)
  <1>1. price \in Nat /\ req.step \in 1..D /\ D \in Nat \ {0}
    BY StepsAssumption, DAssumption DEF TypeOK, Body
  <1>2. \A x \in Nat : x =< price * D => x \div D =< price
    BY <1>1
  <1>3. \A x \in Nat : price * D =< x => price =< x \div D
    BY <1>1
  <1>4. price * (D - req.step) \in Nat /\ price * (D - req.step) =< price * D
    <2>1. D - req.step \in Nat /\ D - req.step =< D
      BY <1>1
    <2>2. (D - req.step) * price =< D * price
      BY <1>1, <2>1, Monotone
    <2>3. QED
      BY <1>1, <2>1, <2>2
  <1>5. price * (D + req.step) \in Nat /\ price * D =< price * (D + req.step)
    <2>1. D + req.step \in Nat /\ D =< D + req.step
      BY <1>1
    <2>2. D * price =< (D + req.step) * price
      BY <1>1, <2>1, Monotone
    <2>3. QED
      BY <1>1, <2>1, <2>2
  <1>6. QED
    BY <1>2, <1>3, <1>4, <1>5 DEF NextPrice

\* The last price bounds the average on one side, the anchor on the other,
\* and the last price is the worst.
Between ==
    at = "levels" =>
        /\ level > 0 => worst = price
        /\ IF req.direction = "LONG"
           THEN price =< base /\ price * total =< notional /\ notional =< base * total
           ELSE base =< price /\ base * total =< notional /\ notional =< price * total

LEMMA BetweenStep ==
    ASSUME TypeOK, Between, LayLevel
    PROVE  Between'
  <1> DEFINE p == NextPrice(price)
             s == LevelSize(level)
  <1>1. /\ p \in Nat /\ s \in Nat /\ price \in Nat /\ total \in Nat
        /\ notional \in Nat /\ base \in Nat /\ worst \in Nat /\ level \in Nat
    BY PriceIsNat, SizeIsNat DEF TypeOK
  <1>2. /\ price' = p /\ worst' = (IF level = 0 THEN p ELSE Worse(worst, p))
        /\ total' = total + s /\ notional' = notional + p * s
        /\ level' = level + 1 /\ UNCHANGED <<at, req, base>> /\ at = "levels"
    BY DEF LayLevel
  <1>3. /\ req.direction = "LONG" => p =< price
        /\ req.direction # "LONG" => price =< p
    BY PriceMoves
  <1> HIDE DEF p, s
  <1>4. p * (total + s) = p * total + p * s /\ base * (total + s) = base * total + base * s
    BY <1>1
  <1>5. /\ p * total \in Nat /\ p * s \in Nat /\ base * total \in Nat
        /\ base * s \in Nat /\ price * total \in Nat
    BY <1>1
  <1>6. CASE req.direction = "LONG"
    <2>1. price =< base /\ price * total =< notional /\ notional =< base * total
      BY <1>2, <1>6 DEF Between
    <2>2. p * total =< price * total
      BY <1>1, <1>3, <1>6, Monotone
    <2>3. p =< base
      BY <1>1, <1>3, <1>6, <2>1
    <2>4. p * s =< base * s
      BY <1>1, <2>3, Monotone
    <2>5. p * (total + s) =< notional + p * s /\ notional + p * s =< base * (total + s)
      BY <1>1, <1>4, <1>5, <2>1, <2>2, <2>4
    <2>6. level > 0 => Worse(worst, p) = p
      BY <1>1, <1>2, <1>3, <1>6 DEF Between, Worse
    <2>7. QED
      BY <1>1, <1>2, <1>6, <2>3, <2>5, <2>6 DEF Between
  <1>7. CASE req.direction # "LONG"
    <2>1. base =< price /\ base * total =< notional /\ notional =< price * total
      BY <1>2, <1>7 DEF Between
    <2>2. price * total =< p * total
      BY <1>1, <1>3, <1>7, Monotone
    <2>3. base =< p
      BY <1>1, <1>3, <1>7, <2>1
    <2>4. base * s =< p * s
      BY <1>1, <2>3, Monotone
    <2>5. base * (total + s) =< notional + p * s /\ notional + p * s =< p * (total + s)
      BY <1>1, <1>4, <1>5, <2>1, <2>2, <2>4
    <2>6. level > 0 => Worse(worst, p) = p
      BY <1>1, <1>2, <1>3, <1>7 DEF Between, Worse
    <2>7. QED
      BY <1>1, <1>2, <1>7, <2>3, <2>5, <2>6 DEF Between
  <1>8. QED
    BY <1>6, <1>7

\* AverageInGrid for all inputs: the weighted average lies between the anchor
\* and the last level after every level that is laid.
THEOREM AverageLiesInGrid == Spec => []AverageInGrid
  <1>1. Init => Between
    BY DEF Init, Between
  <1>2. RiskInv /\ Between /\ [Next]_vars => Between'
    <2> SUFFICES ASSUME RiskInv, Between, [Next]_vars PROVE Between'
      OBVIOUS
    <2>1. CASE Anchor
      <3>1. PICK p \in Prices : /\ p # 0 /\ base' = p /\ price' = p
                                /\ total' = req.amount /\ notional' = p * req.amount
        BY <2>1 DEF Anchor, RiskInv, TypeOK, Body
      <3>a. p \in Nat /\ req.amount \in Nat
        BY PricesAssumption, AmountsAssumption DEF RiskInv, TypeOK, Body
      <3>2. p * req.amount \in Nat /\ p \in Nat
        BY <3>a
      <3>3. level' = 0
        BY <2>1 DEF Anchor, RiskInv, Verdict
      <3>4. QED
        BY <2>1, <3>1, <3>2, <3>3 DEF Anchor, Between
    <2>2. CASE LayLevel
      BY <2>2, BetweenStep DEF RiskInv
    <2>3. CASE NoAnchor
      BY <2>3 DEF NoAnchor, Between
    <2>4. CASE Decide
      BY <2>4 DEF Decide, Between
    <2>5. CASE UNCHANGED vars
      BY <2>5 DEF vars, Between
    <2>6. QED
      BY <2>1, <2>2, <2>3, <2>4, <2>5 DEF Next, Done
  <1>3. Between => AverageInGrid
    BY DEF Between, AverageInGrid
  <1>4. QED
    BY RiskInit, RiskNext, <1>1, <1>2, <1>3, PTL DEF Spec
-----------------------------------------------------------------------------
(* Powers.  A recursive function is what its equation says only if some    *)
(* function satisfies the equation: that one does is shown by induction,   *)
(* which is taken from the least number of a set of numbers.               *)

\* Every set of natural numbers that is not empty has a least element.
LEMMA Least ==
    ASSUME NEW S \in SUBSET Nat, S # {}
    PROVE  \E n \in S : \A m \in S : n =< m
  <1>1. PICK n \in S : \A m \in S : <<m, n>> \notin OpToRel(<, Nat)
    BY WFMin, NatLessThanWellFounded, Zenon
  <1>2. \A m \in S : ~(m < n)
    BY <1>1, Zenon DEF OpToRel
  <1>3. QED
    BY <1>2

\* Induction: a set that has 0 and the successor of its members is Nat.
LEMMA Induction ==
    ASSUME NEW S \in SUBSET Nat, 0 \in S, \A n \in S : n + 1 \in S
    PROVE  S = Nat
  <1> SUFFICES ASSUME Nat \ S # {} PROVE FALSE
    OBVIOUS
  <1>1. PICK n \in Nat \ S : \A m \in Nat \ S : n =< m
    BY Least
  <1>2. n # 0 /\ n - 1 \in Nat /\ n - 1 \notin Nat \ S
    BY <1>1
  <1>3. (n - 1) + 1 \in S
    BY <1>2
  <1>4. QED
    BY <1>1, <1>3

\* The powers of b from 0 to n.
PowersTo(b, n) ==
    {g \in [0..n -> Nat] : g[0] = 1 /\ \A i \in 1..n : g[i] = b * g[i - 1]}

LEMMA PowersExist ==
    ASSUME NEW b \in Nat
    PROVE  \A n \in Nat : PowersTo(b, n) # {}
  <1> DEFINE S == {n \in Nat : PowersTo(b, n) # {}}
  <1>1. 0 \in S
    <2>1. [i \in 0..0 |-> 1] \in PowersTo(b, 0)
      BY DEF PowersTo
    <2>2. QED
      BY <2>1
  <1>2. ASSUME NEW n \in S PROVE n + 1 \in S
    <2>1. n \in Nat
      OBVIOUS
    <2>2. PICK g \in [0..n -> Nat] : g[0] = 1 /\ \A i \in 1..n : g[i] = b * g[i - 1]
      BY <1>2 DEF PowersTo
    <2> DEFINE h == [i \in 0..(n + 1) |-> IF i = n + 1 THEN b * g[n] ELSE g[i]]
    <2>3. n \in 0..n /\ g[n] \in Nat /\ b * g[n] \in Nat
      BY <2>1, <2>2
    <2>4. h \in [0..(n + 1) -> Nat]
      BY <2>1, <2>2, <2>3
    <2>5. h[0] = 1
      BY <2>1, <2>2
    <2>6. ASSUME NEW i \in 1..(n + 1) PROVE h[i] = b * h[i - 1]
      <3>1. i \in 0..(n + 1) /\ i - 1 \in 0..(n + 1) /\ i - 1 # n + 1
        BY <2>1
      <3>2. CASE i = n + 1
        <4>1. h[i] = b * g[n] /\ h[i - 1] = g[i - 1] /\ i - 1 = n
          BY <3>1, <3>2, <2>1
        <4>2. QED
          BY <4>1
      <3>3. CASE i # n + 1
        <4>1. i \in 1..n
          BY <3>3, <2>1
        <4>2. h[i] = g[i] /\ h[i - 1] = g[i - 1]
          BY <3>1, <3>3
        <4>3. QED
          BY <4>1, <4>2, <2>2
      <3>4. QED
        BY <3>2, <3>3
    <2>7. h \in PowersTo(b, n + 1)
      BY <2>4, <2>5, <2>6 DEF PowersTo
    <2>8. QED
      BY <2>1, <2>7
  <1> HIDE DEF S
  <1>3. S = Nat
    <2>1. S \in SUBSET Nat
      BY DEF S
    <2>2. QED
      BY <1>1, <1>2, <2>1, Induction
  <1>4. QED
    BY <1>3 DEF S

\* Two lists of powers agree as far as both go.
LEMMA PowersAgree ==
    ASSUME NEW b \in Nat, NEW n \in Nat, NEW m \in Nat,
           NEW g \in PowersTo(b, n), NEW h \in PowersTo(b, m)
    PROVE  \A i \in Nat : i =< n /\ i =< m => g[i] = h[i]
  <1> DEFINE S == {i \in Nat : i =< n /\ i =< m => g[i] = h[i]}
  <1>1. /\ g[0] = 1 /\ \A i \in 1..n : g[i] = b * g[i - 1]
        /\ h[0] = 1 /\ \A i \in 1..m : h[i] = b * h[i - 1]
    BY DEF PowersTo
  <1>2. 0 \in S
    BY <1>1
  <1>3. ASSUME NEW i \in S PROVE i + 1 \in S
    <2>1. i \in Nat /\ i + 1 \in Nat /\ (i + 1) - 1 = i
      OBVIOUS
    <2>2. CASE i + 1 =< n /\ i + 1 =< m
      <3>1. i + 1 \in 1..n /\ i + 1 \in 1..m /\ g[i] = h[i]
        BY <2>1, <2>2
      <3>2. g[i + 1] = b * g[i] /\ h[i + 1] = b * h[i]
        BY <1>1, <2>1, <3>1
      <3>3. QED
        BY <2>1, <3>1, <3>2
    <2>3. CASE ~(i + 1 =< n /\ i + 1 =< m)
      BY <2>1, <2>3
    <2>4. QED
      BY <2>2, <2>3
  <1> HIDE DEF S
  <1>4. S = Nat
    <2>1. S \in SUBSET Nat
      BY DEF S
    <2>2. QED
      BY <1>2, <1>3, <2>1, Induction
  <1>5. QED
    BY <1>4 DEF S

\* What Pow(b) is: the equation it is defined by.
LEMMA PowEquation ==
    ASSUME NEW b \in Nat
    PROVE  Pow(b) = [n \in Nat |-> IF n = 0 THEN 1 ELSE b * Pow(b)[n - 1]]
  <1> DEFINE F(f) == [n \in Nat |-> IF n = 0 THEN 1 ELSE b * f[n - 1]]
             A(n) == CHOOSE g : g \in PowersTo(b, n)
             f == [n \in Nat |-> A(n)[n]]
  <1>1. \A n \in Nat : A(n) \in PowersTo(b, n)
    BY PowersExist
  <1> HIDE DEF A
  <1>2. f[0] = 1
    BY <1>1 DEF PowersTo
  <1>3. ASSUME NEW n \in Nat, n # 0 PROVE f[n] = b * f[n - 1]
    <2>1. n - 1 \in Nat /\ n \in 1..n
      BY <1>3
    <2>2. A(n)[n] = b * A(n)[n - 1]
      BY <1>1, <2>1 DEF PowersTo
    <2>3. A(n)[n - 1] = A(n - 1)[n - 1]
      BY <1>1, <2>1, PowersAgree
    <2>4. QED
      BY <2>1, <2>2, <2>3
  <1>4. f = F(f)
    <2>1. ASSUME NEW n \in Nat PROVE f[n] = F(f)[n]
      <3> HIDE DEF f
      <3>1. F(f)[n] = IF n = 0 THEN 1 ELSE b * f[n - 1]
        OBVIOUS
      <3>2. QED
        BY <1>2, <1>3, <3>1
    <2>2. QED
      BY <2>1
  <1>5. Pow(b) = CHOOSE g : g = F(g)
    BY DEF Pow
  <1> HIDE DEF f, F
  <1>6. Pow(b) = F(Pow(b))
    BY <1>4, <1>5
  <1>7. QED
    BY <1>6 DEF F

\* Powers of b: b ^ 0 is 1, b ^ (n + 1) is b times b ^ n, all are numbers.
LEMMA Powers ==
    ASSUME NEW b \in Nat
    PROVE  /\ Pow(b)[0] = 1
           /\ \A n \in Nat : Pow(b)[n + 1] = b * Pow(b)[n]
           /\ \A n \in Nat : Pow(b)[n] \in Nat
           /\ b # 0 => \A n \in Nat : Pow(b)[n] # 0
  <1> DEFINE P == Pow(b)
  <1>1. P = [n \in Nat |-> IF n = 0 THEN 1 ELSE b * P[n - 1]]
    BY PowEquation
  <1> HIDE DEF P
  <1>2. P[0] = 1
    BY <1>1
  <1>3. ASSUME NEW n \in Nat PROVE P[n + 1] = b * P[n]
    <2>1. n + 1 \in Nat /\ n + 1 # 0 /\ (n + 1) - 1 = n
      OBVIOUS
    <2>2. P[n + 1] = IF n + 1 = 0 THEN 1 ELSE b * P[(n + 1) - 1]
      BY <1>1, <2>1
    <2>3. QED
      BY <2>1, <2>2
  <1>4. \A n \in Nat : P[n] \in Nat /\ (b # 0 => P[n] # 0)
    <2> DEFINE S == {n \in Nat : P[n] \in Nat /\ (b # 0 => P[n] # 0)}
    <2>1. 0 \in S
      BY <1>2
    <2>2. ASSUME NEW n \in S PROVE n + 1 \in S
      <3>1. P[n + 1] = b * P[n] /\ P[n] \in Nat /\ (b # 0 => P[n] # 0) /\ n + 1 \in Nat
        BY <1>3
      <3>2. \A x \in Nat : b * x \in Nat /\ (b # 0 /\ x # 0 => b * x # 0)
        OBVIOUS
      <3>3. QED
        BY <3>1, <3>2
    <2> HIDE DEF S
    <2>3. S = Nat
      <3>1. S \in SUBSET Nat
        BY DEF S
      <3>2. QED
        BY <2>1, <2>2, <3>1, Induction
    <2>4. QED
      BY <2>3 DEF S
  <1>5. QED
    BY <1>2, <1>3, <1>4 DEF P
-----------------------------------------------------------------------------
(* Quantity and prices in closed form.                                     *)

\* The factor, in D-ths, that takes one price of the grid to the next.
Factor == IF req.direction = "LONG" THEN D - req.step ELSE D + req.step

\* What is laid after n levels, in the sizes of the volume mode.
QuantityAt(n) ==
    CASE req.mode = "fixed"       -> req.amount * (n + 1)
      [] req.mode = "linear"      -> req.amount * (1 + (n * (n + 1)) \div 2)
      [] req.mode = "exponential" -> req.amount * Pow(2)[n]

\* The grid after each level.  The last price is still a multiple of the
\* unit that the levels to come need, so its division leaves no remainder.
Laid ==
    /\ level =< req.count
    /\ power = Pow(2)[level]
    /\ base = 0 => level = 0
    /\ base # 0 => total = QuantityAt(level)
    /\ at = "levels" => base # 0
    /\ price * Pow(D)[level] = base * Pow(Factor)[level]
    /\ price % Pow(D)[MaxCount - level] = 0
    /\ level > 0 => worst = price

LEMMA FactorIsNat ==
    ASSUME TypeOK
    PROVE  /\ Factor \in Nat /\ NextPrice(price) = (price * Factor) \div D
           /\ req.count \in 1..MaxCount /\ req.mode \in VolumeMode
           /\ req.amount \in Nat
  <1>1. req.step \in 1..D /\ D \in Nat \ {0}
    BY StepsAssumption, DAssumption DEF TypeOK, Body
  <1>2. Factor \in Nat /\ NextPrice(price) = (price * Factor) \div D
    BY <1>1 DEF Factor, NextPrice
  <1>3. QED
    BY <1>2, AmountsAssumption DEF TypeOK, Body

\* Division by u undoes a multiplication by u, and leaves nothing.
LEMMA Undo ==
    ASSUME NEW x \in Nat, NEW u \in Nat \ {0}
    PROVE  (x * u) \div u = x /\ (x * u) % u = 0
  <1> DEFINE v == x * u
             q == v \div u
             r == v % u
  <1>1. v \in Nat
    OBVIOUS
  <1>2. q \in Nat /\ r \in Nat /\ r < u /\ v = u * q + r
    <2> HIDE DEF v
    <2>1. QED
      BY <1>1
  <1>3. r = u * (x - q)
    <2>1. x * u = u * q + r
      BY <1>2
    <2> HIDE DEF q, r
    <2>2. QED
      BY <1>2, <2>1
  <1> HIDE DEF q, r
  <1>4. ~(x - q >= 1)
    <2>1. ASSUME x - q >= 1 PROVE u * (x - q) >= u
      BY <1>2, <2>1
    <2>2. QED
      BY <1>2, <1>3, <2>1
  <1>5. ~(x - q =< -1)
    <2>1. ASSUME x - q =< -1 PROVE u * (x - q) =< -u
      BY <1>2, <2>1
    <2>2. QED
      BY <1>2, <1>3, <2>1
  <1>6. q = x /\ r = 0
    <2>1. x = q
      BY <1>2, <1>4, <1>5
    <2>2. QED
      BY <1>2, <1>3, <2>1
  <1>7. QED
    BY <1>6 DEF q, r

\* What leaves nothing is a multiple.
LEMMA Multiple ==
    ASSUME NEW p \in Nat, NEW m \in Nat \ {0}, p % m = 0
    PROVE  p \div m \in Nat /\ p = m * (p \div m)
  <1> DEFINE q == p \div m
             r == p % m
  <1>1. q \in Nat /\ p = m * q + r
    OBVIOUS
  <1>2. r = 0
    OBVIOUS
  <1> HIDE DEF q, r
  <1>3. p = m * q
    BY <1>1, <1>2
  <1>4. QED
    BY <1>1, <1>3 DEF q

\* The division of a step is exact where the unit has a D to spare.
LEMMA ExactStep ==
    ASSUME NEW p \in Nat, NEW k \in Nat, NEW u \in Nat \ {0},
           p % (D * u) = 0
    PROVE  /\ ((p * k) \div D) * D = p * k
           /\ ((p * k) \div D) % u = 0
  <1>1. D \in Nat \ {0} /\ D * u \in Nat \ {0}
    <2>1. D \in Nat \ {0}
      BY DAssumption
    <2>2. \A x \in Nat : x # 0 => x * u # 0 /\ x * u \in Nat
      OBVIOUS
    <2>3. QED
      BY <2>1, <2>2
  <1> DEFINE m == D * u
             q == p \div m
  <1>2. q \in Nat /\ p = m * q
    <2>1. m \in Nat \ {0} /\ p % m = 0
      BY <1>1
    <2> HIDE DEF m
    <2>2. QED
      BY <2>1, Multiple
  <1> HIDE DEF q
  <1> DEFINE r == k * q
  <1>3. r \in Nat
    BY <1>2
  <1> DEFINE v == r * u
  <1>4. v \in Nat /\ p * k = v * D
    BY <1>1, <1>2
  <1>5. v % u = 0
    <2> HIDE DEF r
    <2>1. QED
      BY <1>3, Undo
  <1> HIDE DEF v
  <1>6. (v * D) \div D = v
    BY <1>1, <1>4, Undo
  <1>7. QED
    BY <1>4, <1>5, <1>6

\* Each level adds its size to the quantity of the levels before it.
LEMMA QuantityGrows ==
    ASSUME TypeOK, power = Pow(2)[level], total = QuantityAt(level)
    PROVE  total + LevelSize(level) = QuantityAt(level + 1)
  <1>1. req.amount \in Nat /\ req.mode \in VolumeMode /\ level \in Nat
    BY FactorIsNat DEF TypeOK
  <1>2. CASE req.mode = "fixed"
    BY <1>1, <1>2 DEF QuantityAt, LevelSize
  <1>3. CASE req.mode = "linear"
    <2> DEFINE x == level * (level + 1)
    <2>1. x \in Nat /\ (level + 1) * (level + 2) = x + 2 * (level + 1)
      BY <1>1
    <2>2. x \div 2 + (level + 1) = (x + 2 * (level + 1)) \div 2 /\ x \div 2 \in Nat
      <3> HIDE DEF x
      <3>1. QED
        BY <1>1, <2>1
    <2> HIDE DEF x
    <2> DEFINE y == x \div 2
    <2>3. /\ total = req.amount * (1 + y)
          /\ LevelSize(level) = req.amount * (level + 1)
          /\ QuantityAt(level + 1)
               = req.amount * (1 + ((level + 1) * ((level + 1) + 1)) \div 2)
      BY <1>3 DEF QuantityAt, LevelSize, x
    <2>4. ((level + 1) * ((level + 1) + 1)) \div 2 = y + (level + 1)
      <3>1. (level + 1) + 1 = level + 2
        BY <1>1
      <3>2. QED
        BY <2>1, <2>2, <3>1
    <2>5. y \in Nat
      BY <2>2
    <2> HIDE DEF y
    <2>6. req.amount * (1 + y) + req.amount * (level + 1)
            = req.amount * (1 + (y + (level + 1)))
      BY <1>1, <2>5
    <2>7. QED
      BY <2>3, <2>4, <2>6
  <1>4. CASE req.mode = "exponential"
    <2> DEFINE w == Pow(2)[level]
    <2>1. w \in Nat /\ Pow(2)[level + 1] = 2 * w
      BY <1>1, Powers
    <2>2. /\ total = req.amount * w /\ LevelSize(level) = req.amount * w
          /\ QuantityAt(level + 1) = req.amount * (2 * w)
      BY <1>4, <2>1 DEF QuantityAt, LevelSize
    <2> HIDE DEF w
    <2>3. req.amount * w + req.amount * w = req.amount * (2 * w)
      BY <1>1, <2>1
    <2>4. QED
      BY <2>2, <2>3
  <1>5. QED
    BY <1>1, <1>2, <1>3, <1>4 DEF VolumeMode

LEMMA LaidAnchor ==
    ASSUME RiskInv, Laid, Anchor
    PROVE  Laid'
  <1>1. PICK p \in Prices : /\ p # 0 /\ base' = p /\ price' = p
                            /\ total' = req.amount
    BY DEF Anchor, RiskInv, TypeOK, Body
  <1>2. /\ at' = "levels" /\ UNCHANGED <<req, level, power, worst>> /\ level = 0
    BY DEF Anchor, RiskInv, Verdict
  <1>3. /\ p \in Nat /\ req.amount \in Nat /\ Factor \in Nat /\ D \in Nat
        /\ MaxCount \in Nat /\ req.mode \in VolumeMode
    BY FactorIsNat, PricesAssumption, DAssumption, CountAssumption DEF RiskInv
  <1>4. Pow(D)[0] = 1 /\ Pow(Factor)[0] = 1 /\ Pow(2)[0] = 1
    BY <1>3, Powers
  <1>5. Factor' = Factor /\ QuantityAt(0)' = QuantityAt(0)
    BY <1>2 DEF Factor, QuantityAt
  <1>6. QuantityAt(0) = req.amount
    <2>1. (0 * (0 + 1)) \div 2 = 0
      OBVIOUS
    <2>2. QED
      BY <1>3, <1>4, <2>1 DEF QuantityAt, VolumeMode
  <1>7. MaxCount - 0 = MaxCount /\ p % Pow(D)[MaxCount] = 0
    BY <1>3, EvenAssumption
  <1>8. total' = QuantityAt(level)'
    BY <1>1, <1>2, <1>5, <1>6 DEF QuantityAt
  <1>9. price' * Pow(D)[level'] = base' * Pow(Factor')[level']
    BY <1>1, <1>2, <1>3, <1>4, <1>5
  <1>10. QED
    BY <1>1, <1>2, <1>7, <1>8, <1>9 DEF Laid

LEMMA LaidLevel ==
    ASSUME RiskInv, Laid, LayLevel
    PROVE  Laid'
  <1> DEFINE p == NextPrice(price)
             s == LevelSize(level)
             k == Factor
             u == Pow(D)[MaxCount - (level + 1)]
             d == Pow(D)[level]
             e == Pow(k)[level]
  <1>t. TypeOK
    BY DEF RiskInv
  <1>1. /\ price' = p /\ worst' = (IF level = 0 THEN p ELSE Worse(worst, p))
        /\ total' = total + s /\ level' = level + 1 /\ power' = 2 * power
        /\ UNCHANGED <<at, req, base>> /\ at = "levels" /\ level < req.count
    BY DEF LayLevel
  <1>2. /\ price \in Nat /\ base \in Nat /\ level \in Nat /\ p \in Nat
        /\ k \in Nat /\ p = (price * k) \div D
        /\ req.count \in 1..MaxCount /\ D \in Nat \ {0} /\ MaxCount \in Nat
    BY <1>t, FactorIsNat, PriceIsNat, DAssumption, CountAssumption DEF TypeOK
  <1>3. /\ MaxCount - (level + 1) \in Nat
        /\ MaxCount - level = (MaxCount - (level + 1)) + 1
    BY <1>1, <1>2
  <1>4. u \in Nat \ {0} /\ Pow(D)[MaxCount - level] = D * u
    BY <1>2, <1>3, Powers
  <1>5. /\ d \in Nat /\ e \in Nat
        /\ Pow(D)[level + 1] = D * d /\ Pow(k)[level + 1] = k * e
    BY <1>2, Powers
  <1>6. Factor' = k
    BY <1>1 DEF Factor
  <1>7. level' =< req'.count /\ power' = Pow(2)[level']
    <2>1. power = Pow(2)[level]
      BY DEF Laid
    <2>2. Pow(2)[level + 1] = 2 * Pow(2)[level]
      BY <1>2, Powers
    <2>3. QED
      BY <1>1, <1>2, <2>1, <2>2
  <1>8. base # 0 /\ total' = QuantityAt(level)'
    <2>1. base # 0 /\ total = QuantityAt(level) /\ power = Pow(2)[level]
      BY <1>1 DEF Laid
    <2>2. total + s = QuantityAt(level + 1)
      BY <1>t, <2>1, QuantityGrows
    <2>3. QuantityAt(level)' = QuantityAt(level + 1)
      BY <1>1 DEF QuantityAt
    <2>4. QED
      BY <1>1, <2>1, <2>2, <2>3
  <1>9. p * D = price * k /\ p % u = 0
    <2>1. price % (D * u) = 0
      BY <1>4 DEF Laid
    <2> HIDE DEF p, u, k
    <2>2. QED
      BY <1>2, <1>4, <2>1, ExactStep
  <1>10. worst' = p
    <2>1. CASE level = 0
      BY <1>1, <2>1
    <2>2. CASE level # 0
      <3>1. worst = price
        BY <1>2, <2>2 DEF Laid
      <3>2. /\ req.direction = "LONG" => p =< price
            /\ req.direction # "LONG" => price =< p
        BY <1>t, PriceMoves
      <3> HIDE DEF p
      <3>3. Worse(price, p) = p
        BY <1>2, <3>2 DEF Worse
      <3>4. QED
        BY <1>1, <2>2, <3>1, <3>3
    <2>3. QED
      BY <2>1, <2>2
  <1>11. p * (D * d) = base * (k * e)
    <2>1. price * d = base * e
      BY DEF Laid
    <2> HIDE DEF p, k, d, e
    <2>2. p * (D * d) = (p * D) * d
      BY <1>2, <1>5
    <2>3. (price * k) * d = k * (price * d)
      BY <1>2, <1>5
    <2>4. k * (base * e) = base * (k * e)
      BY <1>2, <1>5
    <2>5. QED
      BY <1>9, <2>1, <2>2, <2>3, <2>4
  <1>12. price' * Pow(D)[level'] = base' * Pow(Factor')[level']
    BY <1>1, <1>5, <1>6, <1>11
  <1>13. price' % Pow(D)[MaxCount - level'] = 0
    BY <1>1, <1>9
  <1> HIDE DEF p, s, k, u, d, e
  <1>14. QED
    BY <1>1, <1>2, <1>7, <1>8, <1>10, <1>12, <1>13 DEF Laid

\* GridClosedForm for all inputs: a grid that is complete has the quantity
\* and the last price its configuration says, in either direction and every
\* volume mode, with any step and any number of levels.
THEOREM GridHasClosedForm == Spec => []GridClosedForm
  <1>1. Init => Laid
    <2> SUFFICES ASSUME Init PROVE Laid
      OBVIOUS
    <2>1. TypeOK
      BY RiskInit DEF RiskInv
    <2>2. D \in Nat \ {0} /\ Factor \in Nat /\ MaxCount \in Nat /\ req.count \in 1..MaxCount
      BY <2>1, FactorIsNat, DAssumption, CountAssumption
    <2>3. /\ Pow(2)[0] = 1 /\ Pow(D)[0] \in Nat /\ Pow(Factor)[0] \in Nat
          /\ Pow(D)[MaxCount - 0] \in Nat \ {0}
      BY <2>2, Powers
    <2>4. 0 % Pow(D)[MaxCount - 0] = 0
      BY <2>3
    <2>5. QED
      BY <2>2, <2>3, <2>4 DEF Init, Laid
  <1>2. RiskInv /\ Laid /\ [Next]_vars => Laid'
    <2> SUFFICES ASSUME RiskInv, Laid, [Next]_vars PROVE Laid'
      OBVIOUS
    <2>1. CASE NoAnchor
      BY <2>1 DEF NoAnchor, Laid, QuantityAt, Factor
    <2>2. CASE Decide
      BY <2>2 DEF Decide, Laid, QuantityAt, Factor
    <2>3. CASE UNCHANGED vars
      BY <2>3 DEF vars, Laid, QuantityAt, Factor
    <2>4. QED
      BY <2>1, <2>2, <2>3, LaidAnchor, LaidLevel DEF Next, Done
  <1>3. RiskInv /\ Laid => GridClosedForm
    <2> SUFFICES ASSUME RiskInv, Laid, level = req.count
                 PROVE  total = FullQuantity /\ worst = LastPrice
      BY DEF GridClosedForm
    <2>1. /\ D \in Nat \ {0} /\ Factor \in Nat /\ level \in Nat /\ level > 0
          /\ price \in Nat /\ base \in Nat
      BY FactorIsNat, DAssumption DEF RiskInv, TypeOK
    <2>2. total = FullQuantity
      <3>1. total = QuantityAt(level)
        BY <2>1 DEF Laid
      <3>2. QuantityAt(level) = FullQuantity
        BY DEF QuantityAt, FullQuantity
      <3>3. QED
        BY <3>1, <3>2
    <2> DEFINE d == Pow(D)[level]
    <2>3. d \in Nat \ {0}
      BY <2>1, Powers
    <2>4. price * d = base * Pow(Factor)[level] /\ worst = price
      BY <2>1 DEF Laid
    <2>5. (price * d) \div d = price
      BY <2>1, <2>3, Undo
    <2>6. LastPrice = (base * Pow(Factor)[level]) \div d
      BY DEF LastPrice, Factor
    <2>7. QED
      BY <2>2, <2>4, <2>5, <2>6
  <1>4. QED
    BY RiskInit, RiskNext, <1>1, <1>2, <1>3, PTL DEF Spec
=============================================================================

------------------------------ MODULE GridMath ------------------------------
(***************************************************************************)
(* The arithmetic of the grid: grid/engine.py, build_grid_levels, the      *)
(* anchor's side and the down-walk streak.  Prices and cash are integers   *)
(* (ticks), a holding of XRP is a number of rungs of ORDER_SIZE_XRP each   *)
(* (compute_order_size: every order is one rung), ratios and biases are    *)
(* percentages, and a spacing is the distance of two levels in ticks.      *)
(*                                                                         *)
(* SellArmsUncovered, DownWalkDecays and DownWalkForgets are faulty        *)
(* variants of the definition after them, for the mutant runs.             *)
(***************************************************************************)
EXTENDS Integers

AtLeast1(n) == IF n < 1 THEN 1 ELSE n

\* Python's round of n / d: to the nearest integer, a tie to the even one.
RoundHalfEven(n, d) ==
    LET q == n \div d
        r == n % d
    IN  IF 2 * r > d \/ (2 * r = d /\ q % 2 = 1) THEN q + 1 ELSE q

\* The share of the levels that buy, from the skew (v - u) / (v + u) of the
\* value v of the XRP and the cash u.
BuyRatio(v, u) ==
    LET t == v + u
        d == 10 * (v - u)
    IN  CASE t <= 0 \/ (d >= -2 * t /\ d <= 2 * t) -> 50
          [] t > 0 /\ d < -4 * t                  -> 65
          [] t > 0 /\ d >= -4 * t /\ d < -2 * t   -> 55
          [] t > 0 /\ d > 4 * t                   -> 35
          [] t > 0 /\ d <= 4 * t /\ d > 2 * t     -> 45

\* The geometry's buy bias scales the number of buys, sells take the rest.
TargetBuys(levels, ratio, bias) ==
    AtLeast1(RoundHalfEven(AtLeast1(RoundHalfEven(levels * ratio, 100)) * bias, 100))
TargetSells(levels, buys) == AtLeast1(levels - buys)

\* What the first i buys under a centre cost together.
LadderCost(centre, spacing, i) == i * centre - spacing * ((i * (i + 1)) \div 2)

\* Both ladders walk outward and stop at the first rung the holdings do not cover.
BuyArms(centre, spacing, n, usd) ==
    {[side |-> "buy", price |-> centre - i * spacing] :
        i \in {k \in 1..n : \A j \in 1..k : LadderCost(centre, spacing, j) <= usd}}
SellArmsUncovered(centre, spacing, n, xrp) ==
    {[side |-> "sell", price |-> centre + i * spacing] : i \in {k \in 1..n : k <= xrp + 1}}
SellArms(centre, spacing, n, xrp) ==
    {[side |-> "sell", price |-> centre + i * spacing] : i \in {k \in 1..n : k <= xrp}}

Arms(centre, spacing, levels, bias, xrp, usd) ==
    LET n == TargetBuys(levels, BuyRatio(xrp * centre, usd), bias)
    IN  BuyArms(centre, spacing, n, usd)
        \cup SellArms(centre, spacing, TargetSells(levels, n), xrp)

\* An anchor follows the skew unless the exposure cap forces a sell.
AnchorSide(spot, xrp, usd, capped) ==
    IF capped \/ xrp * spot > usd THEN "sell" ELSE "buy"

\* The centre of the last rebuild, 0 when it or its date is not recorded.
LastCentre(w) == IF w.dated THEN w.centre ELSE 0

\* The streak a rebuild at centre c would have, from what is recorded of the last
\* one: w.linked while its date is within DOWN_WALK_LINK_HOURS.
DownWalkDecays(w, c) == IF c < w.centre THEN w.streak + 1 ELSE w.streak - 1
DownWalkForgets(w, c) == IF c < w.centre THEN (IF w.linked THEN w.streak + 1 ELSE 1) ELSE 0
DownWalkAssess(w, c) ==
    LET last == LastCentre(w)
    IN  CASE last # 0 /\ c < last /\ w.linked    -> w.streak + 1
          [] last # 0 /\ c < last /\ ~w.linked   -> 1
          [] last # 0 /\ c = last /\ w.linked    -> w.streak
          [] OTHER                               -> 0
=============================================================================

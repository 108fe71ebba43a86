--------------------------- MODULE SpacingScorer ----------------------------
(***************************************************************************)
(* magi/spacing_evaluator.py: the variants of the grid, scored by the      *)
(* swings their arms would have harvested over the last closes, and what   *)
(* the gate reads of the scores (gate._compute_scorer_state).              *)
(*                                                                         *)
(* Spacings, fees and thresholds are basis points; the expected daily P&L  *)
(* is scaled and rounded down.  The rank depends on the fee and the shape  *)
(* only, never on the candles: the code says so of its sort key.           *)
(***************************************************************************)
EXTENDS Integers, Sequences, FiniteSets, SequencesExt

CONSTANTS
    Variants,   \* DEFAULT_VARIANTS: [levels, spacing]
    FeePerSide, \* GRID_LEVEL_FEE_PER_SIDE
    MinSpacing, \* MIN_GRID_SPACING_PCT
    MaxSpacing, \* MAX_GRID_SPACING_PCT
    FullDay,    \* candles the scorer asks for, 24
    None

ASSUME ScorerAssumption ==
    /\ {FeePerSide, MinSpacing, MaxSpacing} \subseteq Nat
    /\ FullDay \in Nat \ {0}
    /\ Variants # {}
    /\ \A v \in Variants : v.levels \in Nat /\ v.levels > 1 /\ v.spacing \in Nat

Least(a, b) == IF a < b THEN a ELSE b
Most(a, b) == IF a > b THEN a ELSE b

InBounds == {v \in Variants : MinSpacing <= v.spacing /\ v.spacing <= MaxSpacing}
Profit(v) == v.spacing - 2 * FeePerSide
Acceptable(v) == v.spacing >= 6 * FeePerSide

-----------------------------------------------------------------------------
\* One close of the walk: a leg ends when the close is an amplitude away from
\* the extreme since the last leg, against the direction of that leg.
Swing(s, close, amplitude) ==
    LET hi   == Most(s.hi, close)
        lo   == Least(s.lo, close)
        down == s.dirn >= 0 /\ 10000 * close <= hi * (10000 - amplitude)
        up   == ~down /\ s.dirn <= 0 /\ 10000 * close >= lo * (10000 + amplitude)
    IN  IF down \/ up
        THEN [legs |-> s.legs + 1, dirn |-> IF up THEN 1 ELSE -1, hi |-> close, lo |-> close]
        ELSE [s EXCEPT !.hi = hi, !.lo = lo]

Legs(closes, amplitude) ==
    FoldLeft(LAMBDA s, c : Swing(s, c, amplitude),
             [legs |-> 0, dirn |-> 0, hi |-> closes[1], lo |-> closes[1]], Tail(closes)).legs

\* expected_daily_pnl_pct: every pair i catches the swings of 2 i spacings.
DailyPnl(v, closes) ==
    LET legs == FoldFunction(LAMBDA a, b : a + b, 0,
                             [i \in 1..(v.levels \div 2) |-> Legs(closes, 2 * i * v.spacing)])
    IN  (2400 * Profit(v) * legs) \div (v.levels * Len(closes))

\* The sort key: acceptable, then the widest gap, then the fewest levels.
RanksBefore(v, w) ==
    \/ Acceptable(v) /\ ~Acceptable(w)
    \/ /\ Acceptable(v) = Acceptable(w)
       /\ Profit(v) > Profit(w) \/ (Profit(v) = Profit(w) /\ v.levels < w.levels)
FirstRank == CHOOSE v \in InBounds : \A w \in InBounds \ {v} : RanksBefore(v, w)

\* Fewer candles leave the P&L unknown, and no variant acceptable.
Known(closes) == Len(closes) >= FullDay

\* _compute_scorer_state: closes, oldest first, and the grid deployed.
ScorerState(closes, deployed) ==
    LET known == Known(closes)
        first == IF known /\ InBounds # {} /\ Acceptable(FirstRank) THEN FirstRank ELSE None
    IN  [rank1      |-> first,
         gain       |-> IF first = None THEN None ELSE DailyPnl(first, closes),
         deployed   |-> IF known /\ deployed \in InBounds THEN DailyPnl(deployed, closes) ELSE None,
         acceptable |-> known /\ \E v \in InBounds : Acceptable(v)]
=============================================================================

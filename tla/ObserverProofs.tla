--------------------------- MODULE ObserverProofs ---------------------------
(***************************************************************************)
(* What five of the observer's ledgers tell: the gate's W2 rows the story  *)
(* of the exposure cap, the alert board the collapse of the council, the   *)
(* fills of a shadow grid the money it holds, the filled orders the profit *)
(* that was realised, a receipt the scores that arrived.                   *)
(***************************************************************************)
EXTENDS GateTriggers, AlertLedger, ShadowGrid, FifoMatch, OutcomeScores,
        FiniteSetTheorems, RecursionProofs

-----------------------------------------------------------------------------
(***************************************************************************)
(* The cap's story told by the fired W2 rows is true, for every world, any *)
(* streak and any interleaving of the two evaluators, failing or dying.    *)
(***************************************************************************)
EvalFields == {"t4", "t6", "t7", "t14", "t15", "w2"}

\* The inductive invariant: what was heard is the cap of the newest W2_eval row.
StoryInv ==
    /\ evals = [x \in EvalFields |-> evals[x]]
    /\ evals.w2 # None => heard \in BOOLEAN /\ heard = evals.w2.cap

LEMMA StoryInitial == GateInit => StoryInv
<1> SUFFICES ASSUME GateInit PROVE StoryInv
    OBVIOUS
<1>1. evals = [t4 |-> None, t6 |-> <<>>, t7 |-> None, t14 |-> None, t15 |-> None, w2 |-> None]
    BY DEF GateInit
<1>2. evals.w2 = None BY <1>1
<1>3. evals = [x \in EvalFields |-> evals[x]] BY <1>1 DEF EvalFields
<1>4. QED BY <1>2, <1>3 DEF StoryInv

\* A step that writes no gate row.
LEMMA StorySilent ==
    ASSUME StoryInv, heard' = heard, evals' = [x \in EvalFields |-> evals'[x]],
           evals'.w2 = evals.w2
    PROVE  StoryInv'
BY DEF StoryInv

\* The W2 row of an evaluation fires exactly when the story changes.
LEMMA GateRowsTell ==
    ASSUME StoryInv, NEW t \in Threads, NEW scored \in BOOLEAN, NEW readable \in BOOLEAN,
           GateRows(t, scored, readable)
    PROVE  StoryInv'
<1> DEFINE w     == seen[t].world
           now   == [verdict |-> world.verdict, cap |-> readable /\ CapEngaged(world)]
           score == Score[world]
           four  == IdleHours(w)
           six   == IF scored THEN Latest(2, <<score.rank1>> \o evals.t6) ELSE evals.t6
           seven == IF scored THEN score.acceptable ELSE evals.t7
<1>1. evals' = [evals EXCEPT !.t4 = four, !.t6 = six, !.t7 = seven, !.w2 = now]
    BY DEF GateRows
<1>2. heard' = IF evals.w2 = None THEN now.cap
               ELSE IF CapShifted(evals.w2, now) THEN ~heard ELSE heard
    BY DEF GateRows, Prior
<1>3. now.cap \in BOOLEAN BY DEF CapEngaged
<1> HIDE DEF w, now, score, four, six, seven
<1>4. /\ evals' = [x \in EvalFields |-> evals'[x]]
      /\ evals'.w2 = now
    BY <1>1 DEF StoryInv, EvalFields
<1>5. heard' = now.cap
    <2>1. CASE evals.w2 = None BY <1>2, <2>1
    <2>2. CASE evals.w2 # None
        <3>1. heard \in BOOLEAN /\ heard = evals.w2.cap BY <2>2 DEF StoryInv
        <3>2. CapShifted(evals.w2, now) <=> heard # now.cap BY <2>2, <3>1 DEF CapShifted
        <3>3. CASE heard = now.cap BY <1>2, <2>2, <3>2, <3>3
        <3>4. CASE heard # now.cap
            <4>1. heard' = ~heard BY <1>2, <2>2, <3>2, <3>4
            <4>2. QED BY <1>3, <3>1, <3>4, <4>1
        <3>5. QED BY <3>3, <3>4
    <2>3. QED BY <2>1, <2>2
<1>6. QED BY <1>3, <1>4, <1>5 DEF StoryInv

LEMMA StoryStep == StoryInv /\ [GateNext]_gateVars => StoryInv'
<1> SUFFICES ASSUME StoryInv, [GateNext]_gateVars PROVE StoryInv'
    OBVIOUS
<1>a. ASSUME evals' = evals, heard' = heard PROVE StoryInv'
    BY <1>a, StorySilent DEF StoryInv
<1>1. ASSUME NEW t \in Threads, GateCommit(t) PROVE StoryInv'
    BY <1>1, GateRowsTell DEF GateCommit
<1>2. ASSUME NEW t \in Threads, BookAfterGate(t) PROVE StoryInv'
    BY <1>2, <1>a DEF BookAfterGate, BookRead
<1>3. ASSUME NEW t \in Threads, BookCommit(t) PROVE StoryInv'
    <2> DEFINE one == OneSided(seen[t].world)
               far == SkewBreached(seen[t].world)
    <2>1. evals' = [evals EXCEPT !.t14 = one, !.t15 = far] /\ heard' = heard
        BY <1>3 DEF BookCommit
    <2> HIDE DEF one, far
    <2>2. evals' = [x \in EvalFields |-> evals'[x]] /\ evals'.w2 = evals.w2
        BY <2>1 DEF StoryInv, EvalFields
    <2>3. QED BY <2>1, <2>2, StorySilent
<1>4. ASSUME NEW t \in Threads, Rollback(t) PROVE StoryInv'
    BY <1>4, <1>a DEF Rollback
<1>5. CASE MonitorEvaluates BY <1>5, <1>a DEF MonitorEvaluates, GateRead
<1>6. CASE MonitorDies BY <1>6, <1>a DEF MonitorDies
<1>7. CASE Polling
    BY <1>7, <1>a DEF Polling, Hourly, PollEvaluates, GateRead, PollRelies,
                      LiveBookCheck, BookRead, ObserverEnds
<1>8. CASE WorldMoves BY <1>8, <1>a DEF WorldMoves
<1>9. CASE UNCHANGED gateVars BY <1>9, <1>a DEF gateVars
<1>10. QED
    BY <1>1, <1>2, <1>3, <1>4, <1>5, <1>6, <1>7, <1>8, <1>9 DEF GateNext, Evaluating

\* The fired W2 rows alone tell whether the cap is engaged, as the last
\* evaluation saw it, whichever thread evaluated and whatever failed
\* (w2_stance_evidence_shift under SQLite's write lock).
THEOREM CapStoryAlwaysHolds == GateSpec => []CapStoryHolds
<1>1. StoryInv => CapStoryHolds BY DEF StoryInv, CapStoryHolds
<1>2. QED BY StoryInitial, StoryStep, <1>1, PTL DEF GateSpec

-----------------------------------------------------------------------------
(***************************************************************************)
(* A collapse of the council stays on the alert board, for every set of    *)
(* seats, every deduplication window and any number of failures.           *)
(***************************************************************************)
OnBoard == \E a \in alerts : a.key = Collapsed

\* The inductive invariant: besides the property, what the alert step leaves
\* to the step that persists the tier.
AlertInv ==
    /\ tier \in 0..2
    /\ degraded \subseteq Agents
    /\ tier = 2 /\ ~excused => OnBoard
    /\ alerting = "persist" /\ Tier(degraded) = 2 /\ ~excused => OnBoard

\* _degradation_tier: a tier is 0, 1 or 2, whatever seats degraded.
LEMMA TierType == ASSUME NEW found \in SUBSET Agents PROVE Tier(found) \in 0..2
<1>1. IsFiniteSet(found) BY AlertAssumption, FS_Subset
<1>2. Cardinality(found) \in Nat BY <1>1, FS_CardinalityType
<1>3. QED BY <1>2 DEF Tier

\* insert_alert: whether it writes a row or drops a repetition, an unresolved
\* alert of the key is left, and no other goes away.
LEMMA InsertLeavesAlert ==
    ASSUME NEW key, InsertAlert(key)
    PROVE  (\E a \in alerts' : a.key = key) /\ alerts \subseteq alerts'
<1>1. CASE Repeats(key)
    <2>1. alerts' = alerts BY <1>1 DEF InsertAlert
    <2>2. \E a \in alerts : a.key = key BY <1>1 DEF Repeats
    <2>3. QED BY <2>1, <2>2
<1>2. CASE ~Repeats(key)
    <2> DEFINE new == [key |-> key, at |-> tick]
    <2>1. alerts' = alerts \cup {new} BY <1>2 DEF InsertAlert
    <2>2. new.key = key OBVIOUS
    <2>3. QED BY <2>1, <2>2
<1>3. QED BY <1>1, <1>2

\* A collapse raises the alert of a collapse.
LEMMA CollapseKey == ASSUME NEW found, Tier(found) = 2 PROVE AlertKey(found) = Collapsed
BY DEF Tier, AlertKey

LEMMA AlertInitial == AlertInit => AlertInv
BY DEF AlertInit, AlertInv

LEMMA AlertStep == AlertInv /\ [AlertNext]_alertVars => AlertInv'
<1> SUFFICES ASSUME AlertInv, [AlertNext]_alertVars PROVE AlertInv'
    OBVIOUS
<1> USE DEF AlertInv
<1>1. CASE CheckDegradation
    <2>1. PICK found \in SUBSET Agents :
              /\ degraded' = found
              /\ alerting' = IF Rises(found) THEN "raise" ELSE "persist"
        BY <1>1 DEF CheckDegradation
    <2>2. tier' = tier /\ alerts' = alerts BY <1>1 DEF CheckDegradation
    <2>3. tier = 2 /\ ~excused' => ~excused BY <1>1 DEF CheckDegradation
    <2>4. OnBoard' = OnBoard BY <2>2 DEF OnBoard
    <2>5. alerting' = "persist" /\ Tier(degraded)' = 2 => tier = 2
        <3> SUFFICES ASSUME alerting' = "persist", Tier(found) = 2 PROVE tier = 2
            BY <2>1 DEF Tier
        <3>1. ~Rises(found) BY <2>1
        <3>2. QED BY <3>1 DEF Rises
    <2>6. QED BY <2>1, <2>2, <2>3, <2>4, <2>5
<1>2. CASE RaiseDegradation
    <2>1. tier' = tier /\ degraded' = degraded /\ Tier(degraded)' = Tier(degraded)
        BY <1>2 DEF RaiseDegradation, Tier
    <2>2. CASE excused' BY <2>1, <2>2
    <2>3. CASE ~excused'
        <3>1. InsertAlert(AlertKey(degraded)) /\ excused' = excused
            BY <1>2, <2>3 DEF RaiseDegradation
        <3>2. OnBoard => OnBoard' BY <3>1, InsertLeavesAlert DEF OnBoard
        <3>3. Tier(degraded) = 2 => OnBoard'
            BY <3>1, InsertLeavesAlert, CollapseKey DEF OnBoard, Collapsed
        <3>4. QED BY <2>1, <3>1, <3>2, <3>3
    <2>4. QED BY <2>2, <2>3
<1>3. CASE PersistTier
    <2>1. /\ alerting = "persist" /\ alerting' = "idle" /\ degraded' = {}
          /\ alerts' = alerts /\ excused' = excused
          /\ tier' = Tier(degraded) \/ tier' = tier
        BY <1>3 DEF PersistTier
    <2>2. tier' \in 0..2 BY <2>1, TierType
    <2>3. OnBoard' = OnBoard BY <2>1 DEF OnBoard
    <2>4. QED BY <2>1, <2>2, <2>3
<1>4. CASE OperatorResolves
    <2>1. PICK a \in alerts : /\ alerts' = alerts \ {a}
                              /\ excused' = (excused \/ a.key = Collapsed)
        BY <1>4 DEF OperatorResolves
    <2>2. /\ tier' = tier /\ degraded' = degraded /\ alerting' = alerting
          /\ Tier(degraded)' = Tier(degraded)
        BY <1>4 DEF OperatorResolves, Tier
    <2>3. ~excused' => ~excused /\ (OnBoard => OnBoard')
        BY <2>1 DEF OnBoard, Collapsed
    <2>4. QED BY <2>2, <2>3
<1>5. CASE AlertRestart
    <2>1. OnBoard' = OnBoard BY <1>5 DEF AlertRestart, OnBoard
    <2>2. QED BY <1>5, <2>1 DEF AlertRestart
<1>6. CASE AlertTick
    <2>1. OnBoard' = OnBoard /\ Tier(degraded)' = Tier(degraded)
        BY <1>6 DEF AlertTick, OnBoard, Tier
    <2>2. QED BY <1>6, <2>1 DEF AlertTick
<1>7. CASE UNCHANGED alertVars
    <2>1. OnBoard' = OnBoard /\ Tier(degraded)' = Tier(degraded)
        BY <1>7 DEF alertVars, OnBoard, Tier
    <2>2. QED BY <1>7, <2>1 DEF alertVars
<1>8. QED BY <1>1, <1>2, <1>3, <1>4, <1>5, <1>6, <1>7 DEF AlertNext

\* Once the persisted tier says collapsed, an unresolved alert of the collapse
\* stands unless its insert failed or the operator resolved it
\* (_maybe_fire_degradation_alert over insert_alert).
THEOREM CollapseAlwaysOnBoard == AlertSpec => []CollapseOnBoard
<1>1. AlertInv => CollapseOnBoard BY DEF AlertInv, CollapseOnBoard, OnBoard
<1>2. QED BY AlertInitial, AlertStep, <1>1, PTL DEF AlertSpec

-----------------------------------------------------------------------------
(***************************************************************************)
(* The accounts of the shadow grids, for every set of level counts,        *)
(* grounds, prices and fees.  First, what a total is.                      *)
(***************************************************************************)
\* The total of a sequence is the last of its partial sums.
LEMMA TotalIsFold ==
    ASSUME NEW s \in Seq(Int)
    PROVE  \E p : /\ p[0] = 0 /\ Total(s) = p[Len(s)]
                  /\ \A k \in 1..Len(s) : p[k] = p[k - 1] + s[k]
<1> DEFINE n == Len(s)
           G == [k \in 1..n |-> [x \in Int |-> x + s[k]]]
           Sum(f) == [t \in SUBSET DOMAIN s |-> IF t = {} THEN 0 ELSE f[t \ {Max(t)}] + s[Max(t)]]
           h == CHOOSE f : f = Sum(f)
           p == [k \in 0..n |-> h[1..k]]
<1>1. n \in Nat /\ DOMAIN s = 1..n /\ \A k \in 1..n : s[k] \in Int
    OBVIOUS
<1>2. Total(s) = h[1..n]
    <2>1. Total(s) = h[DOMAIN s]
        BY Zenon DEF Total, FoldLeft, MapThenFoldSet
    <2> QED BY <2>1, <1>1
<1>3. \A k \in 1..n : G[k] \in [Int -> Int]
    BY <1>1
<1>4. PICK f : IsFold(f, n, Int, 0, G)
    <2> HIDE DEF G, n, Sum, h, p
    <2>1. n \in Nat /\ 0 \in Int
        BY <1>1
    <2> QED BY <2>1, <1>3, FoldExists
<1>5. f = Sum(f)
    <2>1. /\ f \in [SUBSET (1..n) -> Int] /\ f[{}] = 0
          /\ \A t \in SUBSET (1..n) :
                t # {} => Max(t) \in t /\ f[t] = G[Max(t)][f[t \ {Max(t)}]]
        <3> HIDE DEF G, n
        <3> QED BY <1>4 DEF IsFold
    <2>2. ASSUME NEW t \in SUBSET (1..n), t # {}
          PROVE  f[t] = f[t \ {Max(t)}] + s[Max(t)]
        <3>1. Max(t) \in 1..n /\ f[t] = G[Max(t)][f[t \ {Max(t)}]]
            BY <2>1, <2>2
        <3>2. t \ {Max(t)} \in SUBSET (1..n)
            OBVIOUS
        <3>3. f[t \ {Max(t)}] \in Int
            BY <2>1, <3>2
        <3> QED BY <3>1, <3>3
    <2>3. \A t \in SUBSET (1..n) : f[t] = Sum(f)[t]
        BY <2>1, <2>2, <1>1
    <2>4. DOMAIN Sum(f) = SUBSET (1..n)
        BY <1>1
    <2>5. Sum(f) = [t \in DOMAIN Sum(f) |-> Sum(f)[t]]
        OBVIOUS
    <2>6. f = [t \in SUBSET (1..n) |-> f[t]]
        BY <2>1
    <2> HIDE DEF Sum, n
    <2> QED BY <2>3, <2>4, <2>5, <2>6
<1>6. h = Sum(h)
    <2> HIDE DEF Sum
    <2> QED BY <1>5
<1>7. h[{}] = 0 /\ \A k \in 1..n : h[1..k] = h[1..k - 1] + s[k]
    <2>1. \A t \in SUBSET (1..n) : h[t] = IF t = {} THEN 0 ELSE h[t \ {Max(t)}] + s[Max(t)]
        <3> HIDE DEF h
        <3> QED BY <1>1, <1>6
    <2>2. ASSUME NEW k \in 1..n PROVE Max(1..k) = k /\ (1..k) \ {k} = 1..k - 1 /\ 1..k # {}
        <3>1. k \in 1..k /\ \A y \in 1..k : k >= y
            OBVIOUS
        <3>2. ASSUME NEW x \in 1..k, \A y \in 1..k : x >= y PROVE x = k
            BY <3>1, <3>2
        <3> QED BY <3>1, <3>2 DEF Max
    <2>3. \A k \in 1..n : 1..k \in SUBSET (1..n)
        OBVIOUS
    <2> HIDE DEF h
    <2> QED BY <2>1, <2>2, <2>3
<1>8. p[0] = 0 /\ p[n] = h[1..n] /\ \A k \in 1..n : p[k] = p[k - 1] + s[k]
    <2>1. 1..0 = {} /\ 0 \in 0..n /\ n \in 0..n
        BY <1>1
    <2> HIDE DEF h
    <2> QED BY <1>1, <1>7, <2>1
<1> HIDE DEF p, h
<1> QED BY <1>2, <1>8

\* Partial sums are integers and there is one way to take them.
LEMMA TotalReached ==
    ASSUME NEW s \in Seq(Int), NEW p, p[0] = 0, \A k \in 1..Len(s) : p[k] = p[k - 1] + s[k]
    PROVE  Total(s) = p[Len(s)] /\ Total(s) \in Int
<1> DEFINE n == Len(s)
<1>1. PICK q : /\ q[0] = 0 /\ Total(s) = q[n]
               /\ \A k \in 1..n : q[k] = q[k - 1] + s[k]
    BY TotalIsFold
<1> DEFINE S == {m \in Nat : m <= n => q[m] = p[m] /\ q[m] \in Int}
<1>2. n \in Nat /\ \A k \in 1..n : s[k] \in Int
    OBVIOUS
<1>3. 0 \in S
    BY <1>1
<1>4. ASSUME NEW m \in Nat, m \in S PROVE m + 1 \in S
    <2> SUFFICES ASSUME m + 1 <= n PROVE q[m + 1] = p[m + 1] /\ q[m + 1] \in Int
        OBVIOUS
    <2>1. m + 1 \in 1..n /\ (m + 1) - 1 = m /\ q[m] = p[m] /\ q[m] \in Int
        BY <1>2, <1>4
    <2> QED BY <2>1, <1>1, <1>2
<1>5. Nat \subseteq S
    <2> HIDE DEF S
    <2> QED BY <1>3, <1>4, SetInduction
<1> QED BY <1>1, <1>2, <1>5

\* One more term adds to the total.
LEMMA TotalAppend ==
    ASSUME NEW s \in Seq(Int), NEW x \in Int
    PROVE  Total(s) \in Int /\ Total(Append(s, x)) = Total(s) + x
<1> DEFINE n == Len(s)
           longer == Append(s, x)
<1>1. n \in Nat /\ longer \in Seq(Int) /\ Len(longer) = n + 1
      /\ longer[n + 1] = x /\ \A k \in 1..n : longer[k] = s[k]
    OBVIOUS
<1>2. PICK p : /\ p[0] = 0 /\ Total(longer) = p[Len(longer)]
               /\ \A k \in 1..Len(longer) : p[k] = p[k - 1] + longer[k]
    <2> HIDE DEF longer
    <2> QED BY <1>1, TotalIsFold
<1> HIDE DEF longer
<1>3. \A k \in 1..n : p[k] = p[k - 1] + s[k]
    BY <1>1, <1>2
<1>4. Total(s) = p[n] /\ Total(s) \in Int
    BY <1>2, <1>3, TotalReached
<1>5. p[n + 1] = p[n] + x
    <2>1. n + 1 \in 1..Len(longer) /\ (n + 1) - 1 = n
        BY <1>1
    <2> QED BY <1>1, <1>2, <2>1
<1> QED BY <1>1, <1>2, <1>4, <1>5 DEF longer

\* Nothing adds up to nothing.
LEMMA TotalEmpty == Total(<< >>) = 0
<1>1. << >> \in Seq(Int) /\ Len(<< >>) = 0
    OBVIOUS
<1> QED BY <1>1, TotalIsFold

(***************************************************************************)
(* One variant.  Money is kept per fill: a fill of an order that can be    *)
(* afforded adds its term to both totals, and dropping old fills leaves    *)
(* nothing to say.                                                         *)
(***************************************************************************)
OrderType == [level : Int, side : {"buy", "sell"}, price : Nat, size : Nat]
FillType  == [side : {"buy", "sell"}, price : Nat, size : Nat, hour : Nat]
GridType  == [centre : Nat, spacing : 1..99, orders : Seq(OrderType), fills : Seq(FillType),
              price : Nat, xrp : Nat, usd : Nat]

\* A shadow grid whose money is what its fills left.
Sound == {s \in GridType : Len(s.fills) < Kept => Balanced(s)}

\* The inductive invariant: every variant and every row is sound, and a rebuild
\* after a restart gets a ground that was asked for.
ShadowInv ==
    /\ shadows \in [AllLevels -> Sound]
    /\ \A r \in DOMAIN saved : saved[r] \in Sound
    /\ ground # NoGround => \E g \in Grounds : g.centre = ground.centre /\ g.spacing = ground.spacing
    /\ hour \in Nat

\* A level count has a lowest arm with a price on every ground.
LEMMA LevelsKnown ==
    ASSUME NEW lc \in AllLevels
    PROVE  /\ lc \in Nat /\ lc > 1 /\ lc \div 2 \in Nat /\ lc \div 2 >= 1
           /\ \A g \in Grounds : (lc \div 2) * g.spacing <= 100
<1>1. PICK i \in 1..Len(ShadowLevels) : lc = ShadowLevels[i]
    BY DEF AllLevels
<1>2. lc \in Nat /\ lc > 1
    BY <1>1, ShadowAssumption
<1>3. lc \div 2 \in Nat /\ lc \div 2 >= 1
    BY <1>2
<1> QED BY <1>1, <1>2, <1>3, ShadowAssumption

\* The integer part of a quotient is a number.
LEMMA Divided == ASSUME NEW a \in Nat, NEW b \in Nat, b > 0 PROVE a \div b \in Nat
    BY SMT

\* A variant starts with its budget and no fill.
LEMMA FreshSound == FreshShadow \in Sound
<1>1. FreshShadow \in GridType
    BY ShadowAssumption DEF FreshShadow, GridType
<1>2. Balanced(FreshShadow)
    <2>1. FreshShadow.fills = << >> /\ FreshShadow.xrp = 0 /\ FreshShadow.usd = 100 * Budget
        BY DEF FreshShadow
    <2>2. \A F : 1..Len(<< >>) = {} 
        OBVIOUS
    <2> QED BY <2>1, <2>2, TotalEmpty, ShadowAssumption DEF Balanced
<1> QED BY <1>1, <1>2 DEF Sound

\* The accounts look at nothing but the fills and the money.
LEMMA SameAccount ==
    ASSUME NEW s \in Sound, NEW t \in GridType,
           t.fills = s.fills, t.xrp = s.xrp, t.usd = s.usd
    PROVE  t \in Sound
    BY DEF Sound, Balanced

\* The last n of a sequence are n, or all of it.
LEMMA LastOfLength ==
    ASSUME NEW S, NEW s \in Seq(S), NEW n \in Nat
    PROVE  /\ LastOf(s, n) \in Seq(S)
           /\ Len(LastOf(s, n)) < n => LastOf(s, n) = s
<1>1. CASE Len(s) <= n
    BY <1>1 DEF LastOf
<1>2. CASE ~(Len(s) <= n)
    <2>1. LastOf(s, n) = SubSeq(s, Len(s) - n + 1, Len(s))
        BY <1>2 DEF LastOf
    <2>2. Len(s) - n + 1 \in 1..Len(s) + 1 /\ Len(s) \in Nat
        BY <1>2
    <2> DEFINE from == Len(s) - n + 1
    <2> HIDE DEF from
    <2>3. SubSeq(s, from, Len(s)) \in Seq(S) /\ Len(SubSeq(s, from, Len(s))) = n
        BY <2>2 DEF from
    <2> QED BY <2>1, <2>3 DEF from
<1> QED BY <1>1, <1>2

\* Dropping old fills of a sound variant leaves a sound one.
LEMMA ForgetSound ==
    ASSUME NEW s \in Sound, NEW n \in Nat, n >= Kept
    PROVE  [s EXCEPT !.fills = LastOf(@, n)] \in Sound
<1> DEFINE t == [s EXCEPT !.fills = LastOf(@, n)]
<1>1. s \in GridType /\ s.fills \in Seq(FillType)
    BY DEF Sound, GridType
<1>2. LastOf(s.fills, n) \in Seq(FillType)
      /\ (Len(LastOf(s.fills, n)) < n => LastOf(s.fills, n) = s.fills)
    BY <1>1, LastOfLength
<1>3. t \in GridType /\ t.fills = LastOf(s.fills, n) /\ t.xrp = s.xrp /\ t.usd = s.usd
    BY <1>1, <1>2 DEF GridType
<1>4. CASE Len(t.fills) < Kept
    <2>1. t.fills = s.fills
        <3>1. Len(t.fills) \in Nat /\ Kept \in Nat
            BY <1>2, <1>3, ShadowAssumption
        <3> QED BY <1>2, <1>3, <1>4, <3>1
    <2> QED BY <1>3, <2>1, SameAccount
<1>5. CASE ~(Len(t.fills) < Kept)
    BY <1>3, <1>5 DEF Sound
<1> QED BY <1>4, <1>5

\* The arms of a rebuild are orders: no price is negative.
LEMMA RestingType ==
    ASSUME NEW lc \in AllLevels, NEW centre \in Nat \ {0}, NEW spacing \in 1..99,
           (lc \div 2) * spacing <= 100
    PROVE  RestingOrders(lc, centre, spacing) \in Seq(OrderType)
<1> DEFINE half == lc \div 2
           size == (Budget \div half) \div centre
           Arm(i, side, percent) ==
             [level |-> i, side |-> side, price |-> (centre * percent) \div 100, size |-> size]
           At(k) == LET i == (k + 1) \div 2
                    IN  IF k % 2 = 1 THEN Arm(-i, "buy", 100 - i * spacing)
                                     ELSE Arm(i, "sell", 100 + i * spacing)
<1>1. half \in Nat /\ half >= 1
    BY LevelsKnown
<1>2. size \in Nat
    <2>1. Budget \div half \in Nat
        <3>1. Budget \in Nat
            BY ShadowAssumption
        <3> HIDE DEF half
        <3> QED BY <1>1, <3>1, Divided
    <2> QED BY <2>1, Divided
<1>3. ASSUME NEW i \in Int, NEW side \in {"buy", "sell"}, NEW percent \in Nat
      PROVE  Arm(i, side, percent) \in OrderType
    <2>1. centre * percent \in Nat
        OBVIOUS
    <2>2. (centre * percent) \div 100 \in Nat
        BY <2>1, Divided
    <2> HIDE DEF size
    <2> QED BY <1>2, <2>2 DEF OrderType
<1> HIDE DEF size, Arm
<1>4. ASSUME NEW k \in 1..(2 * half) PROVE At(k) \in OrderType
    <2> DEFINE i == (k + 1) \div 2
    <2>1. i \in Nat /\ i >= 1 /\ i <= half
        BY <1>1
    <2> HIDE DEF i, half
    <2>2. i * spacing <= half * spacing /\ i * spacing \in Nat
        <3>1. (half - i) \in Nat
            BY <1>1, <2>1
        <3>2. (half - i) * spacing \in Nat
            BY <3>1
        <3>3. (half - i) * spacing = half * spacing - i * spacing
            BY <1>1, <2>1
        <3>4. i * spacing \in Nat /\ half * spacing \in Nat
            BY <1>1, <2>1
        <3> QED BY <3>2, <3>3, <3>4
    <2>3. half * spacing <= 100 /\ half * spacing \in Nat
        BY <1>1 DEF half
    <2>4. 100 - i * spacing \in Nat /\ 100 + i * spacing \in Nat /\ -i \in Int
        BY <2>1, <2>2, <2>3
    <2>5. Arm(-i, "buy", 100 - i * spacing) \in OrderType
          /\ Arm(i, "sell", 100 + i * spacing) \in OrderType
        BY <1>3, <2>1, <2>4
    <2>6. At(k) = Arm(-i, "buy", 100 - i * spacing) \/ At(k) = Arm(i, "sell", 100 + i * spacing)
        BY DEF i
    <2> HIDE DEF At
    <2> QED BY <2>5, <2>6
<1>5. RestingOrders(lc, centre, spacing) = [k \in 1..(2 * half) |-> At(k)]
    BY DEF RestingOrders, Arm, size
<1>6. 2 * half \in Nat
    BY <1>1
<1> HIDE DEF At, half
<1> QED BY <1>4, <1>5, <1>6

\* Recentring and rebuilding touch neither fills nor money.
LEMMA RebuildSound ==
    ASSUME NEW lc \in AllLevels, NEW s \in Sound, NEW centre \in Nat \ {0}, NEW spacing \in 1..99,
           (lc \div 2) * spacing <= 100
    PROVE  UpdateCentre(s, centre, spacing) \in Sound /\ Rebuild(s, lc, centre, spacing) \in Sound
<1>1. RestingOrders(lc, centre, spacing) \in Seq(OrderType)
    BY RestingType
<1>2. UpdateCentre(s, centre, spacing) \in GridType
    BY DEF UpdateCentre, Sound, GridType
<1>3. Rebuild(s, lc, centre, spacing) \in GridType
    BY <1>1, <1>2 DEF Rebuild, GridType
<1>4. /\ UpdateCentre(s, centre, spacing).fills = s.fills
      /\ UpdateCentre(s, centre, spacing).xrp = s.xrp
      /\ UpdateCentre(s, centre, spacing).usd = s.usd
    BY DEF UpdateCentre, Sound, GridType
<1>5. /\ Rebuild(s, lc, centre, spacing).fills = s.fills
      /\ Rebuild(s, lc, centre, spacing).xrp = s.xrp
      /\ Rebuild(s, lc, centre, spacing).usd = s.usd
    BY <1>2, <1>4 DEF Rebuild, GridType
<1> QED BY <1>2, <1>3, <1>4, <1>5, SameAccount

\* A function on 1..n is a sequence.
LEMMA FunctionIsSeq ==
    ASSUME NEW n \in Nat, NEW S, NEW f \in [1..n -> S]
    PROVE  f \in Seq(S)
    OBVIOUS

\* A fill of an order that can be afforded.
LEMMA TradedSound ==
    ASSUME hour \in Nat, NEW s \in Sound, NEW order \in OrderType, Affords(s, order)
    PROVE  Traded(s, order) \in Sound
<1> DEFINE sign == IF order.side = "buy" THEN 1 ELSE -1
           f == [side |-> order.side, price |-> order.price, size |-> order.size, hour |-> hour]
           t == Traded(s, order)
           W == Worth(order)
           Net(e) == IF e.side = "buy" THEN 1 ELSE -1
           Xrp(e) == Net(e) * e.size
           Usd(e) == 100 * Net(e) * Worth(e) + FeeOf(e)
           n == Len(s.fills)
           xs == [i \in 1..n |-> Xrp(s.fills[i])]
           us == [i \in 1..n |-> Usd(s.fills[i])]
<1>1. /\ s \in GridType /\ s.fills \in Seq(FillType) /\ s.xrp \in Nat /\ s.usd \in Nat
      /\ order.side \in {"buy", "sell"} /\ order.price \in Nat /\ order.size \in Nat
      /\ n \in Nat /\ f \in FillType /\ MakerFee \in Nat /\ MakerFee <= 100
    <2>1. s \in GridType /\ s.fills \in Seq(FillType) /\ s.xrp \in Nat /\ s.usd \in Nat
        BY DEF Sound, GridType
    <2>2. order.side \in {"buy", "sell"} /\ order.price \in Nat /\ order.size \in Nat
        BY DEF OrderType
    <2>3. f \in FillType
        BY <2>2 DEF FillType
    <2>4. MakerFee \in Nat /\ MakerFee <= 100
        <3>1. MakerFee \in 0..100
            BY Zenon, ShadowAssumption
        <3> QED BY <3>1
    <2> HIDE DEF f
    <2> QED BY <2>1, <2>2, <2>3, <2>4
<1>2. /\ t.xrp = s.xrp + sign * order.size
      /\ t.usd = s.usd - sign * 100 * W - MakerFee * W
      /\ t.fills = Append(s.fills, f)
      /\ t = [s EXCEPT !.xrp = t.xrp, !.usd = t.usd, !.fills = t.fills]
    BY <1>1 DEF Traded, GridType, FeeOf
<1>3. W \in Nat /\ MakerFee * W \in Nat /\ MakerFee * W <= 100 * W
    <2>1. W \in Nat
        BY <1>1 DEF Worth
    <2> HIDE DEF W
    <2>2. (100 - MakerFee) * W \in Nat
        <3>1. 100 - MakerFee \in Nat
            BY <1>1
        <3> QED BY <2>1, <3>1
    <2>3. (100 - MakerFee) * W = 100 * W - MakerFee * W /\ MakerFee * W \in Nat
        BY <1>1, <2>1
    <2> QED BY <2>1, <2>2, <2>3
<1>4. t.xrp \in Nat /\ t.usd \in Nat
    <2>1. CASE order.side = "buy"
        <3>1. s.usd >= 100 * W + MakerFee * W
            BY <2>1 DEF Affords, FeeOf
        <3>2. t.xrp = s.xrp + order.size /\ t.usd = s.usd - 100 * W - MakerFee * W
            <4> HIDE DEF W, t
            <4> QED BY <1>1, <1>2, <1>3, <2>1
        <3> HIDE DEF W, t
        <3> QED BY <3>1, <3>2, <1>1, <1>3
    <2>2. CASE order.side = "sell"
        <3>1. s.xrp >= order.size
            BY <2>2 DEF Affords
        <3>2. t.xrp = s.xrp - order.size /\ t.usd = s.usd + 100 * W - MakerFee * W
            <4>1. sign = -1
                BY <2>2
            <4> HIDE DEF W, t, sign, f, xs, us
            <4>2. sign * order.size = -order.size /\ sign * 100 * W = -(100 * W)
                BY <1>1, <1>3, <4>1
            <4>3. t.xrp = s.xrp + sign * order.size /\ t.usd = s.usd - sign * 100 * W - MakerFee * W
                BY <1>2
            <4> QED BY <1>1, <1>3, <4>2, <4>3
        <3> HIDE DEF W, t
        <3> QED BY <3>1, <3>2, <1>1, <1>3
    <2> QED BY <1>1, <2>1, <2>2
<1>5. t.fills \in Seq(FillType) /\ Len(t.fills) = n + 1
    BY <1>1, <1>2
<1>6. t \in GridType
    BY <1>1, <1>2, <1>4, <1>5 DEF GridType
<1>7. ASSUME Len(t.fills) < Kept PROVE Balanced(t)
    <2>1. /\ s.xrp = Total(xs) /\ s.usd = 100 * Budget - Total(us)
        <3>1. Balanced(s)
            BY <1>1, <1>5, <1>7, ShadowAssumption DEF Sound
        <3> QED BY <3>1 DEF Balanced
    <2>2. ASSUME NEW e \in FillType PROVE Xrp(e) \in Int /\ Usd(e) \in Int
        <3>1. e.price \in Nat /\ e.size \in Nat /\ Net(e) \in Int
            BY DEF FillType
        <3>2. Worth(e) \in Int
            BY <3>1 DEF Worth
        <3>3. FeeOf(e) \in Int
            BY <3>2, <1>1 DEF FeeOf
        <3> HIDE DEF Net
        <3> QED BY <3>1, <3>2, <3>3
    <2>3. Xrp(f) = sign * order.size /\ Usd(f) = 100 * sign * W + MakerFee * W
        BY <1>1 DEF Worth, FeeOf
    <2>4. xs \in Seq(Int) /\ us \in Seq(Int)
        <3>1. \A i \in 1..n : s.fills[i] \in FillType
            BY <1>1
        <3>2. n \in Nat
            BY <1>1
        <3> HIDE DEF Xrp, Usd, n
        <3>3. xs \in [1..n -> Int] /\ us \in [1..n -> Int]
            BY <2>2, <3>1
        <3> HIDE DEF xs, us
        <3> QED BY <3>2, <3>3, FunctionIsSeq
    <2>5. /\ [i \in 1..n + 1 |-> Xrp(t.fills[i])] = Append(xs, Xrp(f))
          /\ [i \in 1..n + 1 |-> Usd(t.fills[i])] = Append(us, Usd(f))
        <3>1. t.fills[n + 1] = f /\ \A i \in 1..n : t.fills[i] = s.fills[i]
            BY <1>1, <1>2
        <3>2. Len(xs) = n /\ Len(us) = n
            BY <1>1
        <3> HIDE DEF Xrp, Usd, f, t
        <3> QED BY <1>1, <3>1, <3>2
    <2>6. /\ Total(Append(xs, Xrp(f))) = Total(xs) + Xrp(f) /\ Total(xs) \in Int
          /\ Total(Append(us, Usd(f))) = Total(us) + Usd(f) /\ Total(us) \in Int
        <3> HIDE DEF Xrp, Usd, f, xs, us
        <3> QED BY <1>1, <2>2, <2>4, TotalAppend
    <2>7. /\ t.xrp = Total([i \in 1..n + 1 |-> Xrp(t.fills[i])])
          /\ t.usd = 100 * Budget - Total([i \in 1..n + 1 |-> Usd(t.fills[i])])
        <3>1. sign \in {1, -1}
            OBVIOUS
        <3>2. Budget \in Nat
            BY ShadowAssumption
        <3> HIDE DEF Xrp, Usd, f, xs, us, sign, W, t
        <3>3. 100 * sign * W = sign * 100 * W /\ sign * 100 * W \in Int /\ sign * order.size \in Int
            BY <1>1, <1>3, <3>1
        <3>4. t.xrp = Total(xs) + Xrp(f)
            BY <1>2, <2>1, <2>3
        <3>5. t.usd = 100 * Budget - Total(us) - Usd(f)
            BY <1>2, <1>3, <2>1, <2>3, <2>6, <3>2, <3>3
        <3>6. Usd(f) \in Int
            BY <1>3, <2>3, <3>3
        <3> DEFINE txs == [i \in 1..n + 1 |-> Xrp(t.fills[i])]
                   tus == [i \in 1..n + 1 |-> Usd(t.fills[i])]
        <3>7. txs = Append(xs, Xrp(f)) /\ tus = Append(us, Usd(f))
            BY <2>5
        <3> HIDE DEF txs, tus
        <3>8. Total(txs) = Total(xs) + Xrp(f) /\ Total(tus) = Total(us) + Usd(f)
            BY <2>6, <3>7
        <3>9. t.xrp = Total(txs) /\ t.usd = 100 * Budget - Total(tus)
            BY <2>6, <3>2, <3>4, <3>5, <3>6, <3>8
        <3> QED BY <3>9 DEF txs, tus
    <2> QED BY <1>5, <2>7 DEF Balanced
<1> QED BY <1>6, <1>7 DEF Sound

\* A flipped level is an order.
LEMMA FlippedType ==
    ASSUME NEW order \in OrderType, NEW spacing \in 1..99
    PROVE  Flipped(order, spacing) \in OrderType
<1>1. order.price * (100 + spacing) \in Nat /\ order.price * (100 - spacing) \in Nat
    <2>1. order.price \in Nat /\ 100 + spacing \in Nat /\ 100 - spacing \in Nat
        BY DEF OrderType
    <2> QED BY <2>1
<1>2. (order.price * (100 + spacing)) \div 100 \in Nat /\ (order.price * (100 - spacing)) \div 100 \in Nat
    BY <1>1, Divided
<1> QED BY <1>2 DEF Flipped, OrderType

\* All orders walked: a sound variant, its orders as they were.
LEMMA WalkSound ==
    ASSUME hour \in Nat, NEW s \in Sound, NEW price \in Nat
    PROVE  /\ AfterOrders(s, price).grid \in Sound
           /\ AfterOrders(s, price).grid.orders = s.orders
<1> DEFINE n == Len(s.orders)
           X == {w \in [grid : Sound, filled : SUBSET Nat] : w.grid.orders = s.orders}
           x0 == [grid |-> [s EXCEPT !.price = price], filled |-> {}]
           hits(k, w) == Touched(s.orders[k], price) /\ Affords(w.grid, s.orders[k])
           Step(k, w) == IF hits(k, w) THEN [grid   |-> Traded(w.grid, s.orders[k]),
                                              filled |-> w.filled \cup {k}]
                                        ELSE w
           G == [k \in 1..n |-> [w \in X |-> Step(k, w)]]
           Walk(f) == [k \in 0..n |-> IF k = 0 THEN x0 ELSE Step(k, f[k - 1])]
           h == CHOOSE f : f = Walk(f)
<1>1. n \in Nat /\ \A k \in 1..n : s.orders[k] \in OrderType
    BY DEF Sound, GridType
<1>2. x0 \in X
    <2>1. [s EXCEPT !.price = price] \in GridType
        BY DEF Sound, GridType
    <2>2. [s EXCEPT !.price = price] \in Sound
        BY <2>1, SameAccount DEF Sound, GridType
    <2> QED BY <2>2 DEF Sound, GridType
<1>3. ASSUME NEW k \in 1..n, NEW w \in X PROVE Step(k, w) \in X
    <2>1. CASE hits(k, w)
        <3>1. Traded(w.grid, s.orders[k]) \in Sound
            BY <1>1, <2>1, TradedSound
        <3>2. Traded(w.grid, s.orders[k]).orders = s.orders
            BY DEF Traded, Sound, GridType
        <3>3. w.filled \cup {k} \in SUBSET Nat
            BY <1>1
        <3> HIDE DEF hits
        <3> QED BY <2>1, <3>1, <3>2, <3>3
    <2>2. CASE ~hits(k, w)
        <3> HIDE DEF hits
        <3> QED BY <2>2
    <2> QED BY <2>1, <2>2
<1>4. PICK p : IsWalk(p, n, X, x0, G)
    <2>1. \A k \in 1..n : G[k] \in [X -> X]
        <3> HIDE DEF X, Step
        <3> QED BY <1>3
    <2>2. n \in Nat
        BY <1>1
    <2> HIDE DEF X, G, n, x0, Walk, h, Step, hits
    <2> QED BY <1>2, <2>1, <2>2, WalkExists
<1>5. p = Walk(p)
    <2>1. p \in [0..n -> X] /\ p[0] = x0 /\ \A k \in 1..n : p[k] = G[k][p[k - 1]]
        <3> HIDE DEF X, G, n, x0, Walk, h, Step, hits
        <3> QED BY <1>4 DEF IsWalk
    <2>2. ASSUME NEW k \in 1..n PROVE p[k] = Step(k, p[k - 1])
        <3>1. k - 1 \in 0..n
            BY <1>1
        <3> HIDE DEF X, Step
        <3> QED BY <2>1, <3>1
    <2>3. p = [k \in 0..n |-> p[k]]
        BY <2>1
    <2>4. \A k \in 0..n : k = 0 \/ k \in 1..n
        BY <1>1
    <2> HIDE DEF Step, x0, X
    <2> QED BY <2>1, <2>2, <2>3, <2>4
<1>6. h = Walk(h)
    <2> HIDE DEF Walk
    <2> QED BY <1>5
<1>7. h[0] \in X /\ \A k \in 1..n : h[k - 1] \in X => h[k] \in X
    <2>1. h[0] = x0 /\ \A k \in 1..n : h[k] = Step(k, h[k - 1])
        <3>1. 0 \in 0..n /\ \A k \in 1..n : k \in 0..n /\ k # 0
            BY <1>1
        <3> HIDE DEF Step, x0, h
        <3> QED BY <1>6, <3>1
    <2> HIDE DEF Step, X, h, x0
    <2> QED BY <1>2, <1>3, <2>1
<1>8. h[n] \in X
    <2>1. n \in 0..n
        BY <1>1
    <2> HIDE DEF h, X, n
    <2> QED BY <1>1, <1>7, <2>1, Reached
<1>9. AfterOrders(s, price) = h[n]
    BY Zenon DEF AfterOrders
<1> HIDE DEF h
<1> QED BY <1>8, <1>9

\* A tick keeps a variant sound.
LEMMA TickSound ==
    ASSUME hour \in Nat, NEW s \in Sound, NEW price \in Nat
    PROVE  ProcessTick(s, price) \in Sound
<1> DEFINE end == AfterOrders(s, price)
           g == end.grid
           orders == [k \in 1..Len(g.orders) |-> IF k \in end.filled THEN Flipped(g.orders[k], s.spacing)
                                                                     ELSE g.orders[k]]
           t == [g EXCEPT !.fills = LastOf(@, Memory)]
<1>1. g \in Sound /\ g.orders = s.orders
    BY WalkSound
<1>2. s.spacing \in 1..99 /\ g.orders \in Seq(OrderType) /\ g \in GridType
    BY <1>1 DEF Sound, GridType
<1> HIDE DEF end, g
<1>3. orders \in Seq(OrderType)
    <2>1. Len(g.orders) \in Nat /\ \A k \in 1..Len(g.orders) : g.orders[k] \in OrderType
        BY <1>2
    <2>2. \A k \in 1..Len(g.orders) : orders[k] \in OrderType
        BY <1>2, <2>1, FlippedType
    <2>3. orders = [k \in 1..Len(g.orders) |-> orders[k]]
        OBVIOUS
    <2> HIDE DEF orders
    <2>4. orders \in [1..Len(g.orders) -> OrderType]
        BY <2>2, <2>3
    <2> QED BY <2>1, <2>4, FunctionIsSeq
<1> HIDE DEF orders
<1>4. t \in Sound
    BY <1>1, ForgetSound, ShadowAssumption
<1>5. t \in GridType /\ t.fills = LastOf(g.fills, Memory) /\ t.xrp = g.xrp /\ t.usd = g.usd
      /\ [g EXCEPT !.orders = orders, !.fills = LastOf(@, Memory)] = [t EXCEPT !.orders = orders]
    BY <1>2, <1>4 DEF Sound, GridType
<1>6. [t EXCEPT !.orders = orders] \in Sound
    <2> HIDE DEF t
    <2>1. [t EXCEPT !.orders = orders] \in GridType
        BY <1>3, <1>5 DEF GridType
    <2> QED BY <1>4, <1>5, <2>1, SameAccount DEF GridType
<1>7. CASE s.orders = << >>
    BY <1>7 DEF ProcessTick
<1>8. CASE s.orders # << >>
    <2>1. ProcessTick(s, price) = [g EXCEPT !.orders = orders, !.fills = LastOf(@, Memory)]
        BY <1>8 DEF ProcessTick, g, end, orders
    <2> QED BY <2>1, <1>5, <1>6
<1> QED BY <1>7, <1>8

-----------------------------------------------------------------------------
(***************************************************************************)
(* The variants and their rows.                                            *)
(***************************************************************************)
\* Whatever part of a save happens, the rows are sound.
LEMMA PersistedSound ==
    ASSUME NEW table, \A r \in DOMAIN table : table[r] \in Sound,
           NEW grids \in [AllLevels -> Sound], NEW n \in 0..Len(ShadowLevels)
    PROVE  \A r \in DOMAIN Persisted(table, grids, n) : Persisted(table, grids, n)[r] \in Sound
<1> DEFINE Row(i) == Key(ShadowLevels[i], grids[ShadowLevels[i]].spacing)
           Rows == {Row(i) : i \in 1..n}
           new == [r \in Rows |-> Serialized(grids[r.levels])]
           after == [r \in DOMAIN table \cup DOMAIN new |-> IF r \in DOMAIN new THEN new[r] ELSE table[r]]
<1>1. ASSUME NEW r \in Rows PROVE new[r] \in Sound
    <2>1. PICK i \in 1..n : r = Row(i)
        OBVIOUS
    <2>2. i \in 1..Len(ShadowLevels)
        BY ShadowAssumption
    <2>3. r.levels = ShadowLevels[i] /\ ShadowLevels[i] \in AllLevels
        BY <2>1, <2>2 DEF Key, AllLevels
    <2>4. grids[r.levels] \in Sound
        BY <2>3
    <2>5. Kept \in Nat /\ Kept >= Kept
        BY ShadowAssumption
    <2>6. Serialized(grids[r.levels]) \in Sound
        BY <2>4, <2>5, ForgetSound DEF Serialized
    <2> QED BY <2>6
<1>2. DOMAIN new = Rows
    OBVIOUS
<1> HIDE DEF Rows, new
<1>3. \A r \in DOMAIN after : after[r] \in Sound
    BY <1>1, <1>2
<1>4. Persisted(table, grids, n) = after
    BY Zenon DEF Persisted, new, Rows
<1> HIDE DEF after
<1> QED BY <1>3, <1>4

\* What a restart loads is sound.
LEMMA LoadedSound == ShadowInv => Loaded \in [AllLevels -> Sound]
<1> SUFFICES ASSUME ShadowInv PROVE Loaded \in [AllLevels -> Sound]
    OBVIOUS
<1>1. ASSUME NEW r \in Sound PROVE Deserialized(r) \in Sound
    <2>1. Deserialized(r) \in GridType /\ Deserialized(r).fills = r.fills
          /\ Deserialized(r).xrp = r.xrp /\ Deserialized(r).usd = r.usd
        BY ShadowAssumption DEF Deserialized, Sound, GridType
    <2> QED BY <2>1, SameAccount
<1>2. \A r \in DOMAIN saved : saved[r] \in Sound
    BY DEF ShadowInv
<1> QED BY <1>1, <1>2, FreshSound DEF Loaded

\* A rebuild on a ground that was asked for.
LEMMA FollowSound ==
    ASSUME NEW grids \in [AllLevels -> Sound], NEW g \in Grounds
    PROVE  /\ RebuildAll(grids, g.centre, g.spacing) \in [AllLevels -> Sound]
           /\ [lc \in AllLevels |-> UpdateCentre(grids[lc], g.centre, g.spacing)]
                  \in [AllLevels -> Sound]
<1>1. g.centre \in Nat \ {0} /\ g.spacing \in 1..99
    BY ShadowAssumption
<1>2. ASSUME NEW lc \in AllLevels
      PROVE  /\ Rebuild(grids[lc], lc, g.centre, g.spacing) \in Sound
             /\ UpdateCentre(grids[lc], g.centre, g.spacing) \in Sound
    <2>1. grids[lc] \in Sound /\ (lc \div 2) * g.spacing <= 100
        BY LevelsKnown
    <2> QED BY <1>1, <2>1, RebuildSound
<1> QED BY <1>2 DEF RebuildAll

LEMMA ShadowInitial == ShadowInit => ShadowInv
<1> SUFFICES ASSUME ShadowInit PROVE ShadowInv
    OBVIOUS
<1>1. shadows \in [AllLevels -> Sound]
    BY FreshSound DEF ShadowInit
<1>2. \A r \in DOMAIN saved : saved[r] \in Sound
    BY FreshSound DEF ShadowInit
<1> QED BY <1>1, <1>2 DEF ShadowInit, ShadowInv

LEMMA TickKeeps == ShadowInv /\ ShadowTick => ShadowInv'
<1> SUFFICES ASSUME ShadowInv, ShadowTick PROVE ShadowInv'
    OBVIOUS
<1>1. PICK price \in Ticks : shadows' = [lc \in AllLevels |-> ProcessTick(shadows[lc], price)]
    BY DEF ShadowTick
<1>2. shadows' \in [AllLevels -> Sound]
    <2>1. price \in Nat
        BY ShadowAssumption
    <2>2. ASSUME NEW lc \in AllLevels PROVE ProcessTick(shadows[lc], price) \in Sound
        BY <2>1, TickSound DEF ShadowInv
    <2> QED BY <1>1, <2>2
<1>3. \A r \in DOMAIN saved' : saved'[r] \in Sound
    <2>1. CASE saved' = saved
        BY <2>1 DEF ShadowInv
    <2>2. CASE \E n \in 0..Len(ShadowLevels) : saved' = Persisted(saved, shadows', n)
        BY <2>2, <1>2, PersistedSound DEF ShadowInv
    <2> QED BY <2>1, <2>2 DEF ShadowTick
<1>4. ground' = ground /\ hour' = hour
    BY DEF ShadowTick
<1> QED BY <1>2, <1>3, <1>4 DEF ShadowInv

\* initialise_grid's end: all variants rebuilt, or all recentred.
LEMMA FollowsKeeps ==
    ASSUME ShadowInv, NEW g \in Grounds, NEW levels, ShadowFollows(g.centre, g.spacing, levels)
    PROVE  shadows' \in [AllLevels -> Sound]
<1>1. shadows \in [AllLevels -> Sound]
    BY DEF ShadowInv
<1>2. \/ shadows' = RebuildAll(shadows, g.centre, g.spacing)
      \/ shadows' = [lc \in AllLevels |-> UpdateCentre(shadows[lc], g.centre, g.spacing)]
    BY DEF ShadowFollows
<1> QED BY <1>1, <1>2, FollowSound

LEMMA LiveRebuildKeeps == ShadowInv /\ LiveRebuild => ShadowInv'
<1> SUFFICES ASSUME ShadowInv, LiveRebuild PROVE ShadowInv'
    OBVIOUS
<1>1. PICK g \in Grounds :
          /\ ground' = [centre |-> g.centre, spacing |-> g.spacing, levels |-> levelCount]
          /\ ShadowFollows(g.centre, g.spacing, levelCount)
    BY DEF LiveRebuild
<1>2. shadows' \in [AllLevels -> Sound]
    BY <1>1, FollowsKeeps
<1>3. g.centre = ground'.centre /\ g.spacing = ground'.spacing
    BY <1>1
<1>4. saved' = saved /\ hour' = hour
    BY DEF LiveRebuild
<1> QED BY <1>2, <1>3, <1>4 DEF ShadowInv

LEMMA SwitchKeeps == ShadowInv /\ SwitchLevelCount => ShadowInv'
<1> SUFFICES ASSUME ShadowInv, SwitchLevelCount PROVE ShadowInv'
    OBVIOUS
<1>1. PICK lc \in AllLevels, edge \in BOOLEAN, built \in BOOLEAN :
          /\ BeatsLive(lc, edge)
          /\ ground' = [ground EXCEPT !.levels = lc]
          /\ IF built THEN ShadowFollows(ground.centre, ground.spacing, lc)
                      ELSE UNCHANGED <<shadows, builtFor>>
    BY DEF SwitchLevelCount
<1>2. ground # NoGround
    <2>1. ground.spacing = KeySpacing
        BY <1>1 DEF BeatsLive
    <2>2. KeySpacing \in 1..99
        BY Zenon, ShadowAssumption
    <2> QED BY <2>1, <2>2 DEF NoGround
<1>3. PICK g \in Grounds : g.centre = ground.centre /\ g.spacing = ground.spacing
    BY <1>2 DEF ShadowInv
<1>4. shadows' \in [AllLevels -> Sound]
    <2>1. CASE built
        BY <1>1, <1>3, <2>1, FollowsKeeps
    <2>2. CASE ~built
        BY <1>1, <2>2 DEF ShadowInv
    <2> QED BY <2>1, <2>2
<1>5. g.centre = ground'.centre /\ g.spacing = ground'.spacing
    BY <1>1, <1>3
<1>6. saved' = saved /\ hour' = hour
    BY DEF SwitchLevelCount
<1> QED BY <1>4, <1>5, <1>6 DEF ShadowInv

LEMMA LoadStateKeeps == ShadowInv /\ LoadState => ShadowInv'
<1> SUFFICES ASSUME ShadowInv, LoadState PROVE ShadowInv'
    OBVIOUS
<1>1. Loaded \in [AllLevels -> Sound]
    BY LoadedSound
<1>2. shadows' \in [AllLevels -> Sound]
    <2>1. CASE ground # NoGround
        <3>1. PICK g \in Grounds : g.centre = ground.centre /\ g.spacing = ground.spacing
            BY <2>1 DEF ShadowInv
        <3>2. RebuildAll(Loaded, ground.centre, ground.spacing) \in [AllLevels -> Sound]
            BY <1>1, <3>1, FollowSound
        <3> QED BY <1>1, <3>2 DEF LoadState
    <2>2. CASE ground = NoGround
        BY <1>1, <2>2 DEF LoadState
    <2> QED BY <2>1, <2>2
<1>3. saved' = Persisted(saved, shadows', Len(ShadowLevels)) /\ ground' = ground /\ hour' = hour
    BY DEF LoadState
<1>4. Len(ShadowLevels) \in 0..Len(ShadowLevels)
    <2>1. Len(ShadowLevels) \in Nat
        BY ShadowAssumption
    <2> QED BY <2>1
<1>5. \A r \in DOMAIN saved' : saved'[r] \in Sound
    BY <1>2, <1>3, <1>4, PersistedSound DEF ShadowInv
<1> QED BY <1>2, <1>3, <1>5 DEF ShadowInv

LEMMA ShadowStep == ShadowInv /\ [ShadowNext]_shadowVars => ShadowInv'
<1> SUFFICES ASSUME ShadowInv, [ShadowNext]_shadowVars PROVE ShadowInv'
    OBVIOUS
<1>1. CASE PaperFillsSave
    <2>1. PICK n \in 0..Len(ShadowLevels) : saved' = Persisted(saved, shadows, n)
        BY <1>1 DEF PaperFillsSave
    <2>2. \A r \in DOMAIN saved' : saved'[r] \in Sound
        BY <2>1, PersistedSound DEF ShadowInv
    <2> QED BY <1>1, <2>2 DEF PaperFillsSave, ShadowInv
<1>2. CASE HourPasses
    BY <1>2 DEF HourPasses, ShadowInv
<1>3. CASE UNCHANGED shadowVars
    BY <1>3 DEF shadowVars, ShadowInv
<1> QED BY <1>1, <1>2, <1>3, TickKeeps, LiveRebuildKeeps, SwitchKeeps, LoadStateKeeps DEF ShadowNext

\* The money of every variant and of every saved row is what its fills left of the
\* budget, for every set of level counts, grounds, prices and fees, whatever is
\* rebuilt, saved in part or reloaded (ShadowGrid.process_tick, persist_all,
\* load_from_db).
THEOREM ShadowAccountsAlwaysBalance == ShadowSpec => []ShadowAccounts
<1>1. ShadowInv => ShadowAccounts
    BY DEF ShadowInv, ShadowAccounts, Sound, GridType
<1> QED BY ShadowInitial, ShadowStep, <1>1, PTL DEF ShadowSpec
-----------------------------------------------------------------------------
(***************************************************************************)
(* The realised profit, for any number, size and price of fills.  A fill   *)
(* appended to the rows gives the FIFO matching one more buy behind all    *)
(* others, or one more sell after all others: walked side by side, the     *)
(* matchings with and without it agree on the older buys.                  *)
(***************************************************************************)
Row == [side : {"buy", "sell"}, lots : 1..MaxLots, price : 1..MaxPrice, paper : BOOLEAN]

PnlTypes == fills \in Seq(Row) /\ since \in Nat /\ since <= Len(fills) + 1

Trips(paper) ==
    [buy : Filled("buy", paper), sell : Filled("sell", paper), lots : Int, contribution : Int]
Queues(paper) == UNION {[B -> Int] : B \in SUBSET Filled("buy", paper)}
Matches(paper) ==
    {m \in [queue : Queues(paper), trips : SUBSET Trips(paper)] : IsFiniteSet(m.trips)}

LEMMA PnlInitial == PnlInit => PnlTypes
<1> SUFFICES ASSUME PnlInit PROVE PnlTypes
    OBVIOUS
<1>1. << >> \in Seq(Row) /\ Len(<< >>) = 0
    OBVIOUS
<1>2. 0 \in Nat /\ 0 <= 0 + 1
    OBVIOUS
<1> QED BY <1>1, <1>2 DEF PnlInit, PnlTypes

LEMMA FilledAppends ==
    ASSUME PnlTypes, OrderFilled
    PROVE  /\ \E r \in Row : fills' = Append(fills, r)
           /\ since' = since
<1>1. PICK side \in {"buy", "sell"}, lots \in 1..MaxLots, price \in 1..MaxPrice :
          fills' = Append(fills, [side |-> side, lots |-> lots, price |-> price,
                                  paper |-> since # 0])
    BY DEF OrderFilled
<1>2. [side |-> side, lots |-> lots, price |-> price, paper |-> since # 0] \in Row
    BY DEF Row
<1> QED BY <1>1, <1>2 DEF OrderFilled

LEMMA PnlStep == PnlTypes /\ [PnlNext]_pnlVars => PnlTypes'
<1> SUFFICES ASSUME PnlTypes, [PnlNext]_pnlVars PROVE PnlTypes'
    OBVIOUS
<1>1. fills \in Seq(Row) /\ Len(fills) \in Nat /\ since \in Nat /\ since <= Len(fills) + 1
    BY DEF PnlTypes
<1>2. CASE OrderFilled
    <2>1. PICK r \in Row : fills' = Append(fills, r)
        BY <1>2, FilledAppends
    <2>2. fills' \in Seq(Row) /\ Len(fills') = Len(fills) + 1
        BY <1>1, <2>1
    <2>3. since' = since
        BY <1>2 DEF OrderFilled
    <2> QED BY <1>1, <2>2, <2>3 DEF PnlTypes
<1>3. CASE PaperRun
    BY <1>1, <1>3 DEF PaperRun, PnlTypes
<1>4. CASE LiveAgain
    BY <1>1, <1>4 DEF LiveAgain, PnlTypes
<1>5. CASE UNCHANGED pnlVars
    BY <1>1, <1>5 DEF pnlVars, PnlTypes
<1> QED BY <1>2, <1>3, <1>4, <1>5 DEF PnlNext

\* A scope is a finite set of rows.
ScopesFinite ==
    \A side, paper :
        /\ IsFiniteSet(Filled(side, paper)) /\ Filled(side, paper) \subseteq 1..Len(fills)
        /\ \A id \in Filled(side, paper) :
              id \in Int /\ fills[id].lots \in Int /\ fills[id].price \in Int

LEMMA FilledFacts == PnlTypes => ScopesFinite
<1> SUFFICES ASSUME PnlTypes, NEW side, NEW paper
             PROVE  /\ IsFiniteSet(Filled(side, paper))
                    /\ Filled(side, paper) \subseteq 1..Len(fills)
                    /\ \A id \in Filled(side, paper) :
                          id \in Int /\ fills[id].lots \in Int /\ fills[id].price \in Int
    BY DEF ScopesFinite
<1>1. fills \in Seq(Row) /\ Len(fills) \in Nat /\ DOMAIN fills = 1..Len(fills)
    BY DEF PnlTypes
<1>2. Filled(side, paper) \subseteq 1..Len(fills)
    BY <1>1 DEF Filled
<1>3. IsFiniteSet(1..Len(fills))
    BY <1>1, FS_Interval
<1>4. IsFiniteSet(Filled(side, paper))
    BY <1>2, <1>3, FS_Subset
<1>5. ASSUME NEW id \in 1..Len(fills)
      PROVE  fills[id].lots \in Int /\ fills[id].price \in Int
    <2>1. fills[id] \in Row
        BY <1>1
    <2>2. fills[id].lots \in 1..MaxLots /\ fills[id].price \in 1..MaxPrice
        BY <2>1 DEF Row
    <2> QED BY <2>2
<1> QED BY <1>2, <1>4, <1>5

\* What a sell takes of a buy depends on the buys up to it only.
LEMMA TakenType ==
    ASSUME NEW B, IsFiniteSet(B), B \subseteq Int, NEW q \in [B -> Int], NEW lots \in Int
    PROVE  /\ Taken(q, lots) \in [B -> Int]
           /\ \A b \in B : IsFiniteSet(Ahead(q, b)) /\ Ahead(q, b) = {c \in B : c < b}
                           /\ SumFunctionOnSet(q, Ahead(q, b)) \in Int
<1>1. DOMAIN q = B
    OBVIOUS
<1>2. ASSUME NEW b \in B
      PROVE  /\ IsFiniteSet(Ahead(q, b)) /\ Ahead(q, b) = {c \in B : c < b}
             /\ SumFunctionOnSet(q, Ahead(q, b)) \in Int
    <2>1. Ahead(q, b) = {c \in B : c < b}
        BY <1>1 DEF Ahead
    <2>2. Ahead(q, b) \subseteq B
        BY <2>1
    <2>3. IsFiniteSet(Ahead(q, b))
        BY <2>2, FS_Subset
    <2>4. \A c \in Ahead(q, b) : q[c] \in Int
        BY <2>2
    <2> QED BY <2>1, <2>3, <2>4, SumType
<1>3. ASSUME NEW b \in B PROVE Taken(q, lots)[b] \in Int
    <2>1. Taken(q, lots)[b] = IF lots <= SumFunctionOnSet(q, Ahead(q, b)) THEN 0
                              ELSE Lesser(q[b], lots - SumFunctionOnSet(q, Ahead(q, b)))
        BY <1>1 DEF Taken
    <2>2. q[b] \in Int /\ SumFunctionOnSet(q, Ahead(q, b)) \in Int
        BY <1>2
    <2> QED BY <2>1, <2>2 DEF Lesser
<1>4. Taken(q, lots) = [b \in B |-> Taken(q, lots)[b]]
    BY <1>1 DEF Taken
<1> QED BY <1>2, <1>3, <1>4

LEMMA TakenSame ==
    ASSUME NEW q, NEW r, NEW lots, IsFiniteSet(DOMAIN r), DOMAIN r \subseteq Int,
           DOMAIN q \subseteq DOMAIN r, \A b \in DOMAIN q : q[b] = r[b],
           \A b \in DOMAIN q, c \in DOMAIN r \ DOMAIN q : b < c
    PROVE  \A b \in DOMAIN q : Taken(q, lots)[b] = Taken(r, lots)[b]
<1> SUFFICES ASSUME NEW b \in DOMAIN q PROVE Taken(q, lots)[b] = Taken(r, lots)[b]
    OBVIOUS
<1>1. Ahead(q, b) = Ahead(r, b)
    <2>1. ASSUME NEW c \in DOMAIN r, c < b PROVE c \in DOMAIN q
        <3>1. c \notin DOMAIN q => b < c
            OBVIOUS
        <3>2. b \in Int /\ c \in Int
            OBVIOUS
        <3> QED BY <2>1, <3>1, <3>2
    <2> QED BY <2>1 DEF Ahead
<1>2. IsFiniteSet(Ahead(q, b)) /\ Ahead(q, b) \subseteq DOMAIN q
    <2>1. Ahead(q, b) \subseteq DOMAIN q /\ Ahead(q, b) \in SUBSET DOMAIN r
        BY DEF Ahead
    <2> QED BY <2>1, FS_Subset
<1>3. SumFunctionOnSet(q, Ahead(q, b)) = SumFunctionOnSet(r, Ahead(q, b))
    BY <1>2, SumSame
<1> QED BY <1>1, <1>3 DEF Taken

\* What is left of a matching after one more row.
LEMMA MatchFillType ==
    ASSUME PnlTypes, NEW paper, NEW m \in Matches(paper), NEW id \in 1..Len(fills)
    PROVE  MatchFill(m, id, paper) \in Matches(paper)
<1>1. PICK B \in SUBSET Filled("buy", paper) : m.queue \in [B -> Int]
    BY DEF Matches, Queues
<1>2. m.trips \in SUBSET Trips(paper) /\ IsFiniteSet(m.trips)
    BY DEF Matches
<1>3. CASE ~(InScope(id, paper) /\ fills[id].side = "sell")
    BY <1>3 DEF MatchFill
<1>4. CASE InScope(id, paper) /\ fills[id].side = "sell"
    <2> DEFINE taken == Taken(m.queue, fills[id].lots)
               left  == {b \in B : m.queue[b] > taken[b]}
               took  == {c \in B : taken[c] > 0}
               trip  == [b \in took |-> Trip(b, id, taken[b])]
               new   == {Trip(b, id, taken[b]) : b \in took}
    <2>1. id \in Filled("sell", paper)
        BY <1>4 DEF Filled, PnlTypes
    <2>2. /\ IsFiniteSet(B) /\ B \subseteq Int /\ fills[id].lots \in Int /\ fills[id].price \in Int
          /\ \A b \in B : fills[b].price \in Int
        <3>1. IsFiniteSet(Filled("buy", paper)) /\ \A b \in Filled("buy", paper) :
                  b \in Int /\ fills[b].price \in Int
            BY FilledFacts DEF ScopesFinite
        <3>2. fills[id].lots \in Int /\ fills[id].price \in Int
            BY <2>1, FilledFacts DEF ScopesFinite
        <3> QED BY <3>1, <3>2, FS_Subset
    <2>3. taken \in [B -> Int]
        BY <1>1, <2>2, TakenType
    <2>4. MatchFill(m, id, paper) = [queue |-> [b \in left |-> m.queue[b] - taken[b]],
                                     trips |-> m.trips \cup new]
        <3>1. DOMAIN m.queue = B
            BY <1>1
        <3> QED BY <1>4, <3>1 DEF MatchFill, MatchSell
    <2> HIDE DEF taken
    <2>5. [b \in left |-> m.queue[b] - taken[b]] \in Queues(paper)
        <3>1. \A b \in left : m.queue[b] - taken[b] \in Int
            BY <1>1, <2>3
        <3>2. left \in SUBSET Filled("buy", paper)
            OBVIOUS
        <3> HIDE DEF left
        <3>3. [b \in left |-> m.queue[b] - taken[b]] \in [left -> Int]
            BY <3>1
        <3> QED BY <3>2, <3>3 DEF Queues
    <2>6. ASSUME NEW b \in took PROVE Trip(b, id, taken[b]) \in Trips(paper)
        <3>1. b \in Filled("buy", paper) /\ taken[b] \in Int /\ fills[b].price \in Int
            BY <2>2, <2>3
        <3>2. fills[id].price - fills[b].price \in Int
            BY <2>2, <3>1
        <3>3. (fills[id].price - fills[b].price) * taken[b] \in Int
            BY <3>1, <3>2
        <3> QED BY <2>1, <3>1, <3>3 DEF Trip, Trips
    <2>7. IsFiniteSet(new)
        <3>1. IsFiniteSet(took)
            BY <2>2, FS_Subset
        <3>2. trip \in Surjection(took, new)
            BY DEF Surjection
        <3> HIDE DEF took, new, trip
        <3> QED BY <3>1, <3>2, FS_Surjection
    <2>8. m.trips \cup new \in SUBSET Trips(paper) /\ IsFiniteSet(m.trips \cup new)
        <3>1. new \subseteq Trips(paper)
            BY <2>6
        <3> HIDE DEF new
        <3> QED BY <1>2, <2>7, <3>1, FS_Union
    <2>9. \A q \in Queues(paper), t \in SUBSET Trips(paper) :
              IsFiniteSet(t) => [queue |-> q, trips |-> t] \in Matches(paper)
        BY DEF Matches
    <2> HIDE DEF new, left
    <2> QED BY <2>4, <2>5, <2>8, <2>9
<1> QED BY <1>3, <1>4

\* The matching is a walk over the rows.
MatchWalk(paper, w) ==
    /\ w[0] = [queue |-> Queue(paper), trips |-> {}]
    /\ \A k \in 1..Len(fills) : w[k] = MatchFill(w[k - 1], k, paper)
    /\ \A k \in 0..Len(fills) : w[k] \in Matches(paper)
    /\ Matched(paper) = w[Len(fills)]
HasWalks == \A paper \in BOOLEAN : \E w : MatchWalk(paper, w)

LEMMA MatchedWalk == PnlTypes => HasWalks
<1> SUFFICES ASSUME PnlTypes, NEW paper \in BOOLEAN PROVE \E w : MatchWalk(paper, w)
    BY DEF HasWalks
<1> DEFINE n == Len(fills)
           ids == [id \in 1..n |-> id]
           X == Matches(paper)
           x0 == [queue |-> Queue(paper), trips |-> {}]
           G == [k \in 1..n |-> [x \in X |-> MatchFill(x, k, paper)]]
           Sum(f) == [t \in SUBSET DOMAIN ids |->
                         IF t = {} THEN x0 ELSE MatchFill(f[t \ {Max(t)}], ids[Max(t)], paper)]
           h == CHOOSE f : f = Sum(f)
           w == [k \in 0..n |-> h[1..k]]
<1>1. n \in Nat /\ DOMAIN ids = 1..n /\ \A k \in 1..n : ids[k] = k
    BY DEF PnlTypes
<1>2. Matched(paper) = h[1..n]
    <2>1. Matched(paper) = h[DOMAIN ids]
        BY Zenon DEF Matched, FoldLeft, MapThenFoldSet
    <2> HIDE DEF h
    <2> QED BY <2>1, <1>1
<1>3. x0 \in X
    <2>1. \A b \in Filled("buy", paper) : fills[b].lots \in Int
        BY FilledFacts DEF ScopesFinite
    <2>2. Queue(paper) \in Queues(paper)
        BY <2>1 DEF Queue, Queues
    <2>3. IsFiniteSet({})
        BY FS_EmptySet
    <2> QED BY <2>2, <2>3 DEF Matches
<1>4. \A k \in 1..n : G[k] \in [X -> X]
    <2>1. ASSUME NEW k \in 1..n, NEW x \in X PROVE MatchFill(x, k, paper) \in X
        BY MatchFillType
    <2> HIDE DEF X
    <2> QED BY <2>1
<1> HIDE DEF X, x0
<1>5. PICK f : IsFold(f, n, X, x0, G)
    <2> HIDE DEF G, n, Sum, h, w, ids
    <2> QED BY <1>1, <1>3, <1>4, FoldExists
<1>6. f = Sum(f)
    <2>1. /\ f \in [SUBSET (1..n) -> X] /\ f[{}] = x0
          /\ \A t \in SUBSET (1..n) :
                t # {} => Max(t) \in t /\ f[t] = G[Max(t)][f[t \ {Max(t)}]]
        <3> HIDE DEF G, n
        <3> QED BY <1>5 DEF IsFold
    <2>2. ASSUME NEW t \in SUBSET (1..n), t # {}
          PROVE  f[t] = MatchFill(f[t \ {Max(t)}], ids[Max(t)], paper)
        <3>1. Max(t) \in 1..n /\ f[t] = G[Max(t)][f[t \ {Max(t)}]]
            BY <2>1, <2>2
        <3>2. t \ {Max(t)} \in SUBSET (1..n)
            OBVIOUS
        <3>3. f[t \ {Max(t)}] \in X
            BY <2>1, <3>2
        <3>4. ids[Max(t)] = Max(t)
            BY <3>1, <1>1
        <3> QED BY <3>1, <3>3, <3>4
    <2>3. \A t \in SUBSET (1..n) : f[t] = Sum(f)[t]
        BY <2>1, <2>2, <1>1
    <2>4. DOMAIN Sum(f) = SUBSET (1..n)
        BY <1>1
    <2>5. Sum(f) = [t \in DOMAIN Sum(f) |-> Sum(f)[t]]
        OBVIOUS
    <2>6. f = [t \in SUBSET (1..n) |-> f[t]]
        BY <2>1
    <2> HIDE DEF Sum, n
    <2> QED BY <2>3, <2>4, <2>5, <2>6
<1>7. h = Sum(h)
    <2> HIDE DEF Sum
    <2> QED BY <1>6
<1>8. h[{}] = x0 /\ \A k \in 1..n : h[1..k] = MatchFill(h[1..k - 1], k, paper)
    <2>1. \A t \in SUBSET (1..n) :
              h[t] = IF t = {} THEN x0 ELSE MatchFill(h[t \ {Max(t)}], ids[Max(t)], paper)
        <3> HIDE DEF h
        <3> QED BY <1>1, <1>7
    <2>2. ASSUME NEW k \in 1..n PROVE Max(1..k) = k /\ (1..k) \ {k} = 1..k - 1 /\ 1..k # {}
        BY MaxUpTo
    <2>3. \A k \in 1..n : 1..k \in SUBSET (1..n) /\ ids[k] = k
        BY <1>1
    <2> HIDE DEF h, ids
    <2>4. h[{}] = x0
        BY <2>1
    <2>5. ASSUME NEW k \in 1..n PROVE h[1..k] = MatchFill(h[1..k - 1], k, paper)
        <3>1. h[1..k] = MatchFill(h[(1..k) \ {Max(1..k)}], ids[Max(1..k)], paper)
            BY <2>1, <2>2, <2>3
        <3> QED BY <3>1, <2>2, <2>3
    <2> QED BY <2>4, <2>5
<1>9. w[0] = x0 /\ w[n] = h[1..n] /\ \A k \in 1..n : w[k] = MatchFill(w[k - 1], k, paper)
    <2>1. 1..0 = {} /\ 0 \in 0..n /\ n \in 0..n
        BY <1>1
    <2> HIDE DEF h
    <2> QED BY <1>1, <1>8, <2>1
<1> HIDE DEF w, h
<1>10. \A k \in 0..n : w[k] \in X
    <2>1. ASSUME NEW k \in 1..n, w[k - 1] \in X PROVE w[k] \in X
        BY <1>9, <2>1, MatchFillType DEF X
    <2>2. w[0] \in X
        BY <1>3, <1>9
    <2> HIDE DEF n
    <2> QED BY <1>1, <2>1, <2>2, Reached
<1>11. MatchWalk(paper, w)
    BY <1>2, <1>9, <1>10 DEF MatchWalk, x0, X
<1> QED BY <1>11

\* The same of the next state.
LEMMA FilledFactsNext == PnlTypes' => ScopesFinite'
<1> QED BY FilledFacts, PTL
LEMMA MatchedWalkNext == PnlTypes' => HasWalks'
<1> QED BY MatchedWalk, PTL

\* A row that fills changes no row and no scope but its own.
LEMMA RowsKept ==
    ASSUME PnlTypes, OrderFilled
    PROVE  /\ Len(fills) \in Nat /\ Len(fills') = Len(fills) + 1 /\ since' = since
           /\ DOMAIN fills = 1..Len(fills) /\ DOMAIN fills' = 1..Len(fills')
           /\ \A id \in 1..Len(fills) : fills'[id] = fills[id] /\ id \in 1..Len(fills')
<1>1. PICK r \in Row : fills' = Append(fills, r)
    BY FilledAppends
<1>2. fills \in Seq(Row) /\ Len(fills) \in Nat /\ since' = since
    BY FilledAppends DEF PnlTypes
<1>3. /\ Len(fills') = Len(fills) + 1 /\ DOMAIN fills = 1..Len(fills)
      /\ DOMAIN fills' = 1..Len(fills')
    BY <1>1, <1>2
<1>4. ASSUME NEW id \in 1..Len(fills)
      PROVE  fills'[id] = fills[id] /\ id \in 1..Len(fills')
    BY <1>1, <1>2, <1>3
<1> QED BY <1>2, <1>3, <1>4

LEMMA ScopeKept ==
    ASSUME PnlTypes, OrderFilled, NEW paper, NEW id \in 1..Len(fills)
    PROVE  /\ InScope(id, paper)' = InScope(id, paper)
           /\ \A side : id \in Filled(side, paper)' <=> id \in Filled(side, paper)
<1>1. InScope(id, paper)' = InScope(id, paper)
    BY RowsKept DEF InScope
<1> QED BY <1>1, RowsKept DEF Filled

\* A matching of more rows is at every row where the other was: it may have the
\* newest row in its queue as well, and round trips of it.
Within(m, o) ==
    /\ DOMAIN m.queue \subseteq DOMAIN o.queue
    /\ DOMAIN o.queue \ DOMAIN m.queue \subseteq {Len(fills) + 1}
    /\ \A b \in DOMAIN m.queue : m.queue[b] = o.queue[b]
    /\ m.trips \subseteq o.trips

LEMMA FillKeepsMatch ==
    ASSUME PnlTypes, PnlTypes', OrderFilled, NEW paper, NEW k \in 1..Len(fills),
           NEW m \in Matches(paper), NEW o \in Matches(paper)', Within(m, o)
    PROVE  Within(MatchFill(m, k, paper), MatchFill(o, k, paper)')
<1>1. /\ Len(fills) \in Nat /\ Len(fills') = Len(fills) + 1 /\ fills'[k] = fills[k]
      /\ InScope(k, paper)' = InScope(k, paper)
    BY RowsKept, ScopeKept
<1>2. CASE ~(InScope(k, paper) /\ fills[k].side = "sell")
    <2>1. MatchFill(m, k, paper) = m /\ MatchFill(o, k, paper)' = o
        BY <1>1, <1>2 DEF MatchFill
    <2> QED BY <2>1
<1>3. CASE InScope(k, paper) /\ fills[k].side = "sell"
    <2>1. PICK B \in SUBSET Filled("buy", paper) : m.queue \in [B -> Int]
        BY DEF Matches, Queues
    <2>2. PICK C \in SUBSET Filled("buy", paper)' : o.queue \in [C -> Int]
        BY DEF Matches, Queues
    <2>3. DOMAIN m.queue = B /\ DOMAIN o.queue = C
        BY <2>1, <2>2
    <2>4. IsFiniteSet(B) /\ B \subseteq 1..Len(fills) /\ B \subseteq Int
        <3>1. IsFiniteSet(Filled("buy", paper)) /\ Filled("buy", paper) \subseteq 1..Len(fills)
            BY FilledFacts DEF ScopesFinite
        <3> QED BY <3>1, FS_Subset
    <2>5. IsFiniteSet(C) /\ C \subseteq Int
        <3>1. /\ IsFiniteSet(Filled("buy", paper)')
              /\ Filled("buy", paper)' \subseteq 1..Len(fills')
            BY FilledFactsNext DEF ScopesFinite
        <3> QED BY <3>1, FS_Subset
    <2>6. PICK lots \in Int : lots = fills[k].lots
        <3>1. k \in Filled("sell", paper)
            BY <1>3 DEF Filled, PnlTypes
        <3>2. fills[k].lots \in Int
            BY <3>1, FilledFacts DEF ScopesFinite
        <3> QED BY <3>2
    <2> DEFINE taken == Taken(m.queue, lots)
               more == Taken(o.queue, lots)
               left == {b \in B : m.queue[b] > taken[b]}
               stay == {c \in C : o.queue[c] > more[c]}
               new == {Trip(b, k, taken[b]) : b \in {c \in B : taken[c] > 0}}
               news == {Trip(b, k, more[b])' : b \in {c \in C : more[c] > 0}}

    <2>7. taken \in [B -> Int] /\ more \in [C -> Int]
        BY <2>1, <2>2, <2>4, <2>5, <2>6, TakenType
    <2>8. B \subseteq C /\ C \ B \subseteq {Len(fills) + 1} /\ \A b \in B : m.queue[b] = o.queue[b]
        BY <2>3 DEF Within
    <2>9. \A c \in C \ B, b \in B : b < c
        BY <1>1, <2>4, <2>8
    <2>10. \A b \in B : taken[b] = more[b]
        <3>1. \A b \in DOMAIN m.queue, c \in DOMAIN o.queue \ DOMAIN m.queue : b < c
            BY <2>3, <2>9
        <3>2. /\ IsFiniteSet(DOMAIN o.queue) /\ DOMAIN o.queue \subseteq Int
              /\ DOMAIN m.queue \subseteq DOMAIN o.queue
              /\ \A b \in DOMAIN m.queue : m.queue[b] = o.queue[b]
            BY <2>3, <2>5, <2>8
        <3>3. \A b \in DOMAIN m.queue : Taken(m.queue, lots)[b] = Taken(o.queue, lots)[b]
            BY <3>1, <3>2, TakenSame
        <3> QED BY <2>3, <3>3
    <2>11. /\ MatchFill(m, k, paper) = [queue |-> [b \in left |-> m.queue[b] - taken[b]],
                                        trips |-> m.trips \cup new]
           /\ MatchFill(o, k, paper)' = [queue |-> [b \in stay |-> o.queue[b] - more[b]],
                                         trips |-> o.trips \cup news]
        <3>1. MatchFill(m, k, paper) = MatchSell(m, k)
            BY <1>3 DEF MatchFill
        <3>2. MatchFill(o, k, paper)' = MatchSell(o, k)'
            BY <1>1, <1>3 DEF MatchFill
        <3>3. MatchSell(m, k) = [queue |-> [b \in left |-> m.queue[b] - taken[b]],
                                 trips |-> m.trips \cup new]
            BY <2>3, <2>6 DEF MatchSell
        <3>4. MatchSell(o, k)' = [queue |-> [b \in stay |-> o.queue[b] - more[b]],
                                  trips |-> o.trips \cup news]
            BY <1>1, <2>3, <2>6 DEF MatchSell
        <3> QED BY <3>1, <3>2, <3>3, <3>4
    <2> HIDE DEF taken, more
    <2>12. left \subseteq stay /\ stay \ left \subseteq {Len(fills) + 1}
        <3>1. \A b \in B : b \in left <=> b \in stay
            BY <2>8, <2>10
        <3> QED BY <3>1, <2>8
    <2>13. new \subseteq news
        <3>1. ASSUME NEW b \in B PROVE Trip(b, k, taken[b]) = Trip(b, k, more[b])'
            <4>1. b \in 1..Len(fills)
                BY <2>4
            <4>2. fills'[b] = fills[b]
                BY <4>1, RowsKept
            <4>3. taken[b] = more[b] /\ fills'[k] = fills[k]
                BY <1>1, <2>10
            <4>4. Trip(b, k, more[b])' =
                      [buy |-> b, sell |-> k, lots |-> more[b],
                       contribution |-> (fills'[k].price - fills'[b].price) * more[b]]
                BY DEF Trip
            <4> QED BY <4>2, <4>3, <4>4 DEF Trip
        <3>2. ASSUME NEW b \in B, taken[b] > 0 PROVE Trip(b, k, taken[b]) \in news
            <4>1. b \in C /\ more[b] > 0
                BY <2>8, <2>10, <3>2
            <4> QED BY <4>1, <3>1
        <3> QED BY <3>2
    <2>14. m.trips \subseteq o.trips
        BY DEF Within
    <2>15. \A b \in left : m.queue[b] - taken[b] = o.queue[b] - more[b]
        BY <2>8, <2>10
    <2> HIDE DEF left, stay, new, news
    <2> DEFINE a == MatchFill(m, k, paper)
               z == MatchFill(o, k, paper)'
    <2>16. /\ DOMAIN a.queue = left /\ DOMAIN z.queue = stay
           /\ \A b \in left : a.queue[b] = m.queue[b] - taken[b]
           /\ \A b \in stay : z.queue[b] = o.queue[b] - more[b]
           /\ a.trips = m.trips \cup new /\ z.trips = o.trips \cup news
        BY <2>11
    <2> HIDE DEF a, z
    <2>17. Within(a, z)
        BY <2>12, <2>13, <2>14, <2>15, <2>16 DEF Within
    <2> QED BY <2>17 DEF a, z
<1> QED BY <1>2, <1>3

LEMMA TripsGrow ==
    ASSUME PnlTypes, PnlTypes', OrderFilled
    PROVE  Matched(Paper).trips \subseteq Matched(Paper)'.trips
<1>0. PICK n \in Nat : n = Len(fills)
    BY RowsKept
<1>1. PICK paper \in BOOLEAN : paper = Paper /\ paper = Paper'
    BY RowsKept DEF Paper
<1>2. /\ n \in Nat /\ Len(fills') = n + 1
      /\ \A k \in 1..n + 1 : k \in 1..Len(fills') /\ k - 1 \in 0..Len(fills')
    BY <1>0, RowsKept
<1>3. PICK w : MatchWalk(paper, w)
    BY MatchedWalk DEF HasWalks
<1>4. PICK v : MatchWalk(paper, v)'
    BY MatchedWalkNext DEF HasWalks
<1>5. /\ w[0] = [queue |-> Queue(paper), trips |-> {}]
      /\ \A k \in 1..n : w[k] = MatchFill(w[k - 1], k, paper)
      /\ \A k \in 0..n : w[k] \in Matches(paper)
      /\ Matched(paper) = w[n]
    BY <1>0, <1>3 DEF MatchWalk
<1>6. /\ v[0] = [queue |-> Queue(paper)', trips |-> {}]
      /\ \A k \in 1..n + 1 : v[k] = MatchFill(v[k - 1], k, paper)'
      /\ \A k \in 0..n + 1 : v[k] \in Matches(paper)'
      /\ Matched(paper)' = v[n + 1]
    BY <1>2, <1>4 DEF MatchWalk
<1>7. Within(w[0], v[0])
    <2> DEFINE B == Filled("buy", paper)
               C == Filled("buy", paper)'
    <2>1. B \subseteq 1..n /\ C \subseteq 1..n + 1
        <3>1. B \subseteq 1..n
            BY <1>0, FilledFacts DEF ScopesFinite
        <3>2. C \subseteq 1..Len(fills')
            BY FilledFactsNext DEF ScopesFinite
        <3> QED BY <1>2, <3>1, <3>2
    <2>2. \A id \in 1..n : (id \in C <=> id \in B) /\ fills'[id] = fills[id]
        BY <1>0, ScopeKept, RowsKept
    <2>3. B \subseteq C /\ C \ B \subseteq {n + 1} /\ \A b \in B : fills'[b].lots = fills[b].lots
        BY <1>2, <2>1, <2>2
    <2>4. /\ w[0].queue = [b \in B |-> fills[b].lots] /\ v[0].queue = [b \in C |-> fills'[b].lots]
          /\ w[0].trips = {}
        BY <1>5, <1>6 DEF Queue
    <2> HIDE DEF B, C
    <2> QED BY <1>0, <2>3, <2>4 DEF Within
<1> DEFINE S == {k \in Nat : k <= n => Within(w[k], v[k])}
<1>8. 0 \in S
    BY <1>7
<1>9. ASSUME NEW k \in Nat, k \in S PROVE k + 1 \in S
    <2> SUFFICES ASSUME k + 1 <= n PROVE Within(w[k + 1], v[k + 1])
        OBVIOUS
    <2>1. k + 1 \in 1..n /\ k + 1 \in 1..n + 1 /\ k \in 0..n /\ k \in 0..n + 1 /\ (k + 1) - 1 = k
        BY <1>2
    <2>2. w[k] \in Matches(paper) /\ v[k] \in Matches(paper)' /\ Within(w[k], v[k])
        BY <1>5, <1>6, <1>9, <2>1
    <2>3. w[k + 1] = MatchFill(w[k], k + 1, paper) /\ v[k + 1] = MatchFill(v[k], k + 1, paper)'
        BY <1>5, <1>6, <2>1
    <2>4. Within(MatchFill(w[k], k + 1, paper), MatchFill(v[k], k + 1, paper)')
        BY <1>0, <2>1, <2>2, FillKeepsMatch
    <2> QED BY <2>3, <2>4
<1>10. w[n].trips \subseteq v[n].trips
    <2>1. Nat \subseteq S
        <3> HIDE DEF S
        <3> QED BY <1>8, <1>9, SetInduction
    <2>2. Within(w[n], v[n])
        BY <1>2, <2>1
    <2> QED BY <2>2 DEF Within
<1>11. v[n].trips \subseteq v[n + 1].trips
    <2>1. n + 1 \in 1..n + 1 /\ (n + 1) - 1 = n
        BY <1>2
    <2>2. v[n + 1] = MatchFill(v[n], n + 1, paper)'
        BY <1>6, <2>1
    <2> QED BY <2>2 DEF MatchFill, MatchSell
<1> QED BY <1>1, <1>5, <1>6, <1>10, <1>11

-----------------------------------------------------------------------------
\* The profit of a set of trips is that of its two parts.
LEMMA ProfitOfParts ==
    ASSUME NEW A, IsFiniteSet(A), NEW B, IsFiniteSet(B), A \cap B = {},
           \A t \in A \cup B : t.contribution \in Int
    PROVE  ProfitOf(A) + ProfitOf(B) = ProfitOf(A \cup B)
<1> DEFINE F(T) == [t \in T |-> t.contribution]
           f == F(A \cup B)
<1>1. ASSUME NEW T, IsFiniteSet(T), T \subseteq A \cup B
      PROVE  ProfitOf(T) = SumFunctionOnSet(f, T)
    <2>1. DOMAIN F(T) = T
        OBVIOUS
    <2>2. ProfitOf(T) = SumFunctionOnSet(F(T), T)
        BY Zenon, <2>1 DEF ProfitOf, SumFunction
    <2>3. \A t \in T : F(T)[t] = f[t]
        BY <1>1
    <2> HIDE DEF f, F
    <2> QED BY <1>1, <2>2, <2>3, SumSame
<1>2. \A t \in A \cup B : f[t] \in Int
    OBVIOUS
<1>3. IsFiniteSet(A \cup B)
    BY FS_Union
<1> HIDE DEF f
<1>4. /\ ProfitOf(A) = SumFunctionOnSet(f, A) /\ ProfitOf(B) = SumFunctionOnSet(f, B)
      /\ ProfitOf(A \cup B) = SumFunctionOnSet(f, A \cup B)
    BY <1>1, <1>3
<1>5. SumFunctionOnSet(f, A \cup B) = SumFunctionOnSet(f, A) + SumFunctionOnSet(f, B)
    BY <1>2, SumUnion
<1> QED BY <1>4, <1>5

LEMMA WindowsAdd == PnlTypes => WindowsAddUp
<1> SUFFICES ASSUME PnlTypes PROVE WindowsAddUp
    OBVIOUS
<1> DEFINE n == Len(fills)
           first == IF Paper THEN since ELSE 1
           last == n + 1
<1>1. PICK paper \in BOOLEAN : paper = Paper
    BY DEF Paper
<1>2. /\ n \in Nat /\ DOMAIN fills = 1..n /\ since \in Nat /\ first \in Nat /\ since <= first
      /\ fills \in Seq(Row) /\ first >= 1
    BY DEF PnlTypes, Paper
<1> DEFINE T == Matched(paper).trips
           all == Filled("buy", paper) \cup Filled("sell", paper)
<1>3. T \in SUBSET Trips(paper) /\ IsFiniteSet(T)
    <2>1. PICK w : MatchWalk(paper, w)
        BY MatchedWalk DEF HasWalks
    <2>2. Matched(paper) \in Matches(paper)
        <3>1. n \in 0..n
            BY <1>2
        <3> QED BY <2>1, <3>1 DEF MatchWalk
    <2> QED BY <2>2 DEF Matches
<1>4. all = {id \in 1..n : InScope(id, paper)} /\ IsFiniteSet(all)
    <2>1. \A id \in 1..n : fills[id].side = "buy" \/ fills[id].side = "sell"
        <3>1. \A id \in 1..n : fills[id] \in Row
            BY <1>2
        <3> QED BY <3>1 DEF Row
    <2>2. all = {id \in 1..n : InScope(id, paper)}
        BY <1>2, <2>1 DEF Filled
    <2>3. IsFiniteSet(Filled("buy", paper)) /\ IsFiniteSet(Filled("sell", paper))
        BY FilledFacts DEF ScopesFinite
    <2>4. IsFiniteSet(all)
        BY <2>3, FS_Union
    <2> QED BY <2>2, <2>4
<1>5. \A t \in T : t.sell \in all /\ t.contribution \in Int
    BY <1>3 DEF Trips
<1>6. Snapshot(Paper).realized = ProfitOf(T) /\ Snapshot(Paper).fillCount = Cardinality(all)
    BY <1>1 DEF Snapshot
<1> DEFINE ids(lo, hi) == {id \in Window(lo, hi) \cap DOMAIN fills : InScope(id, paper)}
           part(I) == {t \in T : t.sell \in I}
<1>7. ASSUME NEW lo \in Nat, NEW hi, lo >= first
      PROVE  /\ WindowMetrics(lo, hi).realized = ProfitOf(part(ids(lo, hi)))
             /\ WindowMetrics(lo, hi).fillCount = Cardinality(ids(lo, hi))
    <2>1. (Paper /\ lo >= since) = paper
        BY <1>1, <1>2, <1>7
    <2> QED BY <2>1 DEF WindowMetrics
<1> HIDE DEF T, all
<1>8. ASSUME NEW cut \in first..last
      PROVE  /\ WindowMetrics(first, cut).realized + WindowMetrics(cut, last).realized
                    = Snapshot(Paper).realized
             /\ WindowMetrics(first, cut).fillCount + WindowMetrics(cut, last).fillCount
                    = Snapshot(Paper).fillCount
    <2> DEFINE I == ids(first, cut)
               J == ids(cut, last)
    <2>1. cut \in Nat /\ cut >= first /\ cut <= n + 1
        BY <1>2
    <2>2. /\ \A id \in I : id < cut /\ id \in all
          /\ \A id \in J : id >= cut /\ id \in all
        BY <1>2, <1>4, <2>1 DEF Window
    <2>3. ASSUME NEW id \in all PROVE id \in I \/ id \in J
        <3>1. id \in 1..n /\ InScope(id, paper)
            BY <1>4
        <3>2. id >= first
            BY <1>1, <1>2, <3>1 DEF InScope
        <3>3. id \in first..cut - 1 \/ id \in cut..n + 1 - 1
            BY <1>2, <2>1, <3>1, <3>2
        <3> QED BY <1>2, <3>1, <3>3 DEF Window
    <2>4. I \cup J = all /\ I \cap J = {}
        <3>1. all \subseteq 1..n
            BY <1>4
        <3>2. \A id \in all : id \in Int
            BY <3>1
        <3> HIDE DEF I, J
        <3>3. ASSUME NEW id \in I, id \in J PROVE FALSE
            <4>1. id < cut /\ id >= cut /\ id \in all
                BY <2>2, <3>3
            <4> QED BY <2>1, <3>2, <4>1
        <3> QED BY <2>2, <2>3, <3>3
    <2>5. /\ WindowMetrics(first, cut).realized = ProfitOf(part(I))
          /\ WindowMetrics(cut, last).realized = ProfitOf(part(J))
          /\ WindowMetrics(first, cut).fillCount = Cardinality(I)
          /\ WindowMetrics(cut, last).fillCount = Cardinality(J)
        <3>1. first \in Nat /\ first >= first
            BY <1>2
        <3> HIDE DEF first, last, n, ids, part
        <3>2. /\ WindowMetrics(first, cut).realized = ProfitOf(part(I))
              /\ WindowMetrics(first, cut).fillCount = Cardinality(I)
            BY <1>7, <3>1
        <3>3. /\ WindowMetrics(cut, last).realized = ProfitOf(part(J))
              /\ WindowMetrics(cut, last).fillCount = Cardinality(J)
            BY <1>7, <2>1
        <3> QED BY <3>2, <3>3
    <2> HIDE DEF I, J
    <2>6. Cardinality(I) + Cardinality(J) = Cardinality(all)
        <3>1. I \in SUBSET all /\ J \in SUBSET all
            BY <2>4
        <3>2. IsFiniteSet(I) /\ IsFiniteSet(J)
            BY <1>4, <3>1, FS_Subset
        <3>3. Cardinality(I) \in Nat /\ Cardinality(J) \in Nat /\ Cardinality({}) = 0
            BY <3>2, FS_CardinalityType, FS_EmptySet
        <3>4. Cardinality(I \cup J) = Cardinality(I) + Cardinality(J) - Cardinality(I \cap J)
            BY <3>2, FS_Union
        <3>5. Cardinality(I \cup J) = Cardinality(all) /\ Cardinality(I \cap J) = 0
            BY <2>4, <3>3
        <3> QED BY <3>3, <3>4, <3>5
    <2>7. ProfitOf(part(I)) + ProfitOf(part(J)) = ProfitOf(T)
        <3>1. part(I) \cup part(J) = T /\ part(I) \cap part(J) = {}
            BY <1>5, <2>4
        <3>2. part(I) \in SUBSET T /\ part(J) \in SUBSET T
            OBVIOUS
        <3> HIDE DEF part
        <3>3. IsFiniteSet(part(I)) /\ IsFiniteSet(part(J))
            BY <1>3, <3>2, FS_Subset
        <3>4. \A t \in part(I) \cup part(J) : t.contribution \in Int
            BY <1>5, <3>1
        <3>5. ProfitOf(part(I)) + ProfitOf(part(J)) = ProfitOf(part(I) \cup part(J))
            BY <3>1, <3>3, <3>4, ProfitOfParts
        <3> QED BY <3>1, <3>5
    <2> QED BY <1>6, <2>5, <2>6, <2>7
<1> QED BY <1>8 DEF WindowsAddUp

\* A reported round trip is never rewritten while a run lasts, and what the
\* outcomes of back-to-back windows say was realised is what the snapshot says,
\* for any fills (_fifo_match under get_pnl_snapshot and _compute_window_metrics).
THEOREM RealizedAlwaysStands == PnlSpec => RealizedStands
<1>1. PnlTypes /\ PnlTypes' /\ [PnlNext]_pnlVars =>
          [since' = since => Matched(Paper).trips \subseteq Matched(Paper)'.trips]_pnlVars
    <2> SUFFICES ASSUME PnlTypes, PnlTypes', PnlNext, since' = since
                 PROVE  Matched(Paper).trips \subseteq Matched(Paper)'.trips
        OBVIOUS
    <2>1. OrderFilled
        BY DEF PnlTypes, PnlNext, PaperRun, LiveAgain
    <2> QED BY <2>1, TripsGrow
<1> QED BY <1>1, PnlInitial, PnlStep, WindowsAdd, PTL DEF PnlSpec, RealizedStands, TripsOnlyGrow

-----------------------------------------------------------------------------
(***************************************************************************)
(* A receipt of the mirror stands for scores that all arrived, for any     *)
(* votes and windows, whatever is dropped, graded late or cut short.       *)
(***************************************************************************)
\* The inductive invariant: an answer that the receipt will be written for is
\* that of POSTs which all landed.
AnswerHonest ==
    /\ Sweeping /\ answer = "delivered" /\ Head(rows) \in Traced =>
          \A s \in Owed(Head(rows)) \cap Covers(Kind) : <<s, Head(rows)>> \in landed
    /\ Kind = "effects" /\ answer = "delivered" => <<"effects", Head(rows)>> \in landed
ScoreInv == ReceiptsHonest /\ AnswerHonest

\* A row that no seat waits for has a grade of every seat it is owed.
LEMMA OwedIsScored ==
    ASSUME NEW c \in Cycles, NEW kind, Ready(kind, c)
    PROVE  Owed(c) \cap Covers(kind) \subseteq Scores(kind, c)
<1>1. CASE kind # "seats" BY <1>1 DEF Covers, Scores
<1>2. CASE kind = "seats"
    <2> SUFFICES ASSUME NEW s \in Owed(c) \cap Seats
                 PROVE  Grade(c, s) = "grade"
        BY <1>2 DEF Covers, Scores
    <2>1. s \notin {Windows[i] : i \in 1..Len(Windows)} /\ s # "stance"
        BY ScoreAssumption DEF Seats
    <2>2. \A seat \in Seats : Grade(c, seat) # "wait"
        BY <1>2 DEF Ready
    <2>3. CASE s = "casper"
        <3>1. Vote[c].casper # "silent" BY <2>1, <2>3 DEF Owed
        <3>2. Grade(c, s) = Covered(c) BY <3>1, <2>3 DEF Grade, GradeCasper
        <3> QED BY <3>2, <2>2 DEF Covered
    <2>4. CASE s = "balthasar"
        <3>1. Vote[c].balthasar \in {"veto", "clear"} BY <2>1, <2>4 DEF Owed
        <3>2. Grade(c, s) = GradeBalthasar(c) BY <3>1, <2>4 DEF Grade
        <3>3. GradeBalthasar(c) \in {"grade", "wait"}
            BY <3>1 DEF GradeBalthasar, Covered
        <3> QED BY <3>2, <3>3, <2>2
    <2>5. CASE s = "melchior"
        <3>1. \/ Vote[c].melchior \in {"THESIS_HOLDS", "NO_PROFITABLE_GRID"}
              \/ Vote[c].melchior = "RECONFIGURE" /\ Vote[c].balthasar = "clear"
            BY <2>1, <2>5 DEF Owed
        <3>2. Grade(c, s) = GradeMelchior(c) BY <3>1, <2>5 DEF Grade
        <3>3. CASE Vote[c].melchior \in {"THESIS_HOLDS", "NO_PROFITABLE_GRID"}
            <4>1. GradeMelchior(c) = Covered(c) BY <3>3 DEF GradeMelchior
            <4> QED BY <4>1, <3>2, <2>2 DEF Covered
        <3>4. CASE Vote[c].melchior = "RECONFIGURE" /\ Vote[c].balthasar = "clear"
            \* His grade is there as soon as Balthasar's no longer waits for it.
            <4>1. Grade(c, "balthasar") = IF HasOutcome(c) THEN "grade" ELSE "wait"
                BY <3>4 DEF Grade, GradeBalthasar
            <4>2. HasOutcome(c) BY <4>1, <2>2 DEF Seats
            <4>3. GradeMelchior(c) = "grade" BY <4>2, <3>4 DEF GradeMelchior
            <4> QED BY <4>3, <3>2
        <3> QED BY <3>1, <3>3, <3>4
    <2> QED BY <2>3, <2>4, <2>5 DEF Seats
<1> QED BY <1>1, <1>2

LEMMA ScoreInitial == ScoreInit => ScoreInv
BY DEF ScoreInit, ScoreInv, ReceiptsHonest, AnswerHonest

\* A step that writes no receipt and leaves no delivered answer behind.
LEMMA NothingReceipted ==
    ASSUME ScoreInv, receipts' = receipts, pushedFor' = pushedFor,
           landed \subseteq landed', answer' # "delivered"
    PROVE  ScoreInv'
BY DEF ScoreInv, ReceiptsHonest, AnswerHonest, Owed, Covers

LEMMA PushTraceScoresKeeps == ScoreInv /\ PushTraceScores => ScoreInv'
<1> SUFFICES ASSUME ScoreInv, PushTraceScores PROVE ScoreInv'
    OBVIOUS
<1>1. PICK c \in Cycles : \E ok \in SUBSET Scores(Kind, c) :
          /\ Trying(c) /\ Ready(Kind, c)
          /\ answer' = IF c \notin Traced \/ ok = Scores(Kind, c) THEN "delivered" ELSE "dropped"
          /\ landed' = landed \cup {<<s, c>> : s \in ok}
    BY DEF PushTraceScores
<1>2. PICK ok \in SUBSET Scores(Kind, c) :
          /\ Trying(c) /\ Ready(Kind, c)
          /\ answer' = IF c \notin Traced \/ ok = Scores(Kind, c) THEN "delivered" ELSE "dropped"
          /\ landed' = landed \cup {<<s, c>> : s \in ok}
    BY <1>1
<1>3. /\ receipts' = receipts /\ pushedFor' = pushedFor /\ rows' = rows /\ Kind' = Kind
      /\ Sweeping /\ Head(rows) = c
    BY <1>2 DEF PushTraceScores, Kind, Stages, dayVars, Trying
<1>4. ReceiptsHonest'
    BY <1>2, <1>3 DEF ScoreInv, ReceiptsHonest, Owed, Covers
<1>5. ASSUME answer' = "delivered", c \in Traced, NEW s \in Owed(c) \cap Covers(Kind)
      PROVE  <<s, c>> \in landed'
    <2>1. ok = Scores(Kind, c) BY <1>2, <1>5
    <2>2. s \in ok BY <1>2, <1>5, <2>1, OwedIsScored
    <2> QED BY <1>2, <2>2
<1>6. Kind # "effects" BY <1>3 DEF Sweeping
<1>7. AnswerHonest'
    BY <1>3, <1>5, <1>6 DEF AnswerHonest, Owed, Covers
<1> QED BY <1>4, <1>7 DEF ScoreInv

LEMMA ReceiptKeeps == ScoreInv /\ Receipt => ScoreInv'
<1> SUFFICES ASSUME ScoreInv, Receipt PROVE ScoreInv'
    OBVIOUS
<1>1. /\ Sweeping /\ landed' = landed /\ pushedFor' = pushedFor /\ answer' = "none"
      /\ \/ receipts' = receipts
         \/ answer = "delivered" /\ receipts' = receipts \cup {<<Kind, Head(rows)>>}
    BY DEF Receipt, Confirmed, dayVars
<1>2. CASE receipts' = receipts BY <1>1, <1>2, NothingReceipted
<1>3. CASE answer = "delivered" /\ receipts' = receipts \cup {<<Kind, Head(rows)>>}
    <2>1. ASSUME NEW r \in receipts', r[2] \in Traced, NEW s \in Owed(r[2]) \cap Covers(r[1])
          PROVE  <<s, r[2]>> \in landed'
        <3>1. CASE r \in receipts BY <3>1, <2>1, <1>1 DEF ScoreInv, ReceiptsHonest
        <3>2. CASE r = <<Kind, Head(rows)>>
            BY <3>2, <2>1, <1>1, <1>3 DEF ScoreInv, AnswerHonest
        <3> QED BY <1>3, <2>1, <3>1, <3>2
    <2>2. ReceiptsHonest'
        BY <2>1, <1>1 DEF ScoreInv, ReceiptsHonest, Owed, Covers
    <2>3. AnswerHonest' BY <1>1 DEF AnswerHonest
    <2> QED BY <2>2, <2>3 DEF ScoreInv
<1> QED BY <1>1, <1>2, <1>3

LEMMA EffectsKeep == ScoreInv /\ (PushEffects \/ EffectsReceipt) => ScoreInv'
<1>1. ASSUME ScoreInv, PushEffects PROVE ScoreInv'
    <2>1. PICK ok \in BOOLEAN :
              /\ answer' = IF ok THEN "delivered" ELSE "dropped"
              /\ landed' = IF ok THEN landed \cup {<<"effects", today>>} ELSE landed
        BY <1>1 DEF PushEffects
    <2>2. /\ receipts' = receipts /\ pushedFor' = pushedFor /\ rows' = <<today>>
          /\ Kind = "effects" /\ stage' = stage
        BY <1>1 DEF PushEffects, dayVars
    <2>3. Head(rows') = today
        BY <2>2, rows' \in Seq({today})
    <2>4. Kind' = "effects"
        BY <2>2 DEF Kind, Stages
    <2>5. ReceiptsHonest'
        BY <1>1, <2>1, <2>2 DEF ScoreInv, ReceiptsHonest, Owed, Covers
    <2>6. AnswerHonest'
        BY <2>1, <2>3, <2>4 DEF AnswerHonest, Sweeping
    <2> QED BY <2>5, <2>6 DEF ScoreInv
<1>2. ASSUME ScoreInv, EffectsReceipt PROVE ScoreInv'
    <2>1. /\ Kind = "effects" /\ landed' = landed /\ receipts' = receipts /\ answer' = "unread"
          /\ \/ pushedFor' = pushedFor
             \/ answer = "delivered" /\ pushedFor' = Head(rows)
        BY <1>2 DEF EffectsReceipt, Confirmed, NextStage
    <2>2. ReceiptsHonest'
        BY <1>2, <2>1 DEF ScoreInv, ReceiptsHonest, AnswerHonest, Owed, Covers
    <2>3. AnswerHonest' BY <2>1 DEF AnswerHonest
    <2> QED BY <2>2, <2>3 DEF ScoreInv
<1> QED BY <1>1, <1>2

LEMMA ScoreStep == ScoreInv /\ [ScoreNext]_scoreVars => ScoreInv'
<1> SUFFICES ASSUME ScoreInv, [ScoreNext]_scoreVars PROVE ScoreInv'
    OBVIOUS
<1>1. CASE BackfillOutcomes
    BY <1>1, NothingReceipted DEF BackfillOutcomes, NextStage, dayVars
<1>2. CASE GradeStances BY <1>2, NothingReceipted DEF GradeStances, NextStage, dayVars
<1>3. CASE SelectRows BY <1>3, NothingReceipted DEF SelectRows, dayVars
<1>4. CASE SkipRow BY <1>4, NothingReceipted DEF SkipRow, Trying, dayVars
<1>5. CASE PushTraceScores BY <1>5, PushTraceScoresKeeps
<1>6. CASE Receipt BY <1>6, ReceiptKeeps
<1>7. CASE SweepEnds BY <1>7, NothingReceipted DEF SweepEnds, NextStage, dayVars
<1>8. CASE EffectsDone BY <1>8, NothingReceipted DEF EffectsDone, NextStage, dayVars
<1>9. CASE PushEffects \/ EffectsReceipt BY <1>9, EffectsKeep
<1>10. CASE Crash BY <1>10, NothingReceipted DEF Crash, dayVars
<1>11. CASE Ages \/ NewDay \/ UNCHANGED scoreVars
    <2>1. UNCHANGED <<receipts, landed, stage, rows, answer, pushedFor>>
        BY <1>11 DEF Ages, NewDay, scoreVars, dayVars
    <2> QED BY <2>1 DEF ScoreInv, ReceiptsHonest, AnswerHonest, Owed, Covers, Sweeping, Kind, Stages
<1> QED BY <1>1, <1>2, <1>3, <1>4, <1>5, <1>6, <1>7, <1>8, <1>9, <1>10, <1>11 DEF ScoreNext, Pass

\* A receipt, and the date of the effect metrics, is there only when nothing
\* that it stands for is missing (ReceiptsHonest), for every set of cycles,
\* votes and windows, and any number of dropped POSTs, failures and crashes.
THEOREM ReceiptsAlwaysHonest == ScoreSpec => []ReceiptsHonest
<1>1. ScoreInv => ReceiptsHonest
    BY DEF ScoreInv
<1> QED BY <1>1, ScoreInitial, ScoreStep, PTL DEF ScoreSpec
=============================================================================

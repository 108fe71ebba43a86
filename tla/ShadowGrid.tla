----------------------------- MODULE ShadowGrid -----------------------------
(***************************************************************************)
(* grid/shadow_simulator.py and what engine.py does with it: one simulated *)
(* grid per level count, fed with the live price, its rows in              *)
(* shadow_grid_state, and the switch of the live level count that its      *)
(* rolling P&L may cause.                                                  *)
(*                                                                         *)
(* Spacings, the fee and the P&L are percentages; money is a hundredth of  *)
(* price times size, so that the fee is exact.  A price is rounded down to *)
(* the unit.  A fill exactly Window hours old is inside the window or not: *)
(* its age, rounded to two decimals, may be Window while it still is.      *)
(*                                                                         *)
(* The variants are held in a dictionary under the placeholder KeySpacing, *)
(* saved under the spacing they track, and loaded by the key again.        *)
(*                                                                         *)
(* ForgetsMoney is a faulty variant, for the mutant run.                   *)
(***************************************************************************)
EXTENDS Integers, Sequences, FiniteSets, SequencesExt

CONSTANTS
    ShadowLevels,  \* GRID_LEVEL_VARIANTS, in the order of the code
    KeySpacing,    \* SPACING_VARIANTS[0], a placeholder
    DefaultLevels, \* GRID_LEVELS_DEFAULT
    Grounds,       \* [centre, spacing] a rebuild of the live grid may ask for
    Ticks,         \* prices
    Budget,        \* MAX_INVENTORY_USD
    MakerFee,      \* MAKER_FEE
    Memory,        \* fills kept in memory, 500
    Kept,          \* fills kept in a row, 200
    PersistEvery,  \* ticks between two saves, 10
    RollingFills,  \* fills the rolling P&L counts, 50
    RollingHours,  \* hours it counts, and the history a switch needs, 24
    SwitchFills,   \* GRID_SWITCH_MIN_FILLS
    SwitchMargin,  \* GRID_SWITCH_THRESHOLD_PCT
    MaxTicks,      \* bound: ticks of a process
    MaxHour,       \* bound: hours
    ShadowEvents   \* bound: rebuilds, switches, restarts, paper fills

ASSUME ShadowAssumption ==
    /\ ShadowLevels \in Seq(Nat \ {0, 1})
    /\ Grounds \subseteq [centre : Nat \ {0}, spacing : 1..99]
    /\ \A g \in Grounds, i \in 1..Len(ShadowLevels) : \* the lowest arm has a price
          (ShadowLevels[i] \div 2) * g.spacing <= 100
    /\ Ticks \subseteq Nat \ {0}
    /\ KeySpacing \in 1..99 /\ MakerFee \in 0..100
    /\ {Budget, Kept, Memory, RollingHours} \subseteq Nat
    /\ Kept <= Memory /\ PersistEvery \in Nat \ {0}

VARIABLES
    shadows,    \* the ShadowGrid of each level count
    saved,      \* shadow_grid_state: [levels, spacing] -> a serialized ShadowGrid
    ground,     \* newest grid_state row: [centre, spacing, levels]; empty before
    levelCount, \* engine.level_count
    builtFor,   \* engine._last_shadow_level_count; 0 is None
    ticks,      \* engine._shadow_tick_count
    hour,
    events

shadowVars == <<shadows, saved, ground, levelCount, builtFor, ticks, hour, events>>

AllLevels == {ShadowLevels[i] : i \in 1..Len(ShadowLevels)}
Total(s) == FoldLeft(LAMBDA a, b : a + b, 0, s)
LastOf(s, n) == IF Len(s) <= n THEN s ELSE SubSeq(s, Len(s) - n + 1, Len(s))

-----------------------------------------------------------------------------
(***************************************************************************)
(* One ShadowGrid.                                                         *)
(***************************************************************************)
FreshShadow ==
    [centre |-> 0, spacing |-> KeySpacing, orders |-> <<>>, fills |-> <<>>, price |-> 0,
     xrp |-> 0, usd |-> 100 * Budget]

\* rebuild: the i-th arm of either side, in the order the dictionary gets them.
RestingOrders(lc, centre, spacing) ==
    LET size == (Budget \div (lc \div 2)) \div centre
        Arm(i, side, percent) ==
            [level |-> i, side |-> side, price |-> (centre * percent) \div 100, size |-> size]
    IN  [k \in 1..(2 * (lc \div 2)) |->
            LET i == (k + 1) \div 2
            IN  IF k % 2 = 1 THEN Arm(-i, "buy", 100 - i * spacing)
                             ELSE Arm(i, "sell", 100 + i * spacing)]

UpdateCentre(s, centre, spacing) ==
    [s EXCEPT !.centre = centre, !.spacing = spacing, !.price = centre]
Rebuild(s, lc, centre, spacing) ==
    [UpdateCentre(s, centre, spacing) EXCEPT !.orders = RestingOrders(lc, centre, spacing)]

Worth(order) == order.size * order.price
FeeOf(order) == MakerFee * Worth(order)
Touched(order, price) ==
    \/ order.side = "buy" /\ price <= order.price
    \/ order.side = "sell" /\ price >= order.price
Affords(s, order) ==
    IF order.side = "buy" THEN s.usd >= 100 * Worth(order) + FeeOf(order)
                          ELSE s.xrp >= order.size
Traded(s, order) ==
    LET sign == IF order.side = "buy" THEN 1 ELSE -1
    IN  [s EXCEPT !.xrp = @ + sign * order.size,
                  !.usd = @ - sign * 100 * Worth(order) - FeeOf(order),
                  !.fills = Append(@, [side |-> order.side, price |-> order.price,
                                       size |-> order.size, hour |-> hour])]

\* A filled level rests again on the other side, one spacing away.
Flipped(order, spacing) ==
    LET buy == order.side = "buy"
    IN  [order EXCEPT !.side = IF buy THEN "sell" ELSE "buy",
                      !.price = (@ * IF buy THEN 100 + spacing ELSE 100 - spacing) \div 100]

\* The orders one after the other, on the money the earlier ones left; an order
\* that cannot be afforded stays.
AfterOrders(s, price) ==
    LET walked[k \in 0..Len(s.orders)] ==
            IF k = 0 THEN [grid |-> [s EXCEPT !.price = price], filled |-> {}]
            ELSE LET before == walked[k - 1]
                     fills  == Touched(s.orders[k], price) /\ Affords(before.grid, s.orders[k])
                 IN  IF fills THEN [grid   |-> Traded(before.grid, s.orders[k]),
                                    filled |-> before.filled \cup {k}]
                              ELSE before
    IN  walked[Len(s.orders)]

\* process_tick: the flips come at the end.
ProcessTick(s, price) ==
    LET end == AfterOrders(s, price)
    IN  IF s.orders = <<>> THEN s
        ELSE [end.grid EXCEPT
                !.orders = [k \in 1..Len(@) |-> IF k \in end.filled THEN Flipped(@[k], s.spacing)
                                                                     ELSE @[k]],
                !.fills = LastOf(@, Memory)]

-----------------------------------------------------------------------------
(***************************************************************************)
(* The rolling figures.  `edge' says whether a fill of exactly RollingHours*)
(* is still in the window.                                                 *)
(***************************************************************************)
Recent(s, edge) ==
    LET age(f) == hour - f.hour
    IN  SelectSeq(s.fills, LAMBDA f : age(f) < RollingHours \/ (edge /\ age(f) = RollingHours))

FillCount(s, edge) == LET n == Len(Recent(s, edge)) IN IF n < RollingFills THEN n ELSE RollingFills
OldestAge(s, edge) ==
    LET recent == LastOf(Recent(s, edge), RollingFills)
    IN  IF recent = <<>> THEN 0 ELSE hour - recent[1].hour

\* get_rolling_pnl_pct: what was sold, less what was bought and the fees, with
\* the XRP left over at the last price, per cent of what was bought.
RollingPnl(s, edge) ==
    LET recent   == LastOf(Recent(s, edge), RollingFills)
        Of(side) == SelectSeq(recent, LAMBDA f : f.side = side)
        Value(q) == Total([i \in 1..Len(q) |-> 100 * Worth(q[i])])
        Size(q)  == Total([i \in 1..Len(q) |-> q[i].size])
        fees     == Total([i \in 1..Len(recent) |-> FeeOf(recent[i])])
        left     == Size(Of("buy")) - Size(Of("sell"))
        cost     == Value(Of("buy"))
        net      == Value(Of("sell")) - cost - fees
                    + 100 * left * (IF s.price = 0 THEN s.centre ELSE s.price)
    IN  (100 * net) \div (IF cost > 0 THEN cost ELSE 100)

\* compute_expected_pnl_pct; the centre cancels out.
ExpectedPnl(lc, spacing) == (2 * (lc \div 2) * spacing) \div (lc - 1) - 2 * MakerFee

\* get_evaluation: the spacing reported is that of the key.
Evaluation(edge) ==
    [lc \in AllLevels |->
        [spacing  |-> KeySpacing,
         fills    |-> FillCount(shadows[lc], edge),
         pnl      |-> RollingPnl(shadows[lc], edge),
         expected |-> ExpectedPnl(lc, KeySpacing)]]

-----------------------------------------------------------------------------
(***************************************************************************)
(* shadow_grid_state.                                                      *)
(***************************************************************************)
ForgetsMoney(s) == [s EXCEPT !.fills = LastOf(@, Kept), !.usd = 100 * Budget]
Serialized(s) == [s EXCEPT !.fills = LastOf(@, Kept)]
Key(lc, spacing) == [levels |-> lc, spacing |-> spacing]

\* persist_all: an upsert per variant, one transaction each; the first n of
\* them happen, all unless one raises.
Persisted(table, grids, n) ==
    LET Row(i) == Key(ShadowLevels[i], grids[ShadowLevels[i]].spacing)
        new    == [r \in {Row(i) : i \in 1..n} |-> Serialized(grids[r.levels])]
    IN  [r \in DOMAIN table \cup DOMAIN new |-> IF r \in DOMAIN new THEN new[r] ELSE table[r]]

\* load_from_db, in a new process: all a row holds but the spacing comes back.
Deserialized(row) == [row EXCEPT !.spacing = KeySpacing]
Loaded ==
    [lc \in AllLevels |->
        IF Key(lc, KeySpacing) \in DOMAIN saved
        THEN Deserialized(saved[Key(lc, KeySpacing)]) ELSE FreshShadow]

RebuildAll(grids, centre, spacing) ==
    [lc \in AllLevels |-> Rebuild(grids[lc], lc, centre, spacing)]
SomeEmpty(grids) == \E lc \in AllLevels : grids[lc].orders = <<>>

-----------------------------------------------------------------------------
NoGround == [centre |-> 0, spacing |-> 0, levels |-> 0]
ShadowInit ==
    /\ shadows = [lc \in AllLevels |-> FreshShadow]
    /\ saved = [r \in {Key(lc, KeySpacing) : lc \in AllLevels} |-> FreshShadow]
    /\ ground = NoGround
    /\ levelCount = DefaultLevels /\ builtFor = 0
    /\ ticks = 0 /\ hour = 0 /\ events = 0

Event == events < ShadowEvents /\ events' = events + 1

\* process_shadow_tick, with a save every so many ticks of the process.
ShadowTick ==
    /\ ticks < MaxTicks /\ ticks' = ticks + 1
    /\ \E price \in Ticks :
          shadows' = [lc \in AllLevels |-> ProcessTick(shadows[lc], price)]
    /\ IF ticks' % PersistEvery = 0
       THEN \E n \in 0..Len(ShadowLevels) : saved' = Persisted(saved, shadows', n)
       ELSE saved' = saved
    /\ UNCHANGED <<ground, levelCount, builtFor, hour, events>>

\* The end of simulate_fills, when an order filled.
PaperFillsSave ==
    /\ Event
    /\ \E n \in 0..Len(ShadowLevels) : saved' = Persisted(saved, shadows, n)
    /\ UNCHANGED <<shadows, ground, levelCount, builtFor, ticks, hour>>

\* The end of initialise_grid: the orders are kept while the level count is.
ShadowFollows(centre, spacing, levels) ==
    IF builtFor # levels \/ SomeEmpty(shadows)
    THEN shadows' = RebuildAll(shadows, centre, spacing) /\ builtFor' = levels
    ELSE /\ shadows' = [lc \in AllLevels |-> UpdateCentre(shadows[lc], centre, spacing)]
         /\ UNCHANGED builtFor

LiveRebuild ==
    /\ Event
    /\ \E g \in Grounds :
          /\ ground' = [centre |-> g.centre, spacing |-> g.spacing, levels |-> levelCount]
          /\ ShadowFollows(g.centre, g.spacing, levelCount)
    /\ UNCHANGED <<saved, levelCount, ticks, hour>>

\* The variant that beats the current one, if the four gates let it pass.  A
\* level count that is no variant has no fills and never passes the first.
Best(stats) ==
    LET i == CHOOSE j \in 1..Len(ShadowLevels) :
                /\ \A k \in 1..Len(ShadowLevels) :
                      stats[ShadowLevels[k]].pnl <= stats[ShadowLevels[j]].pnl
                /\ \A k \in 1..(j - 1) :
                      stats[ShadowLevels[k]].pnl < stats[ShadowLevels[j]].pnl
    IN  ShadowLevels[i]
BeatsLive(lc, edge) ==
    LET stats == Evaluation(edge)
    IN  /\ ground.spacing = KeySpacing
        /\ levelCount \in AllLevels /\ stats[levelCount].fills >= SwitchFills
        /\ lc = Best(stats) /\ lc # levelCount
        /\ stats[lc].fills >= SwitchFills
        /\ \A v \in {levelCount, lc} : OldestAge(shadows[v], edge) >= RollingHours
        /\ stats[lc].pnl - stats[levelCount].pnl >= SwitchMargin

\* evaluate_and_maybe_switch_levels; the rebuild may refuse, the level count
\* and the audit row stay.
SwitchLevelCount ==
    /\ Event
    /\ \E lc \in AllLevels, edge, built \in BOOLEAN :
          /\ BeatsLive(lc, edge)
          /\ levelCount' = lc
          /\ ground' = [ground EXCEPT !.levels = lc]
          /\ IF built THEN ShadowFollows(ground.centre, ground.spacing, lc)
                      ELSE UNCHANGED <<shadows, builtFor>>
    /\ UNCHANGED <<saved, ticks, hour>>

\* A new process: load_state.
LoadState ==
    /\ Event
    /\ LET known == ground # NoGround
           build == SomeEmpty(Loaded) /\ known
       IN  /\ levelCount' = IF known THEN ground.levels ELSE DefaultLevels
           /\ builtFor' = IF known THEN ground.levels ELSE 0
           /\ shadows' = IF build THEN RebuildAll(Loaded, ground.centre, ground.spacing)
                                  ELSE Loaded
    /\ saved' = Persisted(saved, shadows', Len(ShadowLevels))
    /\ ticks' = 0
    /\ UNCHANGED <<ground, hour>>

HourPasses ==
    /\ hour < MaxHour /\ hour' = hour + 1
    /\ UNCHANGED <<shadows, saved, ground, levelCount, builtFor, ticks, events>>

ShadowNext ==
    \/ ShadowTick \/ PaperFillsSave \/ LiveRebuild \/ SwitchLevelCount \/ LoadState \/ HourPasses

-----------------------------------------------------------------------------
ShadowSpec == ShadowInit /\ [][ShadowNext]_shadowVars

\* What the fills say the variant holds is what it holds.
Balanced(s) ==
    LET Net(f) == IF f.side = "buy" THEN 1 ELSE -1
        n      == Len(s.fills)
    IN  /\ s.xrp = Total([i \in 1..n |-> Net(s.fills[i]) * s.fills[i].size])
        /\ s.usd = 100 * Budget - Total([i \in 1..n |-> 100 * Net(s.fills[i]) * Worth(s.fills[i])
                                                        + FeeOf(s.fills[i])])

\* The money of a variant is what its fills left of the budget: nothing is
\* spent twice, made up or lost by a fill, a flip, a rebuild that keeps the
\* fills, a partial save, or a restart from an older row; and no fill was made
\* on money or XRP the variant did not have.  Once a row dropped old fills, only
\* the latter can be said.
ShadowAccounts ==
    \A s \in {shadows[lc] : lc \in AllLevels} \cup {saved[r] : r \in DOMAIN saved} :
        s.usd >= 0 /\ s.xrp >= 0 /\ (Len(s.fills) < Kept => Balanced(s))
=============================================================================

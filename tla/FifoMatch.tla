----------------------------- MODULE FifoMatch ------------------------------
(***************************************************************************)
(* grid/pnl.py: the filled rows of grid_orders, the scope of the current   *)
(* run, and the FIFO matching of its buys and sells from which the         *)
(* dashboard, the council's world state and the outcome backfill compute   *)
(* realised profit.                                                        *)
(*                                                                         *)
(* All buys are queued before the first sell is matched, so a sell of seed *)
(* inventory meets buys that filled after it.  Sizes are whole lots; fees, *)
(* which the code splits in proportion to the matched size, and the equity *)
(* drift, which it reports beside the realised profit, are left out.       *)
(*                                                                         *)
(* NewestAhead and ClosedWindow are faulty variants, for the mutant runs.  *)
(***************************************************************************)
EXTENDS Integers, Sequences, FiniteSets, SequencesExt

CONSTANTS
    MaxFills,  \* bound: filled orders
    MaxLots,   \* bound: lots of a fill
    MaxPrice   \* bound: prices

ASSUME FifoAssumption == MaxFills \in Nat /\ MaxLots \in Nat \ {0} /\ MaxPrice \in Nat \ {0}

VARIABLES
    fills, \* filled rows of grid_orders, by filled_at; the index is the order_id
    since  \* first row after paper_run_started_utc; 0: the key is blank

pnlVars == <<fills, since>>

Lesser(a, b) == IF a < b THEN a ELSE b
\* fill_in_current_scope: the fills of the paper run, or the live ones.
Paper == since # 0
InScope(id, paper) == fills[id].paper = paper /\ (paper => id >= since)
Filled(side, paper) == {id \in DOMAIN fills : InScope(id, paper) /\ fills[id].side = side}

-----------------------------------------------------------------------------
(***************************************************************************)
(* _fifo_match.  A queue gives the lots of each buy that no sell has taken *)
(* yet, and drops a buy that has none left.                                *)
(***************************************************************************)
Queue(paper) == [b \in Filled("buy", paper) |-> fills[b].lots]

\* The buys of the queue that a sell meets before it meets b.
NewestAhead(queue, b) == {c \in DOMAIN queue : c > b}
Ahead(queue, b) == {c \in DOMAIN queue : c < b}

\* What a sell of so many lots takes of each buy of the queue.
Taken(queue, lots) ==
    [b \in DOMAIN queue |->
        LET before == SumFunctionOnSet(queue, Ahead(queue, b))
        IN  IF lots <= before THEN 0 ELSE Lesser(queue[b], lots - before)]

Trip(buy, sell, lots) ==
    [buy |-> buy, sell |-> sell, lots |-> lots,
     contribution |-> (fills[sell].price - fills[buy].price) * lots]

MatchSell(m, sell) ==
    LET taken == Taken(m.queue, fills[sell].lots)
        left  == {b \in DOMAIN m.queue : m.queue[b] > taken[b]}
    IN  [queue |-> [b \in left |-> m.queue[b] - taken[b]],
         trips |-> m.trips \cup {Trip(b, sell, taken[b]) :
                                    b \in {c \in DOMAIN m.queue : taken[c] > 0}}]

\* The sells are matched in the order they filled in.
MatchFill(m, id, paper) ==
    IF InScope(id, paper) /\ fills[id].side = "sell" THEN MatchSell(m, id) ELSE m
Matched(paper) ==
    FoldLeft(LAMBDA m, id : MatchFill(m, id, paper),
             [queue |-> Queue(paper), trips |-> {}], [id \in 1..Len(fills) |-> id])

ProfitOf(trips) == SumFunction([t \in trips |-> t.contribution])

\* get_pnl_snapshot.
Snapshot(paper) ==
    LET m == Matched(paper)
    IN  [fillCount |-> Cardinality(Filled("buy", paper) \cup Filled("sell", paper)),
         realized  |-> ProfitOf(m.trips),
         trips     |-> Cardinality(m.trips),
         wins      |-> Cardinality({t \in m.trips : t.contribution > 0}),
         unmatched |-> Cardinality(DOMAIN m.queue)]

\* _compute_window_metrics: the fills from start up to, not including, end, in
\* the scope of the cycle's own time; the sells are matched over all fills.
ClosedWindow(start, end) == start..end
Window(start, end) == start..(end - 1)
WindowMetrics(start, end) ==
    LET paper == Paper /\ start >= since
        ids   == {id \in Window(start, end) \cap DOMAIN fills : InScope(id, paper)}
    IN  [fillCount |-> Cardinality(ids),
         realized  |-> ProfitOf({t \in Matched(paper).trips : t.sell \in ids})]

-----------------------------------------------------------------------------
PnlInit == fills = <<>> /\ since = 0

\* simulate_fills, or reconcile_live_fills_from_kraken: an order filled.
OrderFilled ==
    /\ Len(fills) < MaxFills
    /\ \E side \in {"buy", "sell"}, lots \in 1..MaxLots, price \in 1..MaxPrice :
          fills' = Append(fills, [side |-> side, lots |-> lots, price |-> price,
                                  paper |-> since # 0])
    /\ UNCHANGED since

\* The operator resets the book for a paper run, or blanks the key to go live.
PaperRun == since = 0 /\ since' = Len(fills) + 1 /\ UNCHANGED fills
LiveAgain == since # 0 /\ Len(fills) < MaxFills /\ since' = 0 /\ UNCHANGED fills

PnlNext == OrderFilled \/ PaperRun \/ LiveAgain

PnlSpec == PnlInit /\ [][PnlNext]_pnlVars

-----------------------------------------------------------------------------
\* While a run lasts, no later fill rewrites a round trip that was reported:
\* what the council was shown as realised stays realised.
TripsOnlyGrow ==
    [][since' = since => Matched(Paper).trips \subseteq Matched(Paper)'.trips]_pnlVars

\* The outcomes recorded for the back-to-back windows of a run add up to what
\* the snapshot of that run reports, wherever one window ends and the next
\* begins (_compute_window_metrics against get_pnl_snapshot).
WindowsAddUp ==
    LET first == IF Paper THEN since ELSE 1
        last  == Len(fills) + 1
        s     == Snapshot(Paper)
    IN  \A cut \in first..last :
          LET a == WindowMetrics(first, cut)
              b == WindowMetrics(cut, last)
          IN  /\ a.realized + b.realized = s.realized
              /\ a.fillCount + b.fillCount = s.fillCount

\* What the council, the dashboard and the outcomes are told was realised: it
\* stays, and it is the same sum in all of them.
RealizedStands == TripsOnlyGrow /\ []WindowsAddUp
=============================================================================

------------------------------ MODULE LiveBook ------------------------------
(***************************************************************************)
(* The live order book: what grid/engine.py and grid/exchanges/kraken.py   *)
(* believe about the orders resting on Kraken, and what Kraken holds.      *)
(*                                                                         *)
(* A cycler is a thread that runs a council cycle (the main loop, or the   *)
(* thread that answers POST /internal/trigger_magi: no lock keeps them     *)
(* apart); the observer is the fill reconciliation.  Each exchange call    *)
(* is a step of its own and may fail, or fail after it took effect.        *)
(* Prices and sizes are left out: inventory is only known to be true,      *)
(* stale (a trade happened since) or zero (a failed Balance call).         *)
(*                                                                         *)
(* FinalizeFirst, KeepBook, NoSync and SkipCancelled are faulty variants   *)
(* of the definition after them, for the mutant runs.                      *)
(***************************************************************************)
EXTENDS Integers, FiniteSets

CONSTANTS
    Buys, Sells,  \* txids the exchange gives out, per side, in increasing order
    Cyclers,      \* threads that may be in a council cycle at the same time
    Resumed,      \* orders an earlier process left resting
    Arms,         \* bound: arms of one ladder
    Restarts      \* bound: restarts of the process

Orders == Buys \cup Sells
NoOrder == 0
None == "none"
Observer == "observer"

ASSUME LiveAssumption ==
    /\ Buys \subseteq Nat /\ Sells \subseteq Nat
    /\ Buys \cap Sells = {}
    /\ IsFiniteSet(Orders) /\ Resumed \subseteq Orders
    /\ Observer \notin Cyclers
    /\ Arms \in Nat /\ Restarts \in Nat

VARIABLES
    ex,       \* Kraken's state of each order
    aged,     \* orders closed longer ago than the hour ClosedOrders looks back
    row,      \* grid_orders.status of each order
    book,     \* orders with status "open" in the engine's paper_orders
    funds,    \* paper_inventory against the balances: "true", "stale", "zero"
    pc,       \* where each cycler is
    plan,     \* what the cancellation is for: "rebuild", "halt" or "stop"
    listed,   \* the orders OpenOrders answered
    todo,     \* orders a cancellation or a pause has yet to mark
    anchor,   \* the txid of the market order, or NoOrder
    built,    \* the arms of the running rebuild
    bal,      \* a Balance answer not yet assigned
    look,     \* where the observer is
    mine,     \* reconcile's our_open
    news,     \* reconcile: closed orders still to be marked
    gotFill,  \* reconcile: one of them was a fill
    doubts,   \* history: open orders whose last call did not confirm the record
    restarts

exchange == <<ex, aged>>
engine   == <<row, book, funds>>
cycle    == <<pc, plan, listed, todo, anchor, built>>
observer == <<look, mine, news, gotFill>>
vars == <<exchange, engine, cycle, bal, observer, doubts, restarts>>

Open == {o \in Orders : ex[o] = "open"}
Closed(o) == ex[o] \in {"filled", "cancelled"}
Least(S) == CHOOSE o \in S : \A p \in S : o <= p
NewOrders == {Least(S) : S \in {T \in {{o \in side : ex[o] = "none"} :
                                          side \in {Buys, Sells}} : T # {}}}
Side(o) == IF o \in Buys THEN Buys ELSE Sells

\* A trade makes every balance known so far stale.
Staled(b) == IF b = "true" THEN "stale" ELSE b
Traded == /\ funds' = Staled(funds)
          /\ bal' = [t \in DOMAIN bal |-> Staled(bal[t])]

\* update_inventory: get_balances swallows its error and answers (0, 0); the
\* answer is assigned in a later step.
Balances == {"true", "zero"}
Take(t) == funds' = bal[t] /\ bal' = [bal EXCEPT ![t] = None]

Init ==
    /\ ex = [o \in Orders |-> IF o \in Resumed THEN "open" ELSE "none"]
    /\ aged = {}
    /\ row = ex
    /\ book = Resumed
    /\ funds = "true"
    /\ pc = [t \in Cyclers |-> "idle"]
    /\ plan = [t \in Cyclers |-> "halt"]
    /\ listed = [t \in Cyclers |-> {}]
    /\ todo = [t \in Cyclers |-> {}]
    /\ anchor = [t \in Cyclers |-> NoOrder]
    /\ built = [t \in Cyclers |-> {}]
    /\ bal = [t \in Cyclers \cup {Observer} |-> None]
    /\ look = "idle"
    /\ mine = {}
    /\ news = {}
    /\ gotFill = FALSE
    /\ doubts = {}
    /\ restarts = 0

-----------------------------------------------------------------------------
(* Kraken *)

Fill(o) ==
    /\ ex[o] = "open"
    /\ ex' = [ex EXCEPT ![o] = "filled"]
    /\ Traded
    /\ doubts' = doubts \ {o}
    /\ UNCHANGED <<aged, row, book, cycle, observer, restarts>>

\* Cancelled or expired by the exchange.
Expire(o) ==
    /\ ex[o] = "open"
    /\ ex' = [ex EXCEPT ![o] = "cancelled"]
    /\ doubts' = doubts \ {o}
    /\ UNCHANGED <<aged, engine, cycle, bal, observer, restarts>>

\* An hour passes; it matters where the row still says open.
Age(o) ==
    /\ Closed(o) /\ row[o] = "open" /\ o \notin aged
    /\ aged' = aged \cup {o}
    /\ UNCHANGED <<ex, engine, cycle, bal, observer, doubts, restarts>>

-----------------------------------------------------------------------------
(* cancel_all_orders: OpenOrders, CancelOrderBatch, then the local record. *)

Goto(t, where) == pc' = [pc EXCEPT ![t] = where]
StartMarking(t) == Goto(t, "marking") /\ todo' = [todo EXCEPT ![t] = book]

\* A rebuild goes on to its anchor and a HALT to the end of the cycle; a
\* guardrail stop cancels and returns, so its cycle syncs no inventory.
Onward == [rebuild |-> "anchor", halt |-> "sync", stop |-> "idle"]

FinalizeFirst(t, p) ==
    /\ pc[t] = "idle"
    /\ plan' = [plan EXCEPT ![t] = p]
    /\ Goto(t, "listed") /\ listed' = [listed EXCEPT ![t] = Open]
    /\ row' = [o \in Orders |-> IF o \in book THEN "cancelled" ELSE row[o]]
    /\ book' = {}
    /\ UNCHANGED <<exchange, funds, todo, anchor, built, bal, observer, doubts, restarts>>

\* The first call of initialise_grid, a HALT or a guardrail stop; what it
\* raises is swallowed and 0 returned, so the local record is synced anyway.
CancelAll(t, p) ==
    /\ pc[t] = "idle"
    /\ plan' = [plan EXCEPT ![t] = p]
    /\ \/ /\ Goto(t, "listed")
          /\ listed' = [listed EXCEPT ![t] = Open]
          /\ UNCHANGED <<todo, doubts>>
       \/ /\ StartMarking(t)
          /\ doubts' = doubts \cup Open
          /\ UNCHANGED listed
    /\ UNCHANGED <<exchange, engine, anchor, built, bal, observer, restarts>>

\* The exchange cancels some of a batch; nobody reads how many.
Cancelled(batch, done) ==
    /\ done \subseteq batch \cap Open
    /\ ex' = [o \in Orders |-> IF o \in done THEN "cancelled" ELSE ex[o]]
    /\ doubts' = (doubts \ batch) \cup ((batch \cap Open) \ done)

SendCancel(t) ==
    /\ pc[t] = "listed"
    /\ \E done \in SUBSET listed[t] : Cancelled(listed[t], done)
    /\ listed' = [listed EXCEPT ![t] = {}]
    /\ StartMarking(t)
    /\ UNCHANGED <<aged, engine, plan, anchor, built, bal, observer, restarts>>

MarkCancelled(t) ==
    /\ pc[t] = "marking" /\ todo[t] # {}
    /\ LET o == Least(todo[t])
       IN  /\ row' = IF o \in book THEN [row EXCEPT ![o] = "cancelled"] ELSE row
           /\ todo' = [todo EXCEPT ![t] = @ \ {o}]
    /\ UNCHANGED <<exchange, book, funds, pc, plan, listed, anchor, built, bal,
                   observer, doubts, restarts>>

KeepBook(t) ==
    /\ pc[t] = "marking" /\ todo[t] = {}
    /\ Goto(t, Onward[plan[t]])
    /\ plan' = [plan EXCEPT ![t] = "halt"]
    /\ UNCHANGED <<exchange, engine, listed, todo, anchor, built, bal, observer,
                   doubts, restarts>>

ClearBook(t) ==
    /\ pc[t] = "marking" /\ todo[t] = {}
    /\ book' = {}
    /\ Goto(t, Onward[plan[t]])
    /\ plan' = [plan EXCEPT ![t] = "halt"]
    /\ UNCHANGED <<exchange, row, funds, listed, todo, anchor, built, bal, observer,
                   doubts, restarts>>

-----------------------------------------------------------------------------
(* PAUSE_LONGS and PAUSE_SHORTS: the local record first, then the exchange. *)

Pausings == {"pauseBuys", "pauseSells"}

Pause(t, side) ==
    /\ pc[t] = "idle"
    /\ todo' = [todo EXCEPT ![t] = book \cap side]
    /\ Goto(t, IF side = Buys THEN "pauseBuys" ELSE "pauseSells")
    /\ UNCHANGED <<exchange, engine, plan, listed, anchor, built, bal,
                   observer, doubts, restarts>>

\* Order by order: one that is still open in the book is committed as
\* cancelled and leaves it, before the exchange has heard of it.
MarkPaused(t) ==
    /\ pc[t] \in Pausings /\ todo[t] # {}
    /\ LET o == Least(todo[t])
       IN  /\ row' = IF o \in book THEN [row EXCEPT ![o] = "cancelled"] ELSE row
           /\ book' = book \ {o}
           /\ doubts' = doubts \cup ({o} \cap Open)
           /\ todo' = [todo EXCEPT ![t] = @ \ {o}]
    /\ UNCHANGED <<exchange, funds, pc, plan, listed, anchor, built, bal,
                   observer, restarts>>

\* cancel_orders_by_side; its failure is logged and the cycle goes on.
SendPause(t) ==
    /\ pc[t] \in Pausings /\ todo[t] = {}
    /\ LET side == IF pc[t] = "pauseBuys" THEN Buys ELSE Sells
       IN  \E done \in SUBSET (Open \cap side) : Cancelled(side, done)
    /\ Goto(t, "sync")
    /\ UNCHANGED <<aged, engine, plan, listed, todo, anchor, built, bal, observer, restarts>>

-----------------------------------------------------------------------------
(* _execute_anchor *)

\* An empty inventory, no affordable size, or AddOrder refused: no arms follow.
AnchorRefused(t) ==
    /\ pc[t] = "anchor"
    /\ Goto(t, "sync")
    /\ UNCHANGED <<exchange, engine, plan, listed, todo, anchor, built, bal,
                   observer, doubts, restarts>>

\* AddOrder raised (a timeout), yet the market order was taken.
AnchorUnheard(t) ==
    /\ pc[t] = "anchor" /\ funds # "zero"
    /\ \E o \in NewOrders : ex' = [ex EXCEPT ![o] = "filled"]
    /\ Traded
    /\ Goto(t, "sync")
    /\ UNCHANGED <<aged, row, book, plan, listed, todo, anchor, built, observer,
                   doubts, restarts>>

AnchorSent(t) ==
    /\ pc[t] = "anchor" /\ funds # "zero"
    /\ \E o \in NewOrders :
          /\ ex' = [ex EXCEPT ![o] = "open"]
          /\ anchor' = [anchor EXCEPT ![t] = o]
          /\ doubts' = doubts \cup {o}
    /\ Goto(t, "polling")
    /\ UNCHANGED <<aged, engine, plan, listed, todo, built, bal, observer, restarts>>

\* QueryOrders answers a terminal status; a fill is recorded and the balances
\* are fetched (update_inventory).
AnchorAnswered(t) ==
    /\ pc[t] = "polling" /\ Closed(anchor[t])
    /\ anchor' = [anchor EXCEPT ![t] = NoOrder]
    /\ \/ /\ ex[anchor[t]] = "filled"
          /\ row' = [row EXCEPT ![anchor[t]] = "filled"]
          /\ \E b \in Balances : bal' = [bal EXCEPT ![t] = b]
          /\ Goto(t, "anchored")
       \/ /\ ex[anchor[t]] = "cancelled"
          /\ Goto(t, "sync")
          /\ UNCHANGED <<row, bal>>
    /\ UNCHANGED <<exchange, book, funds, plan, listed, todo, built, observer, doubts,
                   restarts>>

\* Thirty seconds without a terminal status: the order is left on its own.
AnchorTimeout(t) ==
    /\ pc[t] = "polling"
    /\ anchor' = [anchor EXCEPT ![t] = NoOrder]
    /\ Goto(t, "sync")
    /\ UNCHANGED <<exchange, engine, plan, listed, todo, built, bal, observer,
                   doubts, restarts>>

AssignAnchored(t) ==
    /\ pc[t] = "anchored"
    /\ Take(t)
    /\ Goto(t, "ladder")
    /\ UNCHANGED <<exchange, row, book, plan, listed, todo, anchor, built, observer,
                   doubts, restarts>>

-----------------------------------------------------------------------------
(* The arms of initialise_grid, one place_order each. *)

MorePlaces(t) ==
    pc[t] = "ladder" /\ funds # "zero" /\ Cardinality(built[t]) < Arms

PlaceArm(t) ==
    /\ MorePlaces(t)
    /\ \E o \in NewOrders :
          /\ ex' = [ex EXCEPT ![o] = "open"]
          /\ row' = [row EXCEPT ![o] = "open"]
          /\ book' = book \cup {o}
          /\ built' = [built EXCEPT ![t] = @ \cup {o}]
    /\ UNCHANGED <<aged, funds, pc, plan, listed, todo, anchor, bal, observer,
                   doubts, restarts>>

\* The answer is lost, or the process dies before the row is written: the
\* call counts as failed, the order rests.  (A refused arm changes nothing.)
PlaceUnheard(t) ==
    /\ MorePlaces(t)
    /\ \E o \in NewOrders :
          /\ ex' = [ex EXCEPT ![o] = "open"]
          /\ doubts' = doubts \cup {o}
    /\ UNCHANGED <<aged, engine, cycle, bal, observer, restarts>>

LadderDone(t) ==
    /\ pc[t] = "ladder"
    /\ Goto(t, "sync")
    /\ built' = [built EXCEPT ![t] = {}]
    /\ UNCHANGED <<exchange, engine, plan, listed, todo, anchor, bal,
                   observer, doubts, restarts>>

\* A MAINTAIN: the cycle touches no order.
Maintain(t) ==
    /\ pc[t] = "idle"
    /\ Goto(t, "sync")
    /\ UNCHANGED <<exchange, engine, plan, listed, todo, anchor, built, bal,
                   observer, doubts, restarts>>

NoSync(t) ==
    /\ pc[t] = "sync"
    /\ Goto(t, "idle")
    /\ UNCHANGED <<exchange, engine, plan, listed, todo, anchor, built, bal,
                   observer, doubts, restarts>>

\* run_magi_cycle ends with update_inventory, if there is a price.
SyncFetch(t) ==
    /\ pc[t] = "sync"
    /\ \/ /\ \E b \in Balances : bal' = [bal EXCEPT ![t] = b]
          /\ Goto(t, "syncing")
       \/ Goto(t, "idle") /\ UNCHANGED bal
    /\ UNCHANGED <<exchange, engine, plan, listed, todo, anchor, built, observer,
                   doubts, restarts>>

SyncAssign(t) ==
    /\ pc[t] = "syncing"
    /\ Take(t)
    /\ Goto(t, "idle")
    /\ UNCHANGED <<exchange, row, book, plan, listed, todo, anchor, built, observer,
                   doubts, restarts>>

-----------------------------------------------------------------------------
(* reconcile_live_fills_from_kraken *)

ReadBook ==
    /\ look = "idle" /\ book # {}
    /\ mine' = book
    /\ look' = "asking"
    /\ UNCHANGED <<exchange, engine, cycle, bal, news, gotFill, doubts, restarts>>

AskClosed ==
    /\ look = "asking"
    /\ news' = {o \in mine : Closed(o) /\ o \notin aged}
    /\ look' = "settling"
    /\ mine' = {}
    /\ UNCHANGED <<exchange, engine, cycle, bal, gotFill, doubts, restarts>>

AskFailed ==
    /\ look = "asking"
    /\ mine' = {}
    /\ look' = "idle"
    /\ UNCHANGED <<exchange, engine, cycle, bal, news, gotFill, doubts, restarts>>

SkipCancelled ==
    /\ look = "settling" /\ news # {}
    /\ LET o == Least(news)
       IN  /\ book' = IF ex[o] = "filled" THEN book \ {o} ELSE book
           /\ row' = IF ex[o] = "filled" THEN [row EXCEPT ![o] = "filled"] ELSE row
           /\ news' = news \ {o}
           /\ gotFill' = (gotFill \/ ex[o] = "filled")
    /\ UNCHANGED <<exchange, funds, cycle, bal, look, mine, doubts, restarts>>

\* The snapshot is not looked at again: a row the cancellation has marked in
\* the meantime is written once more.
SettleOrder ==
    /\ look = "settling" /\ news # {}
    /\ LET o == Least(news)
       IN  /\ book' = book \ {o}
           /\ row' = [row EXCEPT ![o] = ex[o]]
           /\ news' = news \ {o}
           /\ gotFill' = (gotFill \/ ex[o] = "filled")
    /\ UNCHANGED <<exchange, funds, cycle, bal, look, mine, doubts, restarts>>

\* After a fill the balances are fetched, unless there is no price.
Settled ==
    /\ look = "settling" /\ news = {}
    /\ gotFill' = FALSE
    /\ \/ /\ gotFill
          /\ \E b \in Balances : bal' = [bal EXCEPT ![Observer] = b]
          /\ look' = "counting"
       \/ look' = "idle" /\ UNCHANGED bal
    /\ UNCHANGED <<exchange, engine, cycle, mine, news, doubts, restarts>>

CountFunds ==
    /\ look = "counting"
    /\ Take(Observer)
    /\ look' = "idle"
    /\ UNCHANGED <<exchange, row, book, cycle, mine, news, gotFill, doubts, restarts>>

-----------------------------------------------------------------------------

\* A restart: the book is what the table calls open (load_state).
Restart ==
    /\ restarts < Restarts
    /\ restarts' = restarts + 1
    /\ book' = {o \in Orders : row[o] = "open"}
    /\ pc' = [t \in Cyclers |-> "idle"]
    /\ plan' = [t \in Cyclers |-> "halt"]
    /\ listed' = [t \in Cyclers |-> {}]
    /\ todo' = [t \in Cyclers |-> {}]
    /\ anchor' = [t \in Cyclers |-> NoOrder]
    /\ built' = [t \in Cyclers |-> {}]
    /\ bal' = [t \in DOMAIN bal |-> None]
    /\ look' = "idle" /\ mine' = {} /\ news' = {} /\ gotFill' = FALSE
    /\ UNCHANGED <<exchange, row, funds, doubts>>

Kraken == \E o \in Orders : Fill(o) \/ Expire(o) \/ Age(o)

Cancelling(t) ==
    \/ \E p \in DOMAIN Onward : CancelAll(t, p)
    \/ SendCancel(t) \/ MarkCancelled(t) \/ ClearBook(t)

Pausing(t) ==
    \/ \E side \in {Buys, Sells} : Pause(t, side)
    \/ MarkPaused(t) \/ SendPause(t)

Anchoring(t) ==
    \/ AnchorRefused(t) \/ AnchorUnheard(t) \/ AnchorSent(t)
    \/ AnchorAnswered(t) \/ AnchorTimeout(t) \/ AssignAnchored(t)

Laddering(t) == PlaceArm(t) \/ PlaceUnheard(t) \/ LadderDone(t)

Syncing(t) == Maintain(t) \/ SyncFetch(t) \/ SyncAssign(t)

Cycle(t) ==
    Cancelling(t) \/ Pausing(t) \/ Anchoring(t) \/ Laddering(t) \/ Syncing(t)

Observing ==
    ReadBook \/ AskClosed \/ AskFailed \/ SettleOrder \/ Settled \/ CountFunds

Next ==
    \/ Kraken
    \/ \E t \in Cyclers : Cycle(t)
    \/ Observing
    \/ Restart

Spec == Init /\ [][Next]_vars

\* The threads run, cycles keep coming (the daily floor sees to that), and a
\* call that is repeated for ever does not fail for ever.
LiveSpec ==
    /\ Spec
    /\ WF_vars(Observing)
    /\ SF_vars(AskClosed)
    /\ \A t \in Cyclers :
          /\ WF_vars(Cycle(t))
          /\ SF_vars(SyncFetch(t) /\ bal'[t] = "true" /\ pc'[t] = "syncing")

-----------------------------------------------------------------------------
(* Properties *)

TypeOK ==
    /\ ex \in [Orders -> {"none", "open", "filled", "cancelled"}]
    /\ aged \subseteq Orders
    /\ row \in [Orders -> {"none", "open", "filled", "cancelled"}]
    /\ book \subseteq Orders
    /\ funds \in {"true", "stale", "zero"}
    /\ pc \in [Cyclers -> {"idle", "listed", "marking", "pauseBuys", "pauseSells",
                           "anchor", "polling", "anchored", "ladder", "sync", "syncing"}]
    /\ plan \in [Cyclers -> DOMAIN Onward]
    /\ listed \in [Cyclers -> SUBSET Orders]
    /\ todo \in [Cyclers -> SUBSET Orders]
    /\ anchor \in [Cyclers -> Orders \cup {NoOrder}]
    /\ built \in [Cyclers -> SUBSET Orders]
    /\ bal \in [Cyclers \cup {Observer} -> {None, "true", "stale", "zero"}]
    /\ look \in {"idle", "asking", "settling", "counting"}
    /\ mine \subseteq Orders /\ news \subseteq Orders
    /\ gotFill \in BOOLEAN
    /\ doubts \subseteq Orders
    /\ restarts \in 0..Restarts

\* An order that rests on Kraken is in the engine's book, unless a call about
\* it was lost, fell short, timed out or was cut by a restart.
NoSilentOrphan == \A o \in Open : o \in book \/ o \in doubts

\* ONE GRID: while a rebuild places its arms, every order of the book is one
\* of them (_assert_one_grid_invariant after initialise_grid).
OneGrid == \A t \in Cyclers : pc[t] = "ladder" => book \subseteq built[t]

\* An order closed on Kraken does not stay open in grid_orders while it is
\* within the hour the reconciliation looks back.
FillSettles ==
    \A o \in Orders :
        (row[o] = "open" /\ Closed(o)) ~> (row[o] # "open" \/ o \in aged)

\* After trades and failed Balance calls the engine's inventory is true again,
\* unless from some time on no cycle reaches its end: a guardrail stop and a
\* restart sync nothing (run_magi_cycle returns before update_inventory).
InventoryRecovers ==
    []<>(\E t \in Cyclers : pc[t] = "sync")
        => ((funds # "true") ~> (funds = "true"))

=============================================================================

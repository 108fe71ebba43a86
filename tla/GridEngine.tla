----------------------------- MODULE GridEngine -----------------------------
(***************************************************************************)
(* The paper-mode grid engine under its scheduler: grid/engine.py driven   *)
(* by run_observer_cycle, run_magi_cycle and the startup of scheduler.py.  *)
(* One thread runs the handlers; each action is one persisted write of a   *)
(* handler, so that the process may crash between any two of them.         *)
(*                                                                         *)
(* Memory: the book of open orders, the inventory and the level count.     *)
(* Database: the open rows of grid_orders, the latest inventory snapshot,  *)
(* the latest grid_state row, and the down-walk keys of system_state.      *)
(* Every read of the market is a fresh choice of a price: it may move      *)
(* between any two reads.                                                  *)
(*                                                                         *)
(* SnapshotOfXrp, PayableSells, SomeCancelled, PlannedBothSides and        *)
(* CancelPausedInMemory are faulty variants of the definition after them,  *)
(* for the mutant runs.                                                    *)
(***************************************************************************)
EXTENDS GridMath, HardRules, FiniteSets

CONSTANTS
    Prices,         \* what the market may quote, and centre a grid
    Geometries,     \* [spacing, levels, bias] a decision or the scorer may bring
    DefaultLevels,  \* GRID_LEVELS_DEFAULT
    DefaultUsd,     \* the cash of a fresh paper inventory
    TakerFee,       \* fee of an anchor, in ticks
    CapStreak,      \* DOWN_WALK_CAP_STREAK
    Account,        \* the Kraken balances a reset may find
    Choices,        \* the decisions the council may bring, a subset of AllChoices
    Copies,         \* bound: orders of one side resting at one price
    Builds,         \* names to tell one rebuild from the next, for a ghost
    MaxXrp, MaxUsd, \* bound: no handler that trades starts above them,
    MaxStreak       \* nor above this persisted streak

NoGeometry == [spacing |-> 0, levels |-> 0, bias |-> 100]

ASSUME PricesAssumption   == Prices \subseteq Nat \ {0} /\ Prices # {}
ASSUME GeometryAssumption ==
    Geometries \subseteq [spacing : Nat \ {0}, levels : Nat \ {0}, bias : Nat]
ASSUME DefaultsAssumption == /\ DefaultLevels \in Nat \ {0} /\ DefaultUsd \in Nat
                             /\ TakerFee \in Nat /\ \A p \in Prices : TakerFee <= p
                             /\ CapStreak \in Nat \ {0}
                             /\ Account \in [xrp : Nat, usd : Nat]
ASSUME BoundsAssumption   == /\ Copies \subseteq Nat /\ MaxXrp \in Nat /\ MaxUsd \in Nat
                             /\ MaxStreak \in Nat

\* A decision of the council as the engine gets it.
AllChoices == [grid : GridActions, risk : RiskActions,
               geometry : Geometries \cup {NoGeometry}]
ASSUME ChoicesAssumption == Choices \subseteq AllChoices

\* An order's place in the book; its copy tells it from its equals.
Sides  == {"buy", "sell"}
Order  == [side : Sides, price : Int, copy : Copies, build : Builds]
Arm    == [side : Sides, price : Int]
Orders(side, os) == {o \in os : o.side = side}

Default == [xrp |-> 0, usd |-> DefaultUsd]
NoSnap  == [xrp |-> 0, usd |-> 0, taken |-> FALSE]
NoGrid  == [centre |-> 0, spacing |-> 0, levels |-> 0, longs |-> FALSE,
            shorts |-> FALSE, exists |-> FALSE]
NoWalk  == [streak |-> 0, centre |-> 0, linked |-> FALSE, dated |-> FALSE]
NoChoice == [grid |-> "MAINTAIN", risk |-> "CLEAR", geometry |-> NoGeometry]

VARIABLES
    book, inv, levels,          \* memory
    rows, snap, grid, walk,     \* database
    pc,                         \* where the handler stands
    job,                        \* its locals
    todo, filled,               \* what is left of a loop, and the fills found
    build,                      \* ghost: the rebuild that new orders belong to
    rebased                     \* ghost: the book outlived an inventory that
                                \* load_state has thrown away

memory   == <<book, inv, levels>>
database == <<rows, snap, grid, walk>>
control  == <<pc, job, todo, filled>>
ghosts   == <<build, rebased>>
vars     == <<memory, database, control, ghosts>>

\* The locals of a handler: where it continues after a rebuild or a
\* cancellation, the decision it applies, the prices it read, and the rebuild.
NoJob == [next |-> "idle", choice |-> NoChoice, price |-> 0, market |-> 0,
          spacing |-> 0, bias |-> 100, capped |-> FALSE, streak |-> 0]

GridRow(centre, spacing, n, longs, shorts) ==
    [centre |-> centre, spacing |-> spacing, levels |-> n, longs |-> longs,
     shorts |-> shorts, exists |-> TRUE]
SnapshotOfXrp(i) == [xrp |-> i.xrp, usd |-> snap.usd, taken |-> TRUE]
Snapshot(i) == [xrp |-> i.xrp, usd |-> i.usd, taken |-> TRUE]

WithinBounds == inv.xrp <= MaxXrp /\ inv.usd <= MaxUsd /\ walk.streak <= MaxStreak

\* The handler goes on at pc value p, with the decision if it is still applying it.
GoTo(p) == /\ pc' = p
           /\ job' = IF p \in {"applying", "risk"}
                     THEN [NoJob EXCEPT !.choice = job.choice] ELSE NoJob
           /\ todo' = {} /\ filled' = {}

-----------------------------------------------------------------------------
(***************************************************************************)
(* place_order: refused on the wrong side of the market, else resting in   *)
(* memory and in the database.  A market that cannot be read refuses       *)
(* nothing, and neither does the concentration cap at |skew| > 0.90: the   *)
(* skew it reads is kept within 0.5 by compute_portfolio_metrics.          *)
(***************************************************************************)
NoPrice == 0
Quotes  == Prices \cup {NoPrice}
Refused(side, price, market) ==
    /\ market # NoPrice
    /\ IF side = "buy" THEN price > market ELSE price < market

FreeCopies(side, price) ==
    {n \in Copies : \A o \in rows : <<o.side, o.price, o.copy>> # <<side, price, n>>}
NewOrder(side, price) ==
    [side |-> side, price |-> price, build |-> build,
     copy |-> CHOOSE n \in FreeCopies(side, price) : TRUE]
PlaceOrder(side, price) ==
    \E market \in Quotes :
        IF Refused(side, price, market)
        THEN UNCHANGED <<book, rows>>
        ELSE /\ FreeCopies(side, price) # {}
             /\ rows' = rows \cup {NewOrder(side, price)}
             /\ book' = book \cup {NewOrder(side, price)}

-----------------------------------------------------------------------------
(***************************************************************************)
(* The observer cycle: simulate_fills, update_inventory, replacements.     *)
(***************************************************************************)
Hit(o, low, high) == \/ o.side = "buy"  /\ low <= o.price
                     \/ o.side = "sell" /\ high >= o.price

\* The last candle of an hour may be older than the price.  A fill at startup ends
\* it: the process keeps filled orders in its dictionary, so that the boot guard
\* takes the book for a restored one.
ObserverTick ==
    /\ pc \in {"idle", "booted"} /\ WithinBounds
    /\ \E price, low, high \in Prices :
          /\ low <= high
          /\ todo' = {o \in book : Hit(o, low, high)}
          /\ job' = [NoJob EXCEPT !.price = price]
    /\ todo' # {}
    /\ pc' = "filling" /\ filled' = {}
    /\ UNCHANGED <<memory, database, ghosts>>

\* An order the inventory cannot pay for stays open.
PayableSells(o) == o.side = "sell" => inv.xrp >= 1
Payable(o) == IF o.side = "buy" THEN inv.usd >= o.price ELSE inv.xrp >= 1
FillOne ==
    /\ pc = "filling"
    /\ \E o \in todo :
          /\ todo' = todo \ {o}
          /\ IF ~Payable(o)
             THEN UNCHANGED <<book, rows, inv, filled>>
             ELSE /\ book' = book \ {o}
                  /\ rows' = rows \ {o}
                  /\ filled' = filled \cup {o}
                  /\ inv' = IF o.side = "buy"
                            THEN [xrp |-> inv.xrp + 1, usd |-> inv.usd - o.price]
                            ELSE [xrp |-> inv.xrp - 1, usd |-> inv.usd + o.price]
    /\ UNCHANGED <<levels, snap, grid, walk, pc, job, ghosts>>

\* The snapshot after the fills; then the market is read once for all of the
\* replacements, which need a price and a spacing.
PersistFills ==
    /\ pc = "filling" /\ todo = {}
    /\ IF filled = {}
       THEN GoTo(job.next) /\ UNCHANGED snap
       ELSE /\ snap' = Snapshot(inv)
            /\ \/ GoTo(job.next)
               \/ /\ grid.spacing > 0
                  /\ \E market \in Prices : job' = [job EXCEPT !.market = market]
                  /\ pc' = "replacing"
                  /\ UNCHANGED <<todo, filled>>
    /\ UNCHANGED <<memory, rows, grid, walk, ghosts>>

\* A fill is answered on the other side, one spacing from the market, unless the
\* market has drifted more than two spacings since.
ReplacementSide(o)     == IF o.side = "sell" THEN "buy" ELSE "sell"
ReplacementPrice(o, j) == IF o.side = "sell" THEN j.market - grid.spacing
                          ELSE j.market + grid.spacing
ReplaceOne ==
    /\ pc = "replacing"
    /\ \E o \in filled :
          /\ filled' = filled \ {o}
          /\ IF Abs(job.market - job.price) > 2 * grid.spacing
             THEN UNCHANGED <<book, rows>>
             ELSE PlaceOrder(ReplacementSide(o), ReplacementPrice(o, job))
    /\ UNCHANGED <<inv, levels, snap, grid, walk, pc, job, todo, ghosts>>

ReplacedAll == /\ pc = "replacing" /\ filled = {}
               /\ GoTo(job.next)
               /\ UNCHANGED <<memory, database, ghosts>>
-----------------------------------------------------------------------------
(***************************************************************************)
(* cancel_all_orders: the rows one by one, then the book at once.          *)
(***************************************************************************)
CancelRow ==
    /\ pc = "cancelling"
    /\ \E o \in rows : rows' = rows \ {o}
    /\ UNCHANGED <<memory, snap, grid, walk, control, ghosts>>

SomeCancelled == book # rows \/ rows = {}
AllCancelled == rows = {}

\* What follows is a new grid, the row of a GRID_PAUSE, or the end.
CancelDone ==
    /\ pc = "cancelling" /\ AllCancelled
    /\ book' = {}
    /\ rebased' = FALSE
    /\ IF job.spacing > 0
       THEN /\ pc' = "anchoring"
            /\ build' \in Builds \ {build}
            /\ UNCHANGED <<job, todo, filled>>
       ELSE GoTo(job.next) /\ UNCHANGED build
    /\ UNCHANGED <<inv, levels, database>>

CancelAll(next) == /\ pc' = "cancelling"
                   /\ job' = [NoJob EXCEPT !.next = next]
                   /\ todo' = {} /\ filled' = {}

(***************************************************************************)
(* initialise_grid.  The exposure cap is assessed at the spot before the   *)
(* book is touched, and a capped rebuild needs two rungs: one for its      *)
(* anchor, one for a resting sell.                                         *)
(***************************************************************************)
BeginRebuild(j, spacing, bias, next) ==
    \E spot \in Prices :
        LET streak == DownWalkAssess(walk, spot)
            capped == streak >= CapStreak
        IN  IF capped /\ inv.xrp < 2
            THEN GoTo(next)
            ELSE /\ pc' = "cancelling"
                 /\ job' = [j EXCEPT !.next = next, !.price = spot,
                                     !.spacing = spacing, !.bias = bias,
                                     !.capped = capped, !.streak = streak]
                 /\ todo' = {} /\ filled' = {}

\* The anchor trades one rung at the spot: its row is inserted open, ...
AnchorOf(j) == AnchorSide(j.price, inv.xrp, inv.usd, j.capped)
Affordable(j) == /\ inv.xrp * j.price + inv.usd > 0
                 /\ IF AnchorOf(j) = "buy" THEN j.price <= inv.usd ELSE 1 <= inv.xrp
Anchor ==
    /\ pc = "anchoring" /\ Affordable(job)
    /\ FreeCopies(AnchorOf(job), job.price) # {}
    /\ filled' = {NewOrder(AnchorOf(job), job.price)}
    /\ rows' = rows \cup filled'
    /\ inv' = IF AnchorOf(job) = "buy"
              THEN [xrp |-> inv.xrp + 1, usd |-> inv.usd - job.price - TakerFee]
              ELSE [xrp |-> inv.xrp - 1, usd |-> inv.usd + job.price - TakerFee]
    /\ pc' = "anchored"
    /\ UNCHANGED <<book, levels, snap, grid, walk, job, todo, ghosts>>

\* ... marked filled, ...
MarkAnchor == /\ pc = "anchored"
              /\ rows' = rows \ filled /\ filled' = {}
              /\ pc' = "marked"
              /\ UNCHANGED <<memory, snap, grid, walk, job, todo, ghosts>>

\* ... and the inventory is persisted before any arm is placed.  Under the cap
\* the buy arms are dropped; without any arm the rebuild ends here.
PlannedBothSides(j) == Arms(j.price, j.spacing, levels, j.bias, inv.xrp, inv.usd)
PlannedArms(j) ==
    LET arms == Arms(j.price, j.spacing, levels, j.bias, inv.xrp, inv.usd)
    IN  IF j.capped THEN Orders("sell", arms) ELSE arms
PersistAnchor ==
    /\ pc = "marked"
    /\ snap' = Snapshot(inv)
    /\ IF PlannedArms(job) = {}
       THEN GoTo(job.next)
       ELSE /\ pc' = "arming" /\ todo' = PlannedArms(job)
            /\ UNCHANGED <<job, filled>>
    /\ UNCHANGED <<memory, rows, grid, walk, ghosts>>

AnchorFails ==
    /\ pc = "anchoring" /\ ~Affordable(job)
    /\ grid' = GridRow(job.price, job.spacing, levels, FALSE, FALSE)
    /\ GoTo(job.next)
    /\ UNCHANGED <<memory, rows, snap, walk, ghosts>>

\* The arms, buys before sells and each ladder outward.
Earlier(a, b) == \/ a.side = "buy" /\ b.side = "sell"
                 \/ a.side = "buy" /\ b.side = "buy" /\ a.price > b.price
                 \/ a.side = "sell" /\ b.side = "sell" /\ a.price < b.price
ArmOne ==
    /\ pc = "arming"
    /\ \E a \in todo : /\ \A b \in todo : ~Earlier(b, a)
                       /\ todo' = todo \ {a}
                       /\ PlaceOrder(a.side, a.price)
    /\ UNCHANGED <<inv, levels, snap, grid, walk, pc, job, filled, ghosts>>

RecordGrid ==
    /\ pc = "arming" /\ todo = {}
    /\ grid' = GridRow(job.price, job.spacing, levels, FALSE, FALSE)
    /\ pc' = "committing"
    /\ UNCHANGED <<memory, rows, snap, walk, job, todo, filled, ghosts>>

\* _down_walk_commit writes three keys, each in a commit of its own: the streak, ...
DownWalkCount ==
    /\ pc = "committing"
    /\ walk' = [walk EXCEPT !.streak = job.streak]
    /\ pc' = "counted"
    /\ UNCHANGED <<memory, rows, snap, grid, job, todo, filled, ghosts>>

\* ... the centre, which with the old date counts as reached at the old date, ...
DownWalkPlace ==
    /\ pc = "counted"
    /\ walk' = [walk EXCEPT !.centre = job.price]
    /\ pc' = "placed"
    /\ UNCHANGED <<memory, rows, snap, grid, job, todo, filled, ghosts>>

\* ... and the date.
DownWalkDate ==
    /\ pc = "placed"
    /\ walk' = [walk EXCEPT !.linked = TRUE, !.dated = TRUE]
    /\ GoTo(job.next)
    /\ UNCHANGED <<memory, rows, snap, grid, ghosts>>

\* A write that raises ends the commit, and the engine goes on.
DownWalkFails ==
    /\ pc \in {"committing", "counted", "placed"}
    /\ GoTo(job.next)
    /\ UNCHANGED <<memory, database, ghosts>>

\* DOWN_WALK_LINK_HOURS pass.
LinkExpires ==
    /\ pc = "idle" /\ walk.linked
    /\ walk' = [walk EXCEPT !.linked = FALSE]
    /\ UNCHANGED <<memory, rows, snap, grid, control, ghosts>>

-----------------------------------------------------------------------------
(***************************************************************************)
(* run_magi_cycle.  Under a failing guardrail every order is cancelled and *)
(* nothing else happens.                                                   *)
(***************************************************************************)
GuardrailsFail ==
    /\ pc = "idle"
    /\ CancelAll("idle")
    /\ UNCHANGED <<memory, database, ghosts>>

\* The council decides; unless the grid is to halt, the shadow variants may
\* switch the level count: an audit row, and a rebuild at the live spacing.
Decide ==
    /\ pc = "idle" /\ WithinBounds
    /\ \E c \in Choices :
          /\ job' = [NoJob EXCEPT !.choice = c, !.next = "applying"]
          /\ pc' = IF c.grid = "HALT" THEN "applying" ELSE "evaluating"
    /\ UNCHANGED <<memory, database, todo, filled, ghosts>>

KeepLevels == /\ pc = "evaluating"
              /\ pc' = "applying"
              /\ UNCHANGED <<memory, database, job, todo, filled, ghosts>>
SwitchLevels ==
    /\ pc = "evaluating" /\ grid.spacing > 0
    /\ \E g \in Geometries :
          /\ g.levels # levels
          /\ levels' = g.levels
          /\ grid' = GridRow(grid.centre, grid.spacing, g.levels, FALSE, FALSE)
    /\ BeginRebuild(job, grid.spacing, 100, "applying")
    /\ UNCHANGED <<book, inv, rows, snap, walk, ghosts>>

(***************************************************************************)
(* apply_magi_decision.                                                    *)
(***************************************************************************)
Choice == job.choice
Applying == pc = "applying"

ApplyHalt == /\ Applying /\ (Choice.grid = "HALT" \/ Choice.risk = "HALT")
             /\ CancelAll("syncing")
             /\ UNCHANGED <<memory, database, ghosts>>
ApplyPause == /\ Applying /\ Choice.grid = "GRID_PAUSE" /\ Choice.risk # "HALT"
              /\ CancelAll("pausing")
              /\ UNCHANGED <<memory, database, ghosts>>
RecordPause ==
    /\ pc = "pausing"
    /\ grid' = GridRow(grid.centre, grid.spacing,
                       IF grid.exists THEN grid.levels ELSE levels, FALSE, FALSE)
    /\ GoTo("syncing")
    /\ UNCHANGED <<memory, rows, snap, walk, ghosts>>

\* Neither halted nor paused: without any grid_state row initialise_grid is
\* called without a spacing, and refuses.
Steered == Applying /\ Choice.grid \in {"MAINTAIN", "RECENTRE"} /\ Choice.risk # "HALT"
ApplyWithoutGrid == /\ Steered /\ ~grid.exists
                    /\ GoTo("syncing")
                    /\ UNCHANGED <<memory, database, ghosts>>
ApplyMaintain == /\ Steered /\ grid.exists /\ Choice.grid = "MAINTAIN"
                 /\ GoTo("risk")
                 /\ UNCHANGED <<memory, database, ghosts>>

\* The empty-book guard: a rebuild whose one remaining side cannot be paid for.
EmptyBook(c, price) == \/ c.risk = "PAUSE_LONGS" /\ inv.xrp < 1
                       \/ c.risk = "PAUSE_SHORTS" /\ inv.usd < price
RiskLeft   == [NoJob EXCEPT !.choice = [NoChoice EXCEPT !.risk = Choice.risk]]
Recentring == Steered /\ grid.exists /\ Choice.grid = "RECENTRE"
ApplyGuarded ==
    /\ Recentring /\ \E price \in Prices : EmptyBook(Choice, price)
    /\ grid' = GridRow(grid.centre, grid.spacing, levels, FALSE, FALSE)
    /\ GoTo("risk")
    /\ UNCHANGED <<memory, rows, snap, walk, ghosts>>
ApplyRecentre ==
    /\ Recentring /\ \E price \in Prices : ~EmptyBook(Choice, price)
    /\ IF Choice.geometry = NoGeometry
       THEN GoTo("syncing") /\ UNCHANGED levels
       ELSE /\ levels' = Choice.geometry.levels
            /\ BeginRebuild(RiskLeft, Choice.geometry.spacing, Choice.geometry.bias,
                            "risk")
    /\ UNCHANGED <<book, inv, database, ghosts>>

\* The risk action: its side is cancelled row by row, then the flags are written
\* over the configuration of the latest row.
PausedSide(c) == IF c.risk = "PAUSE_LONGS" THEN "buy" ELSE "sell"
CancelPausedInMemory ==
    /\ pc = "risk" /\ Choice.risk \in Pauses
    /\ \E o \in Orders(PausedSide(Choice), book) : book' = book \ {o}
    /\ UNCHANGED <<inv, levels, database, control, ghosts>>
CancelPaused ==
    /\ pc = "risk" /\ Choice.risk \in Pauses
    /\ \E o \in Orders(PausedSide(Choice), book) :
          rows' = rows \ {o} /\ book' = book \ {o}
    /\ UNCHANGED <<inv, levels, snap, grid, walk, control, ghosts>>
RecordRisk ==
    /\ pc = "risk"
    /\ Choice.risk \in Pauses => Orders(PausedSide(Choice), book) = {}
    /\ grid' = [grid EXCEPT !.longs = Choice.risk = "PAUSE_LONGS",
                            !.shorts = Choice.risk = "PAUSE_SHORTS"]
    /\ GoTo("integrity")
    /\ UNCHANGED <<memory, rows, snap, walk, ghosts>>

\* The integrity guard: on a one-sided book initialise_grid is called with the
\* market price and no spacing, and refuses.
OneSided == Orders("buy", book) = {} \/ Orders("sell", book) = {}
IntegrityGuard == /\ pc = "integrity"
                  /\ GoTo("syncing")
                  /\ UNCHANGED <<memory, database, ghosts>>

\* run_magi_cycle's last step, when a price can be read.
SyncInventory == /\ pc = "syncing"
                 /\ snap' \in {snap, Snapshot(inv)}
                 /\ GoTo("idle")
                 /\ UNCHANGED <<memory, rows, grid, walk, ghosts>>

-----------------------------------------------------------------------------
(***************************************************************************)
(* Startup.  load_state restores what the database holds.  An impossible   *)
(* snapshot is replaced by the Kraken account, persisted at once, or by    *)
(* the defaults when the account cannot be read.                           *)
(***************************************************************************)
Restored == IF snap.taken THEN [xrp |-> snap.xrp, usd |-> snap.usd] ELSE Default
Impossible(i) == i.xrp < 0 \/ i.usd < 0

LoadState ==
    /\ pc = "down"
    /\ book' = rows
    /\ levels' = IF grid.exists THEN grid.levels ELSE DefaultLevels
    /\ IF ~Impossible(Restored)
       THEN inv' = Restored /\ UNCHANGED <<snap, rebased>>
       ELSE /\ rebased' = TRUE
            /\ \/ inv' = Account /\ snap' = Snapshot(Account)
               \/ inv' = Default /\ UNCHANGED snap
    /\ pc' = "booted"
    /\ UNCHANGED <<rows, grid, walk, job, todo, filled, build>>

\* The first observer cycle has nothing to fill.
BootObserved == /\ pc = "booted"
                /\ pc' = "bootguard"
                /\ UNCHANGED <<memory, database, job, todo, filled, ghosts>>

\* An empty book is rebuilt from the scorer's best variant, unless a pause flag
\* stands or the scorer accepts none.
KeepBook == /\ pc = "bootguard"
            /\ GoTo("idle")
            /\ UNCHANGED <<memory, database, ghosts>>
FirstBoot ==
    /\ pc = "bootguard" /\ WithinBounds
    /\ book = {} /\ ~grid.longs /\ ~grid.shorts
    /\ \E g \in Geometries : /\ levels' = g.levels
                             /\ BeginRebuild(NoJob, g.spacing, 100, "idle")
    /\ UNCHANGED <<book, inv, database, ghosts>>

\* The process dies: memory and locals are gone, the database stays.
Crash == /\ pc # "down"
         /\ pc' = "down" /\ job' = NoJob /\ todo' = {} /\ filled' = {}
         /\ book' = {} /\ inv' = Default /\ levels' = DefaultLevels
         /\ UNCHANGED <<database, ghosts>>

-----------------------------------------------------------------------------
Init == /\ book = {} /\ inv = Default /\ levels = DefaultLevels
        /\ rows = {} /\ snap = NoSnap /\ grid = NoGrid /\ walk = NoWalk
        /\ pc = "down" /\ job = NoJob /\ todo = {} /\ filled = {}
        /\ build \in Builds /\ rebased = FALSE

Observer == ObserverTick \/ FillOne \/ PersistFills \/ ReplaceOne \/ ReplacedAll
Rebuild  == \/ CancelRow \/ CancelDone \/ Anchor \/ AnchorFails \/ MarkAnchor
            \/ PersistAnchor \/ ArmOne \/ RecordGrid
            \/ DownWalkCount \/ DownWalkPlace \/ DownWalkDate \/ DownWalkFails
MagiCycle == \/ GuardrailsFail \/ Decide \/ KeepLevels \/ SwitchLevels
             \/ ApplyHalt \/ ApplyPause \/ RecordPause \/ ApplyWithoutGrid
             \/ ApplyMaintain \/ ApplyGuarded \/ ApplyRecentre
             \/ CancelPaused \/ RecordRisk \/ IntegrityGuard \/ SyncInventory
Startup  == LoadState \/ BootObserved \/ KeepBook \/ FirstBoot

Next == Observer \/ Rebuild \/ MagiCycle \/ Startup \/ LinkExpires \/ Crash
Spec == Init /\ [][Next]_vars
-----------------------------------------------------------------------------
(***************************************************************************)
(* Properties.                                                             *)
(***************************************************************************)
Rebuilding == {"anchoring", "anchored", "marked", "arming", "committing", "counted",
               "placed"}
PcValues == {"down", "idle", "booted", "bootguard", "filling", "replacing",
             "cancelling", "evaluating", "applying", "pausing", "risk",
             "integrity", "syncing"} \cup Rebuilding

Holding == [xrp : Int, usd : Int]
GridRows == [centre : Int, spacing : Nat, levels : Nat, longs : BOOLEAN,
             shorts : BOOLEAN, exists : BOOLEAN]
Continuations == {"idle", "applying", "risk", "syncing", "pausing"}
Jobs == [next : Continuations, choice : AllChoices, price : Int,
         market : Int, spacing : Nat, bias : Nat, capped : BOOLEAN, streak : Nat]

TypeOK ==
    /\ book \subseteq Order /\ rows \subseteq Order /\ filled \subseteq Order
    /\ pc = "filling" => todo \subseteq Order
    /\ pc = "arming" => todo \subseteq Arm
    /\ pc \notin {"filling", "arming"} => todo = {}
    /\ inv \in Holding
    /\ snap \in [xrp : Int, usd : Int, taken : BOOLEAN]
    /\ levels \in Nat
    /\ grid \in GridRows
    /\ walk \in [streak : Nat, centre : Int, linked : BOOLEAN, dated : BOOLEAN]
    /\ pc \in PcValues
    /\ job \in Jobs
    /\ build \in Builds /\ rebased \in BOOLEAN

\* What the process believes is resting is what the database says is open, at
\* every step outside a cancellation and the moment an anchor row is open: a
\* restart resumes the very book the crash interrupted.
BookMatchesRows ==
    /\ pc \notin {"down", "cancelling", "anchored"} => book = rows
    /\ pc = "cancelling" => rows \subseteq book
    /\ pc \in {"anchoring", "anchored", "marked"} => book = {}

\* Spot holdings: no fill is booked that the inventory cannot pay for, so that
\* XRP is never sold short and cash falls below zero by an anchor's fee at most,
\* in memory and in the snapshot a restart would load.
HoldingsBounded ==
    /\ inv.xrp >= 0 /\ inv.usd >= -TakerFee
    /\ snap.xrp >= 0 /\ snap.usd >= -TakerFee

\* One grid at a time: whatever crashed or failed before, the open rows all
\* belong to the same rebuild (the ONE GRID INVARIANT of the engine).
OneGrid == \A o \in rows : o.build = build

\* Between two handlers no trade is only in memory: the snapshot a restart would
\* load is the inventory, unless it is one that load_state will not accept.
SnapshotCurrent == pc = "idle" => Restored = inv \/ Impossible(Restored)

\* Every resting sell is covered by XRP held, across fills, replacements,
\* rebuilds, crashes and restarts, until load_state throws an inventory away.
SellsCovered ==
    pc = "idle" /\ ~rebased => Cardinality(Orders("sell", book)) <= inv.xrp

\* A rebuild under the exposure cap buys nothing: its anchor and every arm are
\* sells, its anchor can be paid for, and it leaves a sell to place.
CappedRebuildSells ==
    pc \in Rebuilding /\ job.capped =>
        /\ \A o \in rows \cup todo : o.side = "sell"
        /\ pc = "anchoring" => Affordable(job) /\ AnchorOf(job) = "sell"
        /\ pc = "marked" => PlannedArms(job) # {}

\* The persisted streak counts the rebuilds that landed, each against the last one
\* that is remembered, and nothing else moves it: a rebuild that is refused, fails
\* or is interrupted before it lands is not counted.  A crash or a failed write
\* between the three commits may take back where and when the rebuild landed,
\* never that it was counted.
Recording == pc \in {"counted", "placed"}
Cap == INSTANCE ExposureCap WITH
           streak <- walk.streak,
           centre <- IF Recording THEN job.price ELSE LastCentre(walk),
           linked <- Recording \/ walk.linked,
           kept   <- [centre |-> LastCentre(walk), linked |-> walk.linked]
CapRefinement == Cap!Spec

(***************************************************************************)
(* What the documentation says and the code does not do.                   *)
(***************************************************************************)
\* STAND_ASIDE, which the engine knows as PAUSE_LONGS: "buy orders are cancelled
\* and no buys are placed".  But a sell that fills while the flag stands is
\* answered with a buy.
PausedNoBuys == pc = "idle" /\ grid.longs => Orders("buy", rows) = {}
=============================================================================

-------------------------- MODULE GridEngineProofs --------------------------
(***************************************************************************)
(* The engine under its scheduler, for every market, geometry, decision    *)
(* and crash.                                                              *)
(*                                                                         *)
(* The properties TLC checks are not inductive one by one: that the book   *)
(* and the rows agree needs to know which row an anchor opened, that cash  *)
(* stays bounded needs the prices of what is resting, that the cap's       *)
(* streak is right at the commit needs that it was assessed against the    *)
(* very walk it is committed over.  IInv is their conjunction with what    *)
(* they need.                                                              *)
(***************************************************************************)
EXTENDS GridEngine, FiniteSetTheorems, TLAPS

-----------------------------------------------------------------------------
(***************************************************************************)
(* What the arithmetic of the grid returns, for every centre, spacing,     *)
(* level count and holding.                                                *)
(***************************************************************************)
\* At least one level on either side, whatever the skew and the bias.
LEMMA TargetTypes ==
    ASSUME NEW total \in Int, NEW ratio \in Int, NEW bias \in Int
    PROVE  /\ TargetBuys(total, ratio, bias) \in Int
           /\ TargetBuys(total, ratio, bias) >= 1
           /\ \A n \in Int : /\ TargetSells(total, n) \in Int
                             /\ TargetSells(total, n) >= 1
<1>1. \A n \in Int : AtLeast1(n) \in Int /\ AtLeast1(n) >= 1
  BY DEF AtLeast1
<1>2. \A n \in Int : RoundHalfEven(n, 100) \in Int
  BY DEF RoundHalfEven
<1>3. total * ratio \in Int
  OBVIOUS
<1>4. AtLeast1(RoundHalfEven(total * ratio, 100)) \in Int
  BY <1>1, <1>2, <1>3
<1>5. AtLeast1(RoundHalfEven(total * ratio, 100)) * bias \in Int
  BY <1>4
<1>6. TargetBuys(total, ratio, bias) \in Int /\ TargetBuys(total, ratio, bias) >= 1
  BY <1>1, <1>2, <1>5 DEF TargetBuys
<1>7. ASSUME NEW n \in Int
      PROVE  TargetSells(total, n) \in Int /\ TargetSells(total, n) >= 1
  BY <1>1 DEF TargetSells
<1> QED
  BY <1>6, <1>7

\* The skew always selects one of the five ratios.
LEMMA BuyRatioType ==
    ASSUME NEW v \in Int, NEW u \in Int
    PROVE  BuyRatio(v, u) \in {35, 45, 50, 55, 65}
BY DEF BuyRatio

\* Arms have integer prices, and a sell arm lies above the centre.
LEMMA ArmTypes ==
    ASSUME NEW centre \in Nat, NEW spacing \in Nat, NEW total \in Int,
           NEW bias \in Int, NEW xrp \in Int, NEW usd \in Int,
           NEW a \in Arms(centre, spacing, total, bias, xrp, usd)
    PROVE  /\ a \in [side : {"buy", "sell"}, price : Int]
           /\ a.side = "sell" => a.price >= centre
<1> DEFINE n == TargetBuys(total, BuyRatio(xrp * centre, usd), bias)
           m == TargetSells(total, n)
<1>1. a \in BuyArms(centre, spacing, n, usd) \cup SellArms(centre, spacing, m, xrp)
  BY DEF Arms
<1>2. CASE a \in BuyArms(centre, spacing, n, usd)
  <2>1. PICK i \in 1..n : a = [side |-> "buy", price |-> centre - i * spacing]
    BY <1>2 DEF BuyArms
  <2>2. i \in Int
    BY <2>1
  <2>3. centre - i * spacing \in Int
    BY <2>2
  <2> QED
    BY <2>1, <2>3
<1>3. CASE a \in SellArms(centre, spacing, m, xrp)
  <2>1. PICK i \in 1..m : a = [side |-> "sell", price |-> centre + i * spacing]
    BY <1>3 DEF SellArms
  <2>2. i \in Int /\ i >= 1
    BY <2>1
  <2>3. i * spacing \in Nat
    BY <2>2
  <2> QED
    BY <2>1, <2>3
<1> QED
  BY <1>1, <1>2, <1>3

\* Whoever holds a rung has a sell arm to place.
LEMMA SellArmExists ==
    ASSUME NEW centre \in Nat, NEW spacing \in Nat, NEW total \in Int,
           NEW bias \in Int, NEW xrp \in Int, NEW usd \in Int, xrp >= 1
    PROVE  [side |-> "sell", price |-> centre + spacing]
              \in Arms(centre, spacing, total, bias, xrp, usd)
<1> DEFINE n == TargetBuys(total, BuyRatio(xrp * centre, usd), bias)
           m == TargetSells(total, n)
           a == [side |-> "sell", price |-> centre + spacing]
<1>1. xrp * centre \in Int
  OBVIOUS
<1>2. BuyRatio(xrp * centre, usd) \in Int
  BY <1>1, BuyRatioType
<1>3. n \in Int
  BY <1>2, TargetTypes
<1>4. m \in Int /\ m >= 1
  BY <1>3, TargetTypes, <1>2
<1>5. 1 \in {k \in 1..m : k <= xrp}
  BY <1>4
<1>6. a \in SellArms(centre, spacing, m, xrp)
  <2>1. a = [side |-> "sell", price |-> centre + 1 * spacing]
    OBVIOUS
  <2> QED
    BY <1>5, <2>1 DEF SellArms
<1> QED
  BY <1>6 DEF Arms

\* A streak never goes below zero.
LEMMA DownWalkType ==
    ASSUME NEW w \in [streak : Nat, centre : Int, linked : BOOLEAN, dated : BOOLEAN],
           NEW c \in Int
    PROVE  DownWalkAssess(w, c) \in Nat
BY DEF DownWalkAssess, LastCentre

-----------------------------------------------------------------------------
(***************************************************************************)
(* The parts of the inductive invariant.                                   *)
(***************************************************************************)
\* The only row open between an anchor's insert and its mark is the anchor.
AnchorRow == pc = "anchored" => rows = filled

\* The fills still to be tried are resting, and a replacement has a market price.
ObserverJob == /\ pc = "filling" => todo \subseteq book
               /\ pc = "replacing" => job.market \in Prices

\* A rebuild in progress has a spacing, a spot, and the streak of the walk as it
\* still is, until the walk is written.
RebuildJob ==
    /\ pc \in Rebuilding => job.spacing > 0
    /\ pc \notin Rebuilding \cup {"cancelling"} => job.spacing = 0
    /\ job.spacing > 0 => /\ job.price \in Prices
                          /\ \/ pc \in {"counted", "placed"}
                             \/ job.streak = DownWalkAssess(walk, job.price)
    /\ pc = "placed" => walk.centre = job.price

\* No sell rests, or is planned, below zero.
PositiveSells ==
    /\ \A o \in book \cup rows : o.side = "sell" => o.price >= 0
    /\ pc = "arming" => \A a \in todo : a.side = "sell" => a.price >= 0

\* A capped rebuild has two rungs before its anchor and one after it.
CappedRungs ==
    job.spacing > 0 /\ job.capped =>
        /\ pc \in {"cancelling", "anchoring"} => inv.xrp >= 2
        /\ pc \in {"anchored", "marked"} => inv.xrp >= 1
        /\ pc \in Rebuilding => \A o \in rows \cup todo : o.side = "sell"

\* The snapshot is stale only while trades are being booked.
SnapshotKept ==
    pc \notin {"down", "anchored", "marked"} /\ (pc = "filling" => filled = {})
        => Restored = inv \/ Impossible(Restored)

IInv == /\ TypeOK /\ BookMatchesRows /\ HoldingsBounded /\ OneGrid
        /\ AnchorRow /\ ObserverJob /\ RebuildJob /\ PositiveSells /\ CappedRungs
        /\ SnapshotKept

Calm  == Continuations \cup {"booted", "bootguard", "evaluating", "integrity"}
Walks == [streak : Nat, centre : Int, linked : BOOLEAN, dated : BOOLEAN]
DownWalkCommit == DownWalkCount \/ DownWalkPlace \/ DownWalkDate \/ DownWalkFails
SnapshotOK == Restored = inv \/ Impossible(Restored)

-----------------------------------------------------------------------------
(***************************************************************************)
(* The building blocks of the handlers.                                    *)
(***************************************************************************)
\* Empty locals are locals, and so is a decision alone.
LEMMA NoJobType ==
    /\ NoJob \in Jobs /\ NoJob.spacing = 0
    /\ \A c \in AllChoices : /\ [NoJob EXCEPT !.choice = c] \in Jobs
                             /\ [NoJob EXCEPT !.choice = c].spacing = 0
<1>1. NoGeometry \in Geometries \cup {NoGeometry}
  OBVIOUS
<1>2. NoChoice \in AllChoices
  BY <1>1 DEF NoChoice, AllChoices, GridActions, RiskActions
<1>3. NoJob \in Jobs /\ NoJob.spacing = 0
  BY <1>2 DEF NoJob, Jobs, Continuations
<1>4. ASSUME NEW c \in AllChoices
      PROVE  /\ [NoJob EXCEPT !.choice = c] \in Jobs
             /\ [NoJob EXCEPT !.choice = c].spacing = 0
  BY <1>3 DEF Jobs
<1> QED
  BY <1>3, <1>4

\* GoTo ends a rebuild, a loop and all locals but the decision.
LEMMA GoToStep ==
    ASSUME TypeOK, NEW p, GoTo(p)
    PROVE  /\ pc' = p
           /\ job' \in Jobs /\ job'.spacing = 0
           /\ todo' = {} /\ filled' = {}
<1>1. job.choice \in AllChoices
  BY DEF TypeOK, Jobs
<1> QED
  BY <1>1, NoJobType DEF GoTo

\* An order that is placed rests in the book and in the database at once, and
\* belongs to the present rebuild.
LEMMA PlaceOrderStep ==
    ASSUME TypeOK, NEW side \in Sides, NEW price \in Int, PlaceOrder(side, price)
    PROVE  \/ book' = book /\ rows' = rows
           \/ \E o \in Order : /\ o.side = side /\ o.price = price /\ o.build = build
                               /\ rows' = rows \cup {o} /\ book' = book \cup {o}
<1>1. CASE FreeCopies(side, price) # {}
  <2> DEFINE o == NewOrder(side, price)
  <2>1. (CHOOSE n \in FreeCopies(side, price) : TRUE) \in Copies
    BY <1>1 DEF FreeCopies
  <2>2. o \in Order /\ o.side = side /\ o.price = price /\ o.build = build
    BY <2>1 DEF NewOrder, Order, TypeOK
  <2> QED
    BY <2>2 DEF PlaceOrder
<1>2. CASE FreeCopies(side, price) = {}
  BY <1>2 DEF PlaceOrder
<1> QED
  BY <1>1, <1>2

\* A rebuild is refused, or begins with the streak assessed at its spot.
LEMMA BeginRebuildStep ==
    ASSUME TypeOK, NEW j \in Jobs, NEW spacing \in Nat \ {0}, NEW bias \in Nat,
           NEW next \in Continuations, BeginRebuild(j, spacing, bias, next)
    PROVE  /\ job' \in Jobs /\ todo' = {} /\ filled' = {}
           /\ \/ pc' = next /\ job'.spacing = 0
              \/ /\ pc' = "cancelling" /\ job'.spacing = spacing
                 /\ job'.price \in Prices
                 /\ job'.streak = DownWalkAssess(walk, job'.price)
                 /\ job'.capped => inv.xrp >= 2
<1>1. PICK spot \in Prices :
        LET streak == DownWalkAssess(walk, spot)
            capped == streak >= CapStreak
        IN  IF capped /\ inv.xrp < 2
            THEN GoTo(next)
            ELSE /\ pc' = "cancelling"
                 /\ job' = [j EXCEPT !.next = next, !.price = spot,
                                     !.spacing = spacing, !.bias = bias,
                                     !.capped = capped, !.streak = streak]
                 /\ todo' = {} /\ filled' = {}
  BY DEF BeginRebuild
<1> DEFINE streak == DownWalkAssess(walk, spot)
           capped == streak >= CapStreak
<1>2. spot \in Int
  BY PricesAssumption
<1>3. streak \in Nat
  BY <1>2, DownWalkType DEF TypeOK
<1>4. CASE capped /\ inv.xrp < 2
  <2>1. GoTo(next)
    BY <1>1, <1>4
  <2> QED
    BY <2>1, GoToStep
<1>5. CASE ~(capped /\ inv.xrp < 2)
  <2>0. capped \in BOOLEAN
    OBVIOUS
  <2> HIDE DEF streak, capped
  <2>1. job' = [j EXCEPT !.next = next, !.price = spot, !.spacing = spacing,
                         !.bias = bias, !.capped = capped, !.streak = streak]
    BY <1>1, <1>5 DEF streak, capped
  <2>2. job' \in Jobs
    BY <2>0, <2>1, <1>2, <1>3 DEF Jobs
  <2>3. /\ job'.spacing = spacing /\ job'.price = spot
        /\ job'.capped = capped /\ job'.streak = streak
    BY <2>1 DEF Jobs
  <2>4. job'.streak = DownWalkAssess(walk, job'.price)
    BY <2>3 DEF streak
  <2>5. job'.capped => inv.xrp >= 2
    <3>1. inv.xrp \in Int
      BY DEF TypeOK, Holding
    <3>2. capped => ~(inv.xrp < 2)
      BY <1>5
    <3>3. capped => inv.xrp >= 2
      BY <3>1, <3>2
    <3> QED
      BY <2>3, <3>3
  <2>6. pc' = "cancelling" /\ todo' = {} /\ filled' = {}
    BY <1>1, <1>5 DEF streak, capped
  <2> QED
    BY <2>2, <2>3, <2>4, <2>5, <2>6
<1> QED
  BY <1>4, <1>5

\* A step into a calm place, where no rebuild and no loop runs, with the book in
\* the database and the trades in the snapshot.
LEMMA CalmStep ==
    ASSUME IInv, book = rows, SnapshotOK',
           UNCHANGED <<book, inv, rows, ghosts>>,
           snap' \in {snap, Snapshot(inv)}, walk' \in Walks,
           levels' \in Nat, grid' \in GridRows,
           pc' \in Calm, job' \in Jobs, job'.spacing = 0, todo' = {},
           filled' \subseteq Order
    PROVE  IInv'
<1> USE DEF IInv, Calm, Continuations
<1>1. TypeOK'
  <2>1. Snapshot(inv) \in [xrp : Int, usd : Int, taken : BOOLEAN]
    BY DEF TypeOK, Snapshot, Holding
  <2>2. snap' \in [xrp : Int, usd : Int, taken : BOOLEAN]
    BY <2>1 DEF TypeOK
  <2>3. pc' \in PcValues /\ pc' \notin {"filling", "arming"}
    BY DEF PcValues
  <2> QED
    BY <2>2, <2>3 DEF TypeOK, Walks, ghosts
<1>2. BookMatchesRows'
  BY DEF BookMatchesRows
<1>3. HoldingsBounded'
  BY DEF HoldingsBounded, Snapshot
<1>4. OneGrid'
  BY DEF OneGrid, ghosts
<1>5. AnchorRow' /\ ObserverJob' /\ RebuildJob' /\ CappedRungs'
  BY DEF AnchorRow, ObserverJob, RebuildJob, CappedRungs, Rebuilding, Jobs
<1>6. PositiveSells'
  BY DEF PositiveSells
<1>7. SnapshotKept'
  BY DEF SnapshotKept, SnapshotOK
<1> QED
  BY <1>1, <1>2, <1>3, <1>4, <1>5, <1>6, <1>7

\* A step into the cancellation of every order, for a rebuild or not.
LEMMA CancelStep ==
    ASSUME IInv, book = rows, SnapshotOK,
           UNCHANGED <<book, inv, rows, snap, walk, ghosts>>,
           levels' \in Nat, grid' \in GridRows,
           pc' = "cancelling", job' \in Jobs, todo' = {}, filled' = {},
           \/ job'.spacing = 0
           \/ /\ job'.price \in Prices
              /\ job'.streak = DownWalkAssess(walk, job'.price)
              /\ job'.capped => inv.xrp >= 2
    PROVE  IInv'
<1> USE DEF IInv
<1>1. TypeOK'
  BY DEF TypeOK, PcValues, ghosts
<1>2. BookMatchesRows'
  BY DEF BookMatchesRows
<1>3. HoldingsBounded'
  BY DEF HoldingsBounded
<1>4. OneGrid'
  BY DEF OneGrid, ghosts
<1>5. AnchorRow' /\ ObserverJob' /\ CappedRungs'
  BY DEF AnchorRow, ObserverJob, CappedRungs, Rebuilding, Jobs
<1>6. RebuildJob'
  BY DEF RebuildJob, Rebuilding, Jobs
<1>7. PositiveSells'
  BY DEF PositiveSells
<1>8. SnapshotKept'
  BY DEF SnapshotKept, SnapshotOK, Restored, Impossible
<1> QED
  BY <1>1, <1>2, <1>3, <1>4, <1>5, <1>6, <1>7, <1>8

\* Where neither fills nor an anchor are being booked, book and rows agree and
\* the snapshot is current.
LEMMA AtRest ==
    ASSUME IInv, pc \in Calm \cup {"replacing", "anchoring", "arming", "committing",
                                   "counted", "placed"}
    PROVE  book = rows /\ SnapshotOK
BY DEF IInv, BookMatchesRows, SnapshotKept, SnapshotOK, Calm, Continuations

-----------------------------------------------------------------------------
(***************************************************************************)
(* The observer cycle.                                                     *)
(***************************************************************************)
\* Orders are hit; nothing is booked yet.
LEMMA ObserverTickInv == ASSUME IInv, ObserverTick PROVE IInv'
<1> USE DEF IInv
<1>1. PICK price, low, high \in Prices :
          /\ todo' = {o \in book : Hit(o, low, high)}
          /\ job' = [NoJob EXCEPT !.price = price]
  BY DEF ObserverTick
<1>2. /\ pc \in {"idle", "booted"} /\ pc' = "filling" /\ filled' = {}
      /\ UNCHANGED <<memory, database, ghosts>>
  BY DEF ObserverTick
<1>3. book = rows /\ SnapshotOK
  BY <1>2, AtRest DEF Calm, Continuations
<1>4. job' \in Jobs /\ job'.spacing = 0
  <2>1. price \in Nat
    BY PricesAssumption
  <2> QED
    BY <1>1, <2>1, NoJobType DEF Jobs
<1>5. todo' \subseteq book
  BY <1>1
<1> USE <1>2 DEF memory, database, ghosts
<1>6. TypeOK'
  BY <1>4, <1>5 DEF TypeOK, PcValues
<1>7. BookMatchesRows' /\ HoldingsBounded' /\ OneGrid'
  BY <1>3 DEF BookMatchesRows, HoldingsBounded, OneGrid
<1>8. AnchorRow' /\ ObserverJob' /\ RebuildJob' /\ PositiveSells' /\ CappedRungs'
  BY <1>4, <1>5 DEF AnchorRow, ObserverJob, RebuildJob, PositiveSells, CappedRungs,
                    Rebuilding
<1>9. SnapshotKept'
  BY <1>3 DEF SnapshotKept, SnapshotOK, Restored, Impossible
<1> QED
  BY <1>6, <1>7, <1>8, <1>9

\* An order that can be paid for is filled, in memory and in its row.
LEMMA FillOneInv == ASSUME IInv, FillOne PROVE IInv'
<1> USE DEF IInv
<1>1. PICK o \in todo :
          /\ todo' = todo \ {o}
          /\ IF ~Payable(o)
             THEN UNCHANGED <<book, rows, inv, filled>>
             ELSE /\ book' = book \ {o}
                  /\ rows' = rows \ {o}
                  /\ filled' = filled \cup {o}
                  /\ inv' = IF o.side = "buy"
                            THEN [xrp |-> inv.xrp + 1, usd |-> inv.usd - o.price]
                            ELSE [xrp |-> inv.xrp - 1, usd |-> inv.usd + o.price]
  BY DEF FillOne
<1>2. /\ pc = "filling" /\ pc' = "filling" /\ job' = job
      /\ UNCHANGED <<levels, snap, grid, walk, ghosts>>
  BY DEF FillOne
<1>3. /\ o \in Order /\ o \in book /\ todo \subseteq book /\ book = rows
      /\ book' \subseteq book /\ rows' \subseteq rows /\ book' = rows'
  <2>1. todo \subseteq book /\ book = rows
    BY <1>2 DEF ObserverJob, BookMatchesRows
  <2>2. o \in Order /\ o \in book
    BY <1>1, <2>1 DEF TypeOK
  <2>3. \/ book' = book /\ rows' = rows
        \/ book' = book \ {o} /\ rows' = rows \ {o}
    BY <1>1
  <2> QED
    BY <2>1, <2>2, <2>3
<1>4. job.spacing = 0
  BY <1>2 DEF RebuildJob, Rebuilding
<1>5. o.price \in Int /\ (o.side = "sell" => o.price >= 0)
  BY <1>3 DEF Order, PositiveSells
<1>6. inv' \in Holding
  BY <1>1, <1>5 DEF TypeOK, Holding
<1>7. TypeOK'
  BY <1>1, <1>2, <1>3, <1>6 DEF TypeOK, ghosts
<1>8. BookMatchesRows' /\ OneGrid'
  BY <1>2, <1>3 DEF BookMatchesRows, OneGrid, ghosts
<1>9. HoldingsBounded'
  <2>1. inv'.xrp >= 0 /\ inv'.usd >= -TakerFee
    <3>1. CASE ~Payable(o)
      BY <1>1, <3>1 DEF HoldingsBounded
    <3>2. CASE Payable(o) /\ o.side = "buy"
      BY <1>1, <1>5, <3>2, DefaultsAssumption DEF Payable, HoldingsBounded, TypeOK, Holding
    <3>3. CASE Payable(o) /\ o.side # "buy"
      <4>1. o.side = "sell"
        BY <1>3, <3>3 DEF Order, Sides
      <4> QED
        BY <1>1, <1>5, <3>3, <4>1, DefaultsAssumption DEF Payable, HoldingsBounded,
                                                         TypeOK, Holding
    <3> QED
      BY <3>1, <3>2, <3>3
  <2> QED
    BY <1>2, <2>1 DEF HoldingsBounded
<1>10. AnchorRow' /\ ObserverJob' /\ RebuildJob' /\ CappedRungs'
  BY <1>1, <1>2, <1>3, <1>4 DEF AnchorRow, ObserverJob, RebuildJob, CappedRungs,
                                Rebuilding
<1>11. PositiveSells'
  BY <1>2, <1>3 DEF PositiveSells
<1>12. SnapshotKept'
  BY <1>1, <1>2 DEF SnapshotKept, Restored, Impossible
<1> QED
  BY <1>7, <1>8, <1>9, <1>10, <1>11, <1>12

\* The fills are in the snapshot before any of them is answered.
LEMMA PersistFillsInv == ASSUME IInv, PersistFills PROVE IInv'
<1> USE DEF IInv
<1>1. /\ pc = "filling" /\ todo = {} /\ UNCHANGED <<memory, rows, grid, walk, ghosts>>
  BY DEF PersistFills
<1>2. book = rows /\ job.next \in Continuations /\ TypeOK
  BY <1>1 DEF BookMatchesRows, TypeOK, Jobs
<1>3. CASE GoTo(job.next) /\ snap' = snap /\ filled = {}
  <2>1. SnapshotOK'
    BY <1>1, <1>3 DEF SnapshotKept, SnapshotOK, Restored, Impossible, memory
  <2> QED
    BY <1>1, <1>2, <1>3, <2>1, GoToStep, CalmStep DEF TypeOK, Calm, Walks, memory
<1>4. CASE GoTo(job.next) /\ snap' = Snapshot(inv)
  <2>1. SnapshotOK'
    BY <1>1, <1>4 DEF SnapshotOK, Restored, Snapshot, memory, TypeOK, Holding
  <2> QED
    BY <1>1, <1>2, <1>4, <2>1, GoToStep, CalmStep DEF TypeOK, Calm, Walks, memory
<1>5. ASSUME snap' = Snapshot(inv), pc' = "replacing", UNCHANGED <<todo, filled>>,
             NEW market \in Prices, job' = [job EXCEPT !.market = market]
      PROVE  IInv'
  <2>1. Restored' = inv'
    BY <1>1, <1>5 DEF Restored, Snapshot, memory, TypeOK, Holding
  <2>2. job' \in Jobs /\ job'.spacing = 0 /\ job'.market = market
    <3>1. job \in Jobs /\ job.spacing = 0
      BY <1>1 DEF RebuildJob, Rebuilding, TypeOK
    <3> QED
      BY <1>5, <3>1, PricesAssumption DEF Jobs
  <2>3. TypeOK'
    BY <1>1, <1>5, <2>2 DEF TypeOK, Holding, Snapshot, PcValues, memory, ghosts
  <2>4. BookMatchesRows' /\ OneGrid' /\ HoldingsBounded'
    BY <1>1, <1>2, <1>5 DEF BookMatchesRows, OneGrid, HoldingsBounded, Snapshot,
                            memory, ghosts
  <2>5. AnchorRow' /\ ObserverJob' /\ RebuildJob' /\ CappedRungs'
    BY <1>5, <2>2 DEF AnchorRow, ObserverJob, RebuildJob, CappedRungs, Rebuilding
  <2>6. PositiveSells'
    BY <1>1, <1>5 DEF PositiveSells, memory
  <2>7. SnapshotKept'
    BY <2>1 DEF SnapshotKept
  <2> QED
    BY <2>3, <2>4, <2>5, <2>6, <2>7
<1> QED
  BY <1>3, <1>4, <1>5 DEF PersistFills

\* A replacement is placed like any other order.
LEMMA ReplaceOneInv == ASSUME IInv, ReplaceOne PROVE IInv'
<1> USE DEF IInv
<1>1. PICK o \in filled :
          /\ filled' = filled \ {o}
          /\ IF Abs(job.market - job.price) > 2 * grid.spacing
             THEN UNCHANGED <<book, rows>>
             ELSE PlaceOrder(ReplacementSide(o), ReplacementPrice(o, job))
  BY DEF ReplaceOne
<1>2. /\ pc = "replacing" /\ pc' = pc /\ job' = job /\ todo' = todo
      /\ UNCHANGED <<inv, levels, snap, grid, walk, ghosts>>
  BY DEF ReplaceOne
<1>3. book = rows /\ SnapshotOK
  BY <1>2, AtRest
<1>4. job.spacing = 0 /\ job.market \in Prices /\ todo = {}
  BY <1>2 DEF RebuildJob, Rebuilding, ObserverJob, TypeOK
<1>5. /\ ReplacementSide(o) \in Sides /\ ReplacementPrice(o, job) \in Int
      /\ ReplacementSide(o) = "sell" => ReplacementPrice(o, job) >= 0
  <2>1. o.side \in Sides
    BY DEF TypeOK, Order
  <2>2. grid.spacing \in Nat /\ job.market \in Nat
    BY <1>4, PricesAssumption DEF TypeOK, GridRows
  <2> QED
    BY <2>1, <2>2 DEF ReplacementSide, ReplacementPrice, Sides
<1>6. \/ book' = book /\ rows' = rows
      \/ \E n \in Order : /\ n.side = "sell" => n.price >= 0
                          /\ n.build = build
                          /\ rows' = rows \cup {n} /\ book' = book \cup {n}
  BY <1>1, <1>5, PlaceOrderStep
<1>7. TypeOK'
  BY <1>1, <1>2, <1>6 DEF TypeOK, ghosts
<1>8. BookMatchesRows' /\ OneGrid' /\ HoldingsBounded'
  BY <1>2, <1>3, <1>6 DEF BookMatchesRows, OneGrid, HoldingsBounded, ghosts
<1>9. AnchorRow' /\ ObserverJob' /\ RebuildJob' /\ CappedRungs'
  BY <1>2, <1>4 DEF AnchorRow, ObserverJob, RebuildJob, CappedRungs, Rebuilding
<1>10. PositiveSells'
  BY <1>2, <1>6 DEF PositiveSells
<1>11. SnapshotKept'
  BY <1>2, <1>3 DEF SnapshotKept, SnapshotOK, Restored, Impossible
<1> QED
  BY <1>7, <1>8, <1>9, <1>10, <1>11

\* The observer cycle ends.
LEMMA ReplacedAllInv == ASSUME IInv, ReplacedAll PROVE IInv'
<1>1. /\ pc = "replacing" /\ GoTo(job.next) /\ UNCHANGED <<memory, database, ghosts>>
  BY DEF ReplacedAll
<1>2. book = rows /\ SnapshotOK
  BY <1>1, AtRest
<1>3. SnapshotOK'
  BY <1>1, <1>2 DEF SnapshotOK, Restored, Impossible, memory, database
<1>4. TypeOK /\ job.next \in Continuations
  BY DEF IInv, TypeOK, Jobs
<1> QED
  BY <1>1, <1>2, <1>3, <1>4, GoToStep, CalmStep DEF TypeOK, Calm, Walks, memory, database

-----------------------------------------------------------------------------
(***************************************************************************)
(* The cancellation and the rebuild.                                       *)
(***************************************************************************)
\* A cancelled row leaves the database before the book.
LEMMA CancelRowInv == ASSUME IInv, CancelRow PROVE IInv'
<1> USE DEF IInv
<1>1. /\ pc = "cancelling" /\ rows' \subseteq rows
      /\ UNCHANGED <<memory, snap, grid, walk, control, ghosts>>
  BY DEF CancelRow
<1> USE <1>1 DEF memory, control, ghosts
<1>2. TypeOK'
  BY DEF TypeOK
<1>3. BookMatchesRows' /\ OneGrid' /\ HoldingsBounded'
  BY DEF BookMatchesRows, OneGrid, HoldingsBounded
<1>4. AnchorRow' /\ ObserverJob' /\ RebuildJob' /\ PositiveSells' /\ CappedRungs'
  BY DEF AnchorRow, ObserverJob, RebuildJob, PositiveSells, CappedRungs, Rebuilding
<1>5. SnapshotKept'
  BY DEF SnapshotKept, Restored, Impossible
<1> QED
  BY <1>2, <1>3, <1>4, <1>5

\* Once every row is cancelled nothing rests anywhere, and a new grid may begin.
LEMMA CancelDoneInv == ASSUME IInv, CancelDone PROVE IInv'
<1> USE DEF IInv
<1>1. /\ pc = "cancelling" /\ rows = {} /\ book' = {} /\ rebased' = FALSE
      /\ UNCHANGED <<inv, levels, database>>
  BY DEF CancelDone, AllCancelled
<1>2. SnapshotOK
  BY <1>1 DEF SnapshotKept, SnapshotOK
<1> USE <1>1 DEF database
<1>3. CASE /\ job.spacing > 0 /\ pc' = "anchoring" /\ build' \in Builds
           /\ UNCHANGED <<job, todo, filled>>
  <2> USE <1>3
  <2>1. TypeOK'
    BY DEF TypeOK, PcValues, Rebuilding
  <2>2. BookMatchesRows' /\ OneGrid' /\ HoldingsBounded'
    BY DEF BookMatchesRows, OneGrid, HoldingsBounded
  <2>3. AnchorRow' /\ ObserverJob' /\ RebuildJob' /\ PositiveSells'
    BY DEF AnchorRow, ObserverJob, RebuildJob, PositiveSells, Rebuilding
  <2>4. CappedRungs'
    BY DEF CappedRungs, TypeOK
  <2>5. SnapshotKept'
    BY <1>2 DEF SnapshotKept, SnapshotOK, Restored, Impossible
  <2> QED
    BY <2>1, <2>2, <2>3, <2>4, <2>5
<1>4. CASE GoTo(job.next) /\ UNCHANGED build
  <2> USE <1>4
  <2>0. /\ pc' \in Continuations /\ job' \in Jobs /\ job'.spacing = 0
        /\ todo' = {} /\ filled' = {}
    <3>1. TypeOK /\ job.next \in Continuations
      BY DEF TypeOK, Jobs
    <3> QED
      BY <3>1, GoToStep
  <2>1. TypeOK'
    BY <2>0 DEF TypeOK, PcValues, Continuations
  <2>2. BookMatchesRows' /\ OneGrid' /\ HoldingsBounded'
    BY <2>0 DEF BookMatchesRows, OneGrid, HoldingsBounded, Continuations
  <2>3. AnchorRow' /\ ObserverJob' /\ RebuildJob' /\ PositiveSells' /\ CappedRungs'
    BY <2>0 DEF AnchorRow, ObserverJob, RebuildJob, PositiveSells, CappedRungs,
                Rebuilding, Continuations
  <2>4. SnapshotKept'
    BY <1>2 DEF SnapshotKept, SnapshotOK, Restored, Impossible
  <2> QED
    BY <2>1, <2>2, <2>3, <2>4
<1> QED
  BY <1>3, <1>4 DEF CancelDone

\* The anchor is paid from what is held; its fee is not covered by the check.
LEMMA AnchorInv == ASSUME IInv, Anchor PROVE IInv'
<1> USE DEF IInv
<1> DEFINE o == NewOrder(AnchorOf(job), job.price)
<1>1. /\ pc = "anchoring" /\ Affordable(job)
      /\ FreeCopies(AnchorOf(job), job.price) # {}
      /\ filled' = {o} /\ rows' = rows \cup {o} /\ pc' = "anchored"
      /\ UNCHANGED <<book, levels, snap, grid, walk, job, todo, ghosts>>
  BY DEF Anchor
<1>2. inv' = IF AnchorOf(job) = "buy"
             THEN [xrp |-> inv.xrp + 1, usd |-> inv.usd - job.price - TakerFee]
             ELSE [xrp |-> inv.xrp - 1, usd |-> inv.usd + job.price - TakerFee]
  BY DEF Anchor
<1>3. book = rows /\ book = {} /\ job.spacing > 0 /\ job.price \in Prices /\ todo = {}
  BY <1>1 DEF BookMatchesRows, RebuildJob, TypeOK, Rebuilding
<1>4. AnchorOf(job) \in {"buy", "sell"} /\ (job.capped => AnchorOf(job) = "sell")
  BY DEF AnchorOf, AnchorSide
<1>5. job.price \in Nat /\ TakerFee \in Nat /\ TakerFee <= job.price
  BY <1>3, PricesAssumption, DefaultsAssumption
<1>6. o \in Order /\ o.side = AnchorOf(job) /\ o.price = job.price /\ o.build = build
  <2>1. (CHOOSE n \in FreeCopies(AnchorOf(job), job.price) : TRUE) \in Copies
    BY <1>1 DEF FreeCopies
  <2> QED
    BY <1>4, <1>5, <2>1 DEF NewOrder, Order, Sides, TypeOK
<1>7. inv.xrp \in Int /\ inv.usd \in Int /\ inv.xrp >= 0 /\ inv.usd >= -TakerFee
  BY DEF TypeOK, Holding, HoldingsBounded
<1>8. /\ inv' \in Holding /\ inv'.xrp >= 0 /\ inv'.usd >= -TakerFee
      /\ inv.xrp >= 2 => inv'.xrp >= 1
  <2>1. CASE AnchorOf(job) = "buy"
    BY <1>1, <1>2, <1>5, <1>7, <2>1 DEF Affordable, Holding
  <2>2. CASE AnchorOf(job) = "sell"
    <3>1. inv.xrp >= 1
      BY <1>1, <1>7, <2>2 DEF Affordable
    <3> QED
      BY <1>2, <1>5, <1>7, <2>2, <3>1 DEF Holding
  <2> QED
    BY <1>4, <2>1, <2>2
<1> USE <1>1 DEF ghosts
<1>9. TypeOK'
  BY <1>3, <1>6, <1>8 DEF TypeOK, PcValues, Rebuilding
<1>10. BookMatchesRows' /\ OneGrid' /\ HoldingsBounded'
  BY <1>3, <1>6, <1>8 DEF BookMatchesRows, OneGrid, HoldingsBounded
<1>11. AnchorRow' /\ ObserverJob' /\ RebuildJob' /\ PositiveSells'
  BY <1>3, <1>5, <1>6 DEF AnchorRow, ObserverJob, RebuildJob, PositiveSells, Rebuilding
<1>12. CappedRungs'
  BY <1>3, <1>4, <1>6, <1>8 DEF CappedRungs
<1>13. SnapshotKept'
  BY DEF SnapshotKept
<1> QED
  BY <1>9, <1>10, <1>11, <1>12, <1>13

\* An anchor that cannot be paid for leaves a row and no order.
LEMMA AnchorFailsInv == ASSUME IInv, AnchorFails PROVE IInv'
<1>1. /\ pc = "anchoring" /\ GoTo(job.next)
      /\ grid' = GridRow(job.price, job.spacing, levels, FALSE, FALSE)
      /\ UNCHANGED <<memory, rows, snap, walk, ghosts>>
  BY DEF AnchorFails
<1>2. TypeOK /\ job \in Jobs /\ job.next \in Continuations
  BY DEF IInv, TypeOK, Jobs
<1>3. grid' \in GridRows
  BY <1>1, <1>2 DEF GridRow, GridRows, Jobs, TypeOK
<1>4. book = rows /\ SnapshotOK
  BY <1>1, AtRest
<1>5. SnapshotOK'
  BY <1>1, <1>4 DEF SnapshotOK, Restored, Impossible, memory
<1> QED
  BY <1>1, <1>2, <1>3, <1>4, <1>5, GoToStep, CalmStep DEF TypeOK, Calm, Walks, memory

\* The anchor's row is marked filled.
LEMMA MarkAnchorInv == ASSUME IInv, MarkAnchor PROVE IInv'
<1> USE DEF IInv
<1>1. /\ pc = "anchored" /\ rows' = rows \ filled /\ filled' = {} /\ pc' = "marked"
      /\ UNCHANGED <<memory, snap, grid, walk, job, todo, ghosts>>
  BY DEF MarkAnchor
<1>2. rows' = {} /\ book = {} /\ todo = {}
  BY <1>1 DEF AnchorRow, BookMatchesRows, TypeOK
<1> USE <1>1, <1>2 DEF memory, ghosts
<1>3. TypeOK'
  BY DEF TypeOK, PcValues, Rebuilding
<1>4. BookMatchesRows' /\ OneGrid' /\ HoldingsBounded'
  BY DEF BookMatchesRows, OneGrid, HoldingsBounded
<1>5. AnchorRow' /\ ObserverJob' /\ RebuildJob' /\ PositiveSells'
  BY DEF AnchorRow, ObserverJob, RebuildJob, PositiveSells, Rebuilding
<1>6. CappedRungs'
  BY DEF CappedRungs
<1>7. SnapshotKept'
  BY DEF SnapshotKept
<1> QED
  BY <1>3, <1>4, <1>5, <1>6, <1>7

\* What is planned are arms, none of them a buy under the cap.
LEMMA PlannedArmTypes ==
    ASSUME IInv, job.spacing > 0
    PROVE  /\ PlannedArms(job) \subseteq Arm
           /\ \A a \in PlannedArms(job) : /\ a.side = "sell" => a.price >= 0
                                          /\ job.capped => a.side = "sell"
<1>1. job.price \in Nat /\ job \in Jobs
  BY PricesAssumption DEF IInv, RebuildJob, TypeOK
<1>2. /\ job.spacing \in Nat /\ job.bias \in Int /\ levels \in Int
      /\ inv.xrp \in Int /\ inv.usd \in Int
  BY <1>1 DEF Jobs, IInv, TypeOK, Holding
<1> DEFINE arms == Arms(job.price, job.spacing, levels, job.bias, inv.xrp, inv.usd)
<1>3. \A a \in arms : a \in Arm /\ (a.side = "sell" => a.price >= job.price)
  BY <1>1, <1>2, ArmTypes DEF Arm, Sides
<1>4. PlannedArms(job) \subseteq arms
  BY DEF PlannedArms, Orders
<1>5. job.capped => \A a \in PlannedArms(job) : a.side = "sell"
  BY DEF PlannedArms, Orders
<1>6. \A a \in Arm : a.price >= job.price => a.price >= 0
  BY <1>1 DEF Arm
<1> QED
  BY <1>3, <1>4, <1>5, <1>6

\* The anchor's trade is in the snapshot before any arm is placed.
LEMMA PersistAnchorInv == ASSUME IInv, PersistAnchor PROVE IInv'
<1> USE DEF IInv
<1>1. /\ pc = "marked" /\ snap' = Snapshot(inv)
      /\ UNCHANGED <<memory, rows, grid, walk, ghosts>>
  BY DEF PersistAnchor
<1>2. Restored' = inv'
  BY <1>1 DEF Restored, Snapshot, memory, TypeOK, Holding
<1>3. book = rows /\ book = {} /\ job.spacing > 0 /\ job.next \in Continuations
  BY <1>1 DEF BookMatchesRows, RebuildJob, Rebuilding, TypeOK, Jobs
<1>4. CASE GoTo(job.next)
  <2>1. SnapshotOK'
    BY <1>2 DEF SnapshotOK
  <2> QED
    BY <1>1, <1>3, <1>4, <2>1, GoToStep, CalmStep DEF TypeOK, Calm, Walks, memory
<1>5. CASE /\ pc' = "arming" /\ todo' = PlannedArms(job) /\ UNCHANGED <<job, filled>>
  <2>1. TypeOK'
    BY <1>1, <1>3, <1>5, PlannedArmTypes DEF TypeOK, Holding, Snapshot, PcValues,
                                             Rebuilding, memory, ghosts
  <2>2. BookMatchesRows' /\ OneGrid' /\ HoldingsBounded'
    BY <1>1, <1>3, <1>5 DEF BookMatchesRows, OneGrid, HoldingsBounded, Snapshot,
                            memory, ghosts
  <2>3. AnchorRow' /\ ObserverJob' /\ RebuildJob'
    BY <1>1, <1>3, <1>5 DEF AnchorRow, ObserverJob, RebuildJob, Rebuilding
  <2>4. PositiveSells' /\ CappedRungs'
    BY <1>1, <1>3, <1>5, PlannedArmTypes DEF PositiveSells, CappedRungs, memory
  <2>5. SnapshotKept'
    BY <1>2 DEF SnapshotKept
  <2> QED
    BY <2>1, <2>2, <2>3, <2>4, <2>5
<1> QED
  BY <1>4, <1>5 DEF PersistAnchor

\* An arm is placed like any other order.
LEMMA ArmOneInv == ASSUME IInv, ArmOne PROVE IInv'
<1> USE DEF IInv
<1>1. PICK a \in todo : todo' = todo \ {a} /\ PlaceOrder(a.side, a.price)
  BY DEF ArmOne
<1>2. /\ pc = "arming" /\ pc' = pc
      /\ UNCHANGED <<inv, levels, snap, grid, walk, job, filled, ghosts>>
  BY DEF ArmOne
<1>3. book = rows /\ SnapshotOK
  BY <1>2, AtRest
<1>4. /\ a.side \in Sides /\ a.price \in Int
      /\ a.side = "sell" => a.price >= 0
      /\ job.spacing > 0 /\ job.capped => a.side = "sell"
  BY <1>1, <1>2 DEF TypeOK, Arm, PositiveSells, CappedRungs, Rebuilding
<1>5. \/ book' = book /\ rows' = rows
      \/ \E n \in Order : /\ n.side = a.side /\ n.price = a.price /\ n.build = build
                          /\ rows' = rows \cup {n} /\ book' = book \cup {n}
  BY <1>1, <1>4, PlaceOrderStep
<1>6. TypeOK'
  BY <1>1, <1>2, <1>5 DEF TypeOK, ghosts
<1>7. BookMatchesRows' /\ OneGrid' /\ HoldingsBounded'
  BY <1>2, <1>3, <1>5 DEF BookMatchesRows, OneGrid, HoldingsBounded, ghosts
<1>8. AnchorRow' /\ ObserverJob' /\ RebuildJob'
  BY <1>2 DEF AnchorRow, ObserverJob, RebuildJob, Rebuilding
<1>9. PositiveSells'
  BY <1>1, <1>2, <1>4, <1>5 DEF PositiveSells
<1>10. CappedRungs'
  BY <1>1, <1>2, <1>4, <1>5 DEF CappedRungs
<1>11. SnapshotKept'
  BY <1>2, <1>3 DEF SnapshotKept, SnapshotOK, Restored, Impossible
<1> QED
  BY <1>6, <1>7, <1>8, <1>9, <1>10, <1>11

\* The row of the new grid comes before its streak.
LEMMA RecordGridInv == ASSUME IInv, RecordGrid PROVE IInv'
<1> USE DEF IInv
<1>1. /\ pc = "arming" /\ todo = {} /\ pc' = "committing"
      /\ grid' = GridRow(job.price, job.spacing, levels, FALSE, FALSE)
      /\ UNCHANGED <<memory, rows, snap, walk, job, todo, filled, ghosts>>
  BY DEF RecordGrid
<1>2. book = rows /\ SnapshotOK
  BY <1>1, AtRest
<1>3. grid' \in GridRows
  BY <1>1 DEF GridRow, GridRows, Jobs, TypeOK
<1> USE <1>1 DEF memory, ghosts
<1>4. TypeOK'
  BY <1>3 DEF TypeOK, PcValues, Rebuilding
<1>5. BookMatchesRows' /\ OneGrid' /\ HoldingsBounded'
  BY <1>2 DEF BookMatchesRows, OneGrid, HoldingsBounded
<1>6. AnchorRow' /\ ObserverJob' /\ RebuildJob' /\ PositiveSells' /\ CappedRungs'
  BY DEF AnchorRow, ObserverJob, RebuildJob, PositiveSells, CappedRungs, Rebuilding
<1>7. SnapshotKept'
  BY <1>2 DEF SnapshotKept, SnapshotOK, Restored, Impossible
<1> QED
  BY <1>4, <1>5, <1>6, <1>7

\* The walk is written when nothing else is under way, and forgotten likewise.
LEMMA WalkInv == ASSUME IInv, DownWalkCommit \/ LinkExpires PROVE IInv'
<1> USE DEF IInv
<1>1. CASE DownWalkDate \/ DownWalkFails
  <2>1. /\ pc \in {"committing", "counted", "placed"} /\ GoTo(job.next)
        /\ walk' \in {walk, [walk EXCEPT !.linked = TRUE, !.dated = TRUE]}
        /\ UNCHANGED <<memory, rows, snap, grid, ghosts>>
    BY <1>1 DEF DownWalkDate, DownWalkFails, database
  <2>2. walk' \in Walks /\ job.next \in Continuations
    BY <2>1 DEF Walks, TypeOK, Jobs
  <2>3. book = rows /\ SnapshotOK
    BY <2>1, AtRest
  <2>4. SnapshotOK'
    BY <2>1, <2>3 DEF SnapshotOK, Restored, Impossible, memory
  <2> QED
    BY <2>1, <2>2, <2>3, <2>4, GoToStep, CalmStep DEF TypeOK, Calm, memory
<1>3. CASE DownWalkCount \/ DownWalkPlace
  <2>1. /\ \/ pc = "committing" /\ pc' = "counted"
           \/ pc = "counted" /\ pc' = "placed"
        /\ UNCHANGED <<memory, rows, snap, grid, job, todo, filled, ghosts>>
    BY <1>3 DEF DownWalkCount, DownWalkPlace
  <2>2. job.streak \in Nat /\ job.price \in Int /\ walk \in Walks
    BY DEF TypeOK, Jobs, Walks
  <2>3. walk' \in Walks /\ (pc' = "placed" => walk'.centre = job.price)
    BY <1>3, <2>2 DEF DownWalkCount, DownWalkPlace, Walks
  <2>4. job.spacing > 0 /\ job.price \in Prices
    BY <2>1 DEF RebuildJob, Rebuilding
  <2> USE <2>1, <2>3, <2>4 DEF memory, ghosts
  <2>5. TypeOK'
    BY DEF TypeOK, Walks, PcValues, Rebuilding
  <2>6. BookMatchesRows' /\ OneGrid' /\ HoldingsBounded'
    BY DEF BookMatchesRows, OneGrid, HoldingsBounded
  <2>7. AnchorRow' /\ ObserverJob' /\ RebuildJob' /\ PositiveSells' /\ CappedRungs'
    BY DEF AnchorRow, ObserverJob, RebuildJob, PositiveSells, CappedRungs, Rebuilding
  <2>8. SnapshotKept'
    BY DEF SnapshotKept, Restored, Impossible
  <2> QED
    BY <2>5, <2>6, <2>7, <2>8
<1>2. CASE LinkExpires
  <2>1. /\ pc = "idle" /\ walk' = [walk EXCEPT !.linked = FALSE]
        /\ UNCHANGED <<memory, rows, snap, grid, control, ghosts>>
    BY <1>2 DEF LinkExpires
  <2>2. walk' \in Walks
    BY <2>1 DEF Walks, TypeOK
  <2>3. job.spacing = 0
    BY <2>1 DEF RebuildJob, Rebuilding
  <2> USE <2>1, <2>2, <2>3 DEF memory, control, ghosts
  <2>4. TypeOK'
    BY DEF TypeOK, Walks
  <2>5. BookMatchesRows' /\ OneGrid' /\ HoldingsBounded'
    BY DEF BookMatchesRows, OneGrid, HoldingsBounded
  <2>6. AnchorRow' /\ ObserverJob' /\ RebuildJob' /\ PositiveSells' /\ CappedRungs'
    BY DEF AnchorRow, ObserverJob, RebuildJob, PositiveSells, CappedRungs, Rebuilding
  <2>7. SnapshotKept'
    BY DEF SnapshotKept, Restored, Impossible
  <2> QED
    BY <2>4, <2>5, <2>6, <2>7
<1> QED
  BY <1>1, <1>2, <1>3 DEF DownWalkCommit

-----------------------------------------------------------------------------
(***************************************************************************)
(* The council cycle.                                                      *)
(***************************************************************************)
\* A step from one calm place to another, or to the cancellation of everything.
LEMMA LeaveCalm ==
    ASSUME IInv, pc \in Calm, UNCHANGED <<book, inv, rows, snap, walk, ghosts>>,
           levels' \in Nat, grid' \in GridRows, job' \in Jobs, todo' = {},
           \/ pc' \in Calm /\ filled' \subseteq Order /\ job'.spacing = 0
           \/ /\ pc' = "cancelling" /\ filled' = {}
              /\ \/ job'.spacing = 0
                 \/ /\ job'.price \in Prices
                    /\ job'.streak = DownWalkAssess(walk, job'.price)
                    /\ job'.capped => inv.xrp >= 2
    PROVE  IInv'
<1>1. book = rows /\ SnapshotOK
  BY AtRest
<1>2. SnapshotOK'
  BY <1>1 DEF SnapshotOK, Restored, Impossible
<1>3. walk' \in Walks
  BY DEF IInv, TypeOK, Walks
<1>4. CASE pc' \in Calm /\ filled' \subseteq Order /\ job'.spacing = 0
  BY <1>1, <1>2, <1>3, <1>4, CalmStep
<1>5. CASE /\ pc' = "cancelling" /\ filled' = {}
           /\ \/ job'.spacing = 0
              \/ /\ job'.price \in Prices
                 /\ job'.streak = DownWalkAssess(walk, job'.price)
                 /\ job'.capped => inv.xrp >= 2
  BY <1>1, <1>5, CancelStep
<1> QED
  BY <1>4, <1>5

\* A rebuild that is begun in a calm place, or refused there.
LEMMA RebuildFromCalm ==
    ASSUME IInv, pc \in Calm, UNCHANGED <<book, inv, rows, snap, walk, ghosts>>,
           levels' \in Nat, grid' \in GridRows,
           NEW j \in Jobs, NEW spacing \in Nat \ {0}, NEW bias \in Nat,
           NEW next \in Continuations, BeginRebuild(j, spacing, bias, next)
    PROVE  IInv'
<1>1. TypeOK
  BY DEF IInv
<1>2. /\ job' \in Jobs /\ todo' = {} /\ filled' = {}
      /\ \/ pc' = next /\ job'.spacing = 0
         \/ /\ pc' = "cancelling" /\ job'.spacing = spacing
            /\ job'.price \in Prices
            /\ job'.streak = DownWalkAssess(walk, job'.price)
            /\ job'.capped => inv.xrp >= 2
  BY <1>1, BeginRebuildStep
<1> QED
  BY <1>2, LeaveCalm DEF Calm

\* A handler that ends in a calm place, with at most a new row of the grid.
LEMMA GoToCalm ==
    ASSUME IInv, pc \in Calm, UNCHANGED <<memory, rows, snap, walk, ghosts>>,
           grid' \in GridRows, NEW p \in Calm, GoTo(p)
    PROVE  IInv'
<1>1. TypeOK /\ levels' \in Nat
  BY DEF IInv, TypeOK, memory
<1>2. /\ pc' = p /\ job' \in Jobs /\ job'.spacing = 0
      /\ todo' = {} /\ filled' = {}
  BY <1>1, GoToStep
<1> QED
  BY <1>1, <1>2, LeaveCalm DEF memory

\* A cancellation of everything that is not a rebuild.
LEMMA CancelAllInv ==
    ASSUME IInv, pc \in Calm, UNCHANGED <<memory, database, ghosts>>,
           NEW next \in Continuations, CancelAll(next)
    PROVE  IInv'
<1>1. levels' \in Nat /\ grid' \in GridRows
  BY DEF IInv, TypeOK, memory, database
<1>2. job' \in Jobs /\ job'.spacing = 0
  BY NoJobType DEF CancelAll, Jobs
<1> QED
  BY <1>1, <1>2, LeaveCalm DEF CancelAll, memory, database

\* The council's decision is taken up, and the level count perhaps switched.
LEMMA DecideInv == ASSUME IInv, Decide \/ KeepLevels \/ SwitchLevels PROVE IInv'
<1>1. TypeOK
  BY DEF IInv
<1>2. CASE Decide
  <2>1. PICK c \in Choices :
          /\ job' = [NoJob EXCEPT !.choice = c, !.next = "applying"]
          /\ pc' = IF c.grid = "HALT" THEN "applying" ELSE "evaluating"
    BY <1>2 DEF Decide
  <2>2. c \in AllChoices
    BY ChoicesAssumption
  <2>3. job' \in Jobs /\ job'.spacing = 0
    BY <2>1, <2>2, NoJobType DEF Jobs, Continuations
  <2>4. /\ pc = "idle" /\ UNCHANGED <<memory, database, todo, filled, ghosts>>
    BY <1>2 DEF Decide
  <2>5. todo' = {} /\ filled' \subseteq Order /\ levels' \in Nat /\ grid' \in GridRows
    BY <1>1, <2>4 DEF TypeOK, memory, database
  <2> QED
    BY <2>1, <2>3, <2>4, <2>5, LeaveCalm DEF Calm, Continuations, memory, database
<1>3. CASE KeepLevels
  <2>1. /\ pc = "evaluating" /\ pc' = "applying"
        /\ UNCHANGED <<memory, database, job, todo, filled, ghosts>>
    BY <1>3 DEF KeepLevels
  <2>2. /\ job' \in Jobs /\ job'.spacing = 0 /\ todo' = {} /\ filled' \subseteq Order
        /\ levels' \in Nat /\ grid' \in GridRows
    BY <1>1, <2>1 DEF IInv, RebuildJob, Rebuilding, TypeOK, memory, database
  <2> QED
    BY <2>1, <2>2, LeaveCalm DEF Calm, Continuations, memory, database
<1>4. CASE SwitchLevels
  <2>1. PICK g \in Geometries :
          /\ levels' = g.levels
          /\ grid' = GridRow(grid.centre, grid.spacing, g.levels, FALSE, FALSE)
    BY <1>4 DEF SwitchLevels
  <2>2. /\ pc = "evaluating" /\ grid.spacing > 0
        /\ BeginRebuild(job, grid.spacing, 100, "applying")
        /\ UNCHANGED <<book, inv, rows, snap, walk, ghosts>>
    BY <1>4 DEF SwitchLevels
  <2>3. levels' \in Nat /\ grid' \in GridRows
    BY <1>1, <2>1, GeometryAssumption DEF GridRow, GridRows, TypeOK
  <2>4. job \in Jobs /\ grid.spacing \in Nat \ {0}
    BY <1>1, <2>2 DEF TypeOK, GridRows
  <2>5. 100 \in Nat /\ "applying" \in Continuations /\ pc \in Calm
    BY <2>2 DEF Calm, Continuations
  <2> QED
    BY <2>2, <2>3, <2>4, <2>5, RebuildFromCalm
<1> QED
  BY <1>2, <1>3, <1>4

\* The decisions that end in a cancellation, or in nothing at all.
LEMMA ApplyInv ==
    ASSUME IInv, \/ GuardrailsFail \/ ApplyHalt \/ ApplyPause \/ RecordPause
                 \/ ApplyWithoutGrid \/ ApplyMaintain \/ IntegrityGuard
    PROVE  IInv'
<1> USE DEF Calm, Continuations
<1>1. TypeOK /\ grid \in GridRows
  BY DEF IInv, TypeOK
<1>2. CASE GuardrailsFail
  BY <1>2, CancelAllInv DEF GuardrailsFail
<1>3. CASE ApplyHalt
  BY <1>3, CancelAllInv DEF ApplyHalt, Applying
<1>4. CASE ApplyPause
  BY <1>4, CancelAllInv DEF ApplyPause, Applying
<1>5. CASE RecordPause
  <2>1. PICK n \in {grid.levels, levels} :
            grid' = GridRow(grid.centre, grid.spacing, n, FALSE, FALSE)
    BY <1>5 DEF RecordPause
  <2>2. grid' \in GridRows
    BY <1>1, <2>1 DEF GridRow, GridRows, TypeOK
  <2> QED
    BY <1>5, <2>2, GoToCalm DEF RecordPause
<1>6. CASE ApplyWithoutGrid
  BY <1>1, <1>6, GoToCalm DEF ApplyWithoutGrid, Steered, Applying, database
<1>7. CASE ApplyMaintain
  BY <1>1, <1>7, GoToCalm DEF ApplyMaintain, Steered, Applying, database
<1>8. CASE IntegrityGuard
  BY <1>1, <1>8, GoToCalm DEF IntegrityGuard, database
<1> QED
  BY <1>2, <1>3, <1>4, <1>5, <1>6, <1>7, <1>8

\* A recentring is guarded, refused for want of a geometry, or begun.
LEMMA RecentreInv == ASSUME IInv, ApplyGuarded \/ ApplyRecentre PROVE IInv'
<1> USE DEF Calm, Continuations
<1>1. TypeOK
  BY DEF IInv
<1>2. pc = "applying"
  BY DEF ApplyGuarded, ApplyRecentre, Recentring, Steered, Applying
<1>3. CASE ApplyGuarded
  <2>1. grid' \in GridRows
    BY <1>1, <1>3 DEF ApplyGuarded, GridRow, GridRows, TypeOK
  <2> QED
    BY <1>2, <1>3, <2>1, GoToCalm DEF ApplyGuarded
<1>4. CASE ApplyRecentre /\ Choice.geometry = NoGeometry
  <2>1. GoTo("syncing") /\ UNCHANGED <<memory, database, ghosts>>
    BY <1>4 DEF ApplyRecentre, memory
  <2>2. grid' \in GridRows
    BY <1>1, <2>1 DEF TypeOK, database
  <2> QED
    BY <1>2, <2>1, <2>2, GoToCalm DEF database
<1>5. CASE ApplyRecentre /\ Choice.geometry # NoGeometry
  <2>1. Choice \in AllChoices
    BY <1>1 DEF Choice, TypeOK, Jobs
  <2>2. Choice.geometry \in Geometries
    BY <1>5, <2>1 DEF AllChoices
  <2>3. /\ Choice.geometry.spacing \in Nat \ {0} /\ Choice.geometry.levels \in Nat
        /\ Choice.geometry.bias \in Nat
    BY <2>2, GeometryAssumption
  <2>4. RiskLeft \in Jobs
    <3>1. [NoChoice EXCEPT !.risk = Choice.risk] \in AllChoices
      <4>1. NoChoice \in AllChoices
        BY NoJobType DEF NoJob, Jobs
      <4> QED
        BY <2>1, <4>1 DEF AllChoices
    <3> QED
      BY <3>1, NoJobType DEF RiskLeft
  <2>5. /\ levels' = Choice.geometry.levels
        /\ BeginRebuild(RiskLeft, Choice.geometry.spacing, Choice.geometry.bias, "risk")
        /\ UNCHANGED <<book, inv, database, ghosts>>
    BY <1>5 DEF ApplyRecentre
  <2>6. UNCHANGED <<book, inv, rows, snap, walk, ghosts>> /\ levels' \in Nat
        /\ grid' \in GridRows
    BY <1>1, <2>3, <2>5 DEF database, TypeOK
  <2>7. pc \in Calm /\ "risk" \in Continuations
    BY <1>2
  <2> HIDE DEF Calm, Continuations
  <2> QED
    BY <2>3, <2>4, <2>5, <2>6, <2>7, RebuildFromCalm
<1> QED
  BY <1>3, <1>4, <1>5

\* A paused side leaves row by row, then its flag is written.
LEMMA RiskInv == ASSUME IInv, CancelPaused \/ RecordRisk PROVE IInv'
<1>1. CASE CancelPaused
  <2> USE DEF IInv
  <2>1. PICK o \in book : rows' = rows \ {o} /\ book' = book \ {o}
    BY <1>1 DEF CancelPaused, Orders
  <2>2. pc = "risk" /\ UNCHANGED <<inv, levels, snap, grid, walk, control, ghosts>>
    BY <1>1 DEF CancelPaused
  <2> USE <2>1, <2>2 DEF control, ghosts
  <2>3. TypeOK'
    BY DEF TypeOK
  <2>4. BookMatchesRows' /\ OneGrid' /\ HoldingsBounded'
    BY DEF BookMatchesRows, OneGrid, HoldingsBounded
  <2>5. AnchorRow' /\ ObserverJob' /\ RebuildJob' /\ PositiveSells' /\ CappedRungs'
    BY DEF AnchorRow, ObserverJob, RebuildJob, PositiveSells, CappedRungs, Rebuilding
  <2>6. SnapshotKept'
    BY DEF SnapshotKept, Restored, Impossible
  <2> QED
    BY <2>3, <2>4, <2>5, <2>6
<1>2. CASE RecordRisk
  <2>1. grid' = [grid EXCEPT !.longs = Choice.risk = "PAUSE_LONGS",
                             !.shorts = Choice.risk = "PAUSE_SHORTS"]
    BY <1>2 DEF RecordRisk
  <2>2. grid \in GridRows
    BY DEF IInv, TypeOK
  <2> DEFINE longs == Choice.risk = "PAUSE_LONGS"
             shorts == Choice.risk = "PAUSE_SHORTS"
  <2>3. longs \in BOOLEAN /\ shorts \in BOOLEAN
    OBVIOUS
  <2>4. grid' = [grid EXCEPT !.longs = longs, !.shorts = shorts]
    BY <2>1
  <2> HIDE DEF longs, shorts
  <2>5. grid' \in GridRows
    BY <2>2, <2>3, <2>4 DEF GridRows
  <2> QED
    BY <1>2, <2>5, GoToCalm DEF RecordRisk, Calm, Continuations
<1> QED
  BY <1>1, <1>2

\* The last step of a council cycle takes the snapshot.
LEMMA SyncInventoryInv == ASSUME IInv, SyncInventory PROVE IInv'
<1>1. /\ pc = "syncing" /\ snap' \in {snap, Snapshot(inv)} /\ GoTo("idle")
      /\ UNCHANGED <<memory, rows, grid, walk, ghosts>>
  BY DEF SyncInventory
<1>2. book = rows /\ SnapshotOK /\ TypeOK
  BY <1>1, AtRest DEF Calm, Continuations, IInv
<1>3. SnapshotOK'
  <2>1. CASE snap' = snap
    BY <1>1, <1>2, <2>1 DEF SnapshotOK, Restored, Impossible, memory
  <2>2. CASE snap' = Snapshot(inv)
    BY <1>1, <1>2, <2>2 DEF SnapshotOK, Restored, Snapshot, memory, TypeOK, Holding
  <2> QED
    BY <1>1, <2>1, <2>2
<1>4. /\ walk' \in Walks /\ levels' \in Nat /\ grid' \in GridRows
  BY <1>1, <1>2 DEF TypeOK, Walks, memory
<1>5. pc' = "idle" /\ job' \in Jobs /\ job'.spacing = 0 /\ todo' = {} /\ filled' = {}
  BY <1>1, <1>2, GoToStep
<1> QED
  BY <1>1, <1>2, <1>3, <1>4, <1>5, CalmStep DEF Calm, Continuations, memory

-----------------------------------------------------------------------------
(***************************************************************************)
(* Startup and the crash.                                                  *)
(***************************************************************************)
\* What is restored is the rows, and the snapshot or its replacement.
LEMMA LoadStateInv == ASSUME IInv, LoadState PROVE IInv'
<1> USE DEF IInv
<1>1. /\ pc = "down" /\ pc' = "booted" /\ book' = rows
      /\ levels' = IF grid.exists THEN grid.levels ELSE DefaultLevels
      /\ UNCHANGED <<rows, grid, walk, job, todo, filled, build>>
  BY DEF LoadState
<1>2. DefaultUsd \in Nat /\ TakerFee \in Nat /\ DefaultLevels \in Nat
      /\ Account \in [xrp : Nat, usd : Nat]
  BY DefaultsAssumption
<1>3. Restored \in Holding /\ Restored.xrp >= 0 /\ Restored.usd >= -TakerFee
  BY <1>2 DEF Restored, Default, Holding, TypeOK, HoldingsBounded
<1>4. \/ inv' = Restored /\ UNCHANGED <<snap, rebased>>
      \/ inv' = Account /\ snap' = Snapshot(Account) /\ rebased' = TRUE
      \/ inv' = Default /\ snap' = snap /\ rebased' = TRUE /\ Impossible(Restored)
  BY DEF LoadState
<1>5. /\ inv' \in Holding /\ inv'.xrp >= 0 /\ inv'.usd >= -TakerFee
      /\ snap' \in [xrp : Int, usd : Int, taken : BOOLEAN]
      /\ snap'.xrp >= 0 /\ snap'.usd >= -TakerFee
      /\ rebased' \in BOOLEAN
      /\ SnapshotOK'
  <2>1. CASE inv' = Restored /\ UNCHANGED <<snap, rebased>>
    BY <1>3, <2>1 DEF TypeOK, HoldingsBounded, SnapshotOK, Restored
  <2>2. CASE inv' = Account /\ snap' = Snapshot(Account) /\ rebased' = TRUE
    BY <1>2, <2>2 DEF Snapshot, SnapshotOK, Restored, Holding
  <2>3. CASE /\ inv' = Default /\ snap' = snap /\ rebased' = TRUE
             /\ Impossible(Restored)
    BY <1>2, <2>3 DEF TypeOK, HoldingsBounded, SnapshotOK, Restored, Impossible,
                      Default, Holding
  <2> QED
    BY <1>4, <2>1, <2>2, <2>3
<1>6. job.spacing = 0 /\ todo = {}
  BY <1>1 DEF RebuildJob, Rebuilding, TypeOK
<1> USE <1>1
<1>7. TypeOK'
  BY <1>2, <1>5 DEF TypeOK, PcValues, GridRows
<1>8. BookMatchesRows' /\ OneGrid' /\ HoldingsBounded'
  BY <1>5 DEF BookMatchesRows, OneGrid, HoldingsBounded
<1>9. AnchorRow' /\ ObserverJob' /\ RebuildJob' /\ PositiveSells' /\ CappedRungs'
  BY <1>6 DEF AnchorRow, ObserverJob, RebuildJob, PositiveSells, CappedRungs, Rebuilding
<1>10. SnapshotKept'
  BY <1>5 DEF SnapshotKept, SnapshotOK
<1> QED
  BY <1>7, <1>8, <1>9, <1>10

\* The boot goes on to its guard, and there keeps the book or rebuilds it.
LEMMA StartupInv == ASSUME IInv, BootObserved \/ KeepBook \/ FirstBoot PROVE IInv'
<1>1. TypeOK /\ grid \in GridRows /\ levels \in Nat
  BY DEF IInv, TypeOK
<1>2. CASE BootObserved
  <2>1. /\ pc = "booted" /\ pc' = "bootguard"
        /\ UNCHANGED <<memory, database, job, todo, filled, ghosts>>
    BY <1>2 DEF BootObserved
  <2>2. /\ job' \in Jobs /\ job'.spacing = 0 /\ todo' = {} /\ filled' \subseteq Order
        /\ levels' \in Nat /\ grid' \in GridRows
    BY <1>1, <2>1 DEF IInv, RebuildJob, Rebuilding, TypeOK, memory, database
  <2> QED
    BY <2>1, <2>2, LeaveCalm DEF Calm, Continuations, memory, database
<1>3. CASE KeepBook
  BY <1>1, <1>3, GoToCalm DEF KeepBook, Calm, Continuations, database
<1>4. CASE FirstBoot
  <2>1. PICK g \in Geometries :
          levels' = g.levels /\ BeginRebuild(NoJob, g.spacing, 100, "idle")
    BY <1>4 DEF FirstBoot
  <2>2. g.spacing \in Nat \ {0} /\ levels' \in Nat
    BY <2>1, GeometryAssumption
  <2>3. pc \in Calm /\ UNCHANGED <<book, inv, rows, snap, walk, ghosts>> /\ grid' \in GridRows
    BY <1>1, <1>4 DEF FirstBoot, Calm, Continuations, database
  <2>4. 100 \in Nat /\ "idle" \in Continuations
    BY DEF Continuations
  <2> QED
    BY <2>1, <2>2, <2>3, <2>4, NoJobType, RebuildFromCalm
<1> QED
  BY <1>2, <1>3, <1>4

\* A crash leaves the database as the last write left it, in one piece.
LEMMA CrashInv == ASSUME IInv, Crash PROVE IInv'
<1> USE DEF IInv
<1>1. /\ pc' = "down" /\ job' = NoJob /\ todo' = {} /\ filled' = {}
      /\ book' = {} /\ inv' = Default /\ levels' = DefaultLevels
      /\ UNCHANGED <<database, ghosts>>
  BY DEF Crash
<1>2. DefaultUsd \in Nat /\ TakerFee \in Nat /\ DefaultLevels \in Nat
  BY DefaultsAssumption
<1> USE <1>1, <1>2 DEF database, ghosts
<1>3. TypeOK'
  BY NoJobType DEF TypeOK, PcValues, Default, Holding
<1>4. BookMatchesRows' /\ OneGrid' /\ HoldingsBounded'
  BY DEF BookMatchesRows, OneGrid, HoldingsBounded, Default
<1>5. AnchorRow' /\ ObserverJob' /\ RebuildJob' /\ PositiveSells' /\ CappedRungs'
  BY NoJobType DEF AnchorRow, ObserverJob, RebuildJob, PositiveSells, CappedRungs,
                   Rebuilding
<1>6. SnapshotKept'
  BY DEF SnapshotKept
<1> QED
  BY <1>3, <1>4, <1>5, <1>6

-----------------------------------------------------------------------------
(***************************************************************************)
(* The inductive invariant and what it implies.                            *)
(***************************************************************************)
\* Nothing rests and nothing runs before the first start.
LEMMA InitInv == Init => IInv
<1> SUFFICES ASSUME Init PROVE IInv
  OBVIOUS
<1> USE DEF Init
<1>1. DefaultUsd \in Nat /\ TakerFee \in Nat /\ DefaultLevels \in Nat
  BY DefaultsAssumption
<1>2. TypeOK
  <2>1. job \in Jobs
    BY NoJobType
  <2>2. inv \in Holding /\ grid \in GridRows
    BY <1>1 DEF Default, Holding, NoGrid, GridRows
  <2>3. /\ snap \in [xrp : Int, usd : Int, taken : BOOLEAN]
        /\ walk \in [streak : Nat, centre : Int, linked : BOOLEAN, dated : BOOLEAN]
    BY DEF NoSnap, NoWalk
  <2> QED
    BY <1>1, <2>1, <2>2, <2>3 DEF TypeOK, PcValues
<1>3. BookMatchesRows /\ OneGrid /\ HoldingsBounded
  BY <1>1 DEF BookMatchesRows, OneGrid, HoldingsBounded, Default, NoSnap
<1>4. AnchorRow /\ ObserverJob /\ RebuildJob /\ PositiveSells /\ CappedRungs
  BY NoJobType DEF AnchorRow, ObserverJob, RebuildJob, PositiveSells, CappedRungs,
                   Rebuilding
<1>5. SnapshotKept
  BY DEF SnapshotKept
<1> QED
  BY <1>2, <1>3, <1>4, <1>5 DEF IInv

\* Every write of every handler keeps it.
LEMMA NextInv == IInv /\ [Next]_vars => IInv'
<1> SUFFICES ASSUME IInv, [Next]_vars PROVE IInv'
  OBVIOUS
<1>1. CASE Observer
  BY <1>1, ObserverTickInv, FillOneInv, PersistFillsInv, ReplaceOneInv, ReplacedAllInv
     DEF Observer
<1>2. CASE Rebuild
  BY <1>2, CancelRowInv, CancelDoneInv, AnchorInv, AnchorFailsInv, MarkAnchorInv,
     PersistAnchorInv, ArmOneInv, RecordGridInv, WalkInv DEF Rebuild, DownWalkCommit
<1>3. CASE MagiCycle
  BY <1>3, DecideInv, ApplyInv, RecentreInv, RiskInv, SyncInventoryInv DEF MagiCycle
<1>4. CASE Startup
  BY <1>4, LoadStateInv, StartupInv DEF Startup
<1>5. CASE LinkExpires \/ Crash
  BY <1>5, WalkInv, CrashInv
<1>6. CASE UNCHANGED vars
  BY <1>6 DEF vars, memory, database, control, ghosts, IInv, TypeOK, BookMatchesRows,
              HoldingsBounded, OneGrid, AnchorRow, ObserverJob, RebuildJob,
              PositiveSells, CappedRungs, SnapshotKept, Restored, Impossible
<1> QED
  BY <1>1, <1>2, <1>3, <1>4, <1>5, <1>6 DEF Next

\* The inductive invariant holds in every state of the engine.
THEOREM EngineInvariant == Spec => []IInv
BY InitInv, NextInv, PTL DEF Spec

\* Types: the book, the rows, the inventory, the configuration and the locals of
\* every handler stay what they are.
THEOREM EngineTypeCorrect == Spec => []TypeOK
<1>1. IInv => TypeOK
  BY DEF IInv
<1> QED
  BY <1>1, EngineInvariant, PTL

\* A restart resumes the very book a crash interrupted: outside a cancellation and
\* an open anchor, memory and database hold the same orders.
THEOREM BookAlwaysMatches == Spec => []BookMatchesRows
<1>1. IInv => BookMatchesRows
  BY DEF IInv
<1> QED
  BY <1>1, EngineInvariant, PTL

\* No fill, anchor, crash or restart takes XRP below zero, or cash below zero by
\* more than one anchor's fee.
THEOREM HoldingsAlwaysBounded == Spec => []HoldingsBounded
<1>1. IInv => HoldingsBounded
  BY DEF IInv
<1> QED
  BY <1>1, EngineInvariant, PTL

\* One grid at a time: no crash between a cancellation and a rebuild leaves orders
\* of two rebuilds open.
THEOREM OneGridAlways == Spec => []OneGrid
<1>1. IInv => OneGrid
  BY DEF IInv
<1> QED
  BY <1>1, EngineInvariant, PTL

\* Between two handlers the snapshot a restart would load is the inventory, or one
\* that load_state refuses.
THEOREM SnapshotAlwaysCurrent == Spec => []SnapshotCurrent
<1>1. IInv => SnapshotCurrent
  BY DEF IInv, SnapshotKept, SnapshotCurrent
<1> QED
  BY <1>1, EngineInvariant, PTL

\* Under the exposure cap a rebuild buys nothing, can pay for its anchor, and has
\* a sell left to place.
THEOREM CappedRebuildAlwaysSells == Spec => []CappedRebuildSells
<1>1. ASSUME IInv, pc \in Rebuilding, job.capped
      PROVE  /\ \A o \in rows \cup todo : o.side = "sell"
             /\ pc = "anchoring" => Affordable(job) /\ AnchorOf(job) = "sell"
             /\ pc = "marked" => PlannedArms(job) # {}
  <2>1. /\ job.spacing > 0 /\ job.spacing \in Nat /\ job.bias \in Int /\ levels \in Int
        /\ job.price \in Nat /\ job.price > 0 /\ TakerFee \in Nat /\ TakerFee <= job.price
    BY <1>1, PricesAssumption, DefaultsAssumption DEF IInv, RebuildJob, TypeOK, Jobs
  <2>2. inv.xrp \in Int /\ inv.usd \in Int /\ inv.usd >= -TakerFee
    BY <1>1 DEF IInv, TypeOK, Holding, HoldingsBounded
  <2>3. \A o \in rows \cup todo : o.side = "sell"
    BY <1>1, <2>1 DEF IInv, CappedRungs
  <2>4. CASE pc = "anchoring"
    <3>1. inv.xrp >= 2
      BY <1>1, <2>1, <2>4 DEF IInv, CappedRungs
    <3>2. inv.xrp * job.price >= 2 * job.price
      BY <2>1, <2>2, <3>1
    <3>3. inv.xrp * job.price \in Int
      BY <2>1, <2>2
    <3>4. inv.xrp * job.price + inv.usd > 0
      BY <2>1, <2>2, <3>2, <3>3
    <3>5. AnchorOf(job) = "sell"
      BY <1>1 DEF AnchorOf, AnchorSide
    <3> QED
      BY <2>2, <2>3, <2>4, <3>1, <3>4, <3>5 DEF Affordable
  <2>5. CASE pc = "marked"
    <3>1. inv.xrp >= 1
      BY <1>1, <2>1, <2>5 DEF IInv, CappedRungs
    <3> DEFINE a == [side |-> "sell", price |-> job.price + job.spacing]
    <3>2. a \in Arms(job.price, job.spacing, levels, job.bias, inv.xrp, inv.usd)
      BY <2>1, <2>2, <3>1, SellArmExists
    <3>3. a \in PlannedArms(job)
      BY <3>2 DEF PlannedArms, Orders
    <3> QED
      BY <2>3, <2>5, <3>3
  <2> QED
    BY <2>3, <2>4, <2>5
<1>2. IInv => CappedRebuildSells
  BY <1>1 DEF CappedRebuildSells
<1> QED
  BY <1>2, EngineInvariant, PTL

\* The engine counts what the cap promises to count: its persisted walk moves only
\* with a rebuild that lands, and then by the rule of the cap, whatever was
\* refused, failed or interrupted before; a crash among the three commits of the
\* walk takes back at most where and when the last rebuild landed.
THEOREM EngineCountsLandedRebuilds == Spec => CapRefinement
<1>1. Init => Cap!Init
  <2> SUFFICES ASSUME Init PROVE Cap!Init
    OBVIOUS
  <2>1. /\ walk.streak = 0 /\ walk.linked = FALSE /\ LastCentre(walk) = 0
        /\ Recording = FALSE
    BY DEF Init, NoWalk, Recording, LastCentre
  <2>2. (Recording \/ walk.linked) = FALSE
    BY <2>1
  <2>3. Cap!Last = [centre |-> 0, linked |-> FALSE]
    BY <2>1, <2>2, Zenon DEF Cap!Last
  <2>4. [centre |-> LastCentre(walk), linked |-> walk.linked]
            = [centre |-> 0, linked |-> FALSE]
    BY <2>1
  <2> QED
    BY <2>1, <2>2, <2>3, <2>4 DEF Cap!Init
<1>2. ASSUME IInv, [Next]_vars
      PROVE  [Cap!Next]_(Cap!cap)
  <2>0. TypeOK /\ RebuildJob
    BY <1>2 DEF IInv
  <2>a. /\ walk.centre \in Int /\ walk.streak \in Nat /\ walk.linked \in BOOLEAN
        /\ walk.dated \in BOOLEAN /\ walk \in Walks
    <3>1. walk \in Walks
      BY <2>0 DEF TypeOK, Walks
    <3> QED
      BY <3>1 DEF Walks
  <2>b. job.price \in Int /\ job.streak \in Nat
    BY <2>0 DEF TypeOK, Jobs
  <2>c. job.next \notin {"counted", "placed"}
    BY <2>0 DEF TypeOK, Jobs, Continuations
  <2>1. CASE DownWalkCount
    <3>1. /\ walk' = [walk EXCEPT !.streak = job.streak] /\ job' = job
          /\ pc = "committing" /\ pc' = "counted"
      BY <2>1 DEF DownWalkCount
    <3>2. job.price \in Prices /\ job.streak = DownWalkAssess(walk, job.price)
      BY <2>0, <3>1 DEF RebuildJob, Rebuilding
    <3>3. /\ ~Recording /\ Recording'
          /\ walk'.streak = job.streak /\ walk'.linked = walk.linked
          /\ LastCentre(walk)' = LastCentre(walk)
      BY <2>a, <3>1 DEF Recording, LastCentre, Walks
    <3>4. /\ 0 # job.price /\ LastCentre(walk) \in Int
      BY <2>a, <3>2, PricesAssumption DEF LastCentre
    <3>5. Cap!Land(job.price)
      BY <2>a, <2>b, <3>1, <3>2, <3>3, <3>4
         DEF Cap!Land, Cap!Last, Cap!Lower, Cap!Level, DownWalkAssess
    <3> QED
      BY <3>2, <3>5 DEF Cap!Next
  <2>2. CASE LinkExpires
    <3>1. /\ walk.linked /\ walk' = [walk EXCEPT !.linked = FALSE]
          /\ pc = "idle" /\ pc' = pc /\ job' = job
      BY <2>2 DEF LinkExpires, control
    <3>2. /\ ~Recording /\ ~Recording' /\ walk'.linked = FALSE
          /\ walk'.streak = walk.streak /\ LastCentre(walk)' = LastCentre(walk)
      BY <2>a, <3>1 DEF Recording, LastCentre, Walks
    <3>3. Cap!Unlink
      BY <3>1, <3>2 DEF Cap!Unlink, Cap!Last
    <3> QED
      BY <3>3 DEF Cap!Next
  <2>4. CASE DownWalkPlace
    <3>1. /\ walk' = [walk EXCEPT !.centre = job.price] /\ job' = job
          /\ pc = "counted" /\ pc' = "placed"
      BY <2>4 DEF DownWalkPlace
    <3>2. /\ Recording /\ Recording' /\ walk'.linked = walk.linked
          /\ walk'.streak = walk.streak
          /\ LastCentre(walk)' \in {LastCentre(walk), job.price}
      BY <2>a, <3>1 DEF Recording, LastCentre, Walks
    <3>3. Cap!Keep \/ UNCHANGED Cap!cap
      BY <3>1, <3>2 DEF Cap!Keep, Cap!Last, Cap!cap
    <3> QED
      BY <3>3 DEF Cap!Next
  <2>5. CASE DownWalkDate
    <3>1. /\ walk' = [walk EXCEPT !.linked = TRUE, !.dated = TRUE]
          /\ pc = "placed" /\ pc' = job.next
      BY <2>5 DEF DownWalkDate, GoTo
    <3>2. walk.centre = job.price
      BY <2>0, <3>1 DEF RebuildJob
    <3>3. /\ Recording /\ ~Recording' /\ walk'.linked = TRUE
          /\ walk'.streak = walk.streak /\ LastCentre(walk)' = job.price
      BY <2>a, <2>c, <3>1, <3>2 DEF Recording, LastCentre, Walks
    <3>4. Cap!Keep
      BY <3>1, <3>3 DEF Cap!Keep, Cap!Last
    <3> QED
      BY <3>4 DEF Cap!Next
  <2>6. CASE walk' = walk /\ ~Recording'
    <3>1. Cap!Lose \/ UNCHANGED Cap!cap
      BY <2>6, <2>a DEF Cap!Lose, Cap!cap, Recording
    <3> QED
      BY <3>1 DEF Cap!Next
  <2>7. CASE UNCHANGED vars
    BY <2>7 DEF vars, control, database, Cap!cap, Recording
  <2>3. CASE Next /\ ~DownWalkCommit /\ ~LinkExpires
    <3> USE DEF Recording
    <3>1. ASSUME Observer PROVE walk' = walk /\ ~Recording'
      BY <2>c, <3>1 DEF Observer, ObserverTick, FillOne, PersistFills, ReplaceOne,
                  ReplacedAll, GoTo, database
    <3>2. ASSUME Rebuild PROVE walk' = walk /\ ~Recording'
      BY <2>3, <2>c, <3>2 DEF Rebuild, DownWalkCommit, CancelRow, CancelDone, Anchor,
                        AnchorFails, MarkAnchor, PersistAnchor, ArmOne, RecordGrid,
                        GoTo, control, database
    <3>3. ASSUME MagiCycle PROVE walk' = walk /\ ~Recording'
      BY <3>3 DEF MagiCycle, GuardrailsFail, Decide, KeepLevels, SwitchLevels, ApplyHalt,
                  ApplyPause, RecordPause, ApplyWithoutGrid, ApplyMaintain, ApplyGuarded,
                  ApplyRecentre, CancelPaused, RecordRisk, IntegrityGuard, SyncInventory,
                  BeginRebuild, CancelAll, GoTo, control, database
    <3>4. ASSUME Startup \/ Crash PROVE walk' = walk /\ ~Recording'
      BY <3>4 DEF Startup, LoadState, BootObserved, KeepBook, FirstBoot, Crash,
                  BeginRebuild, GoTo, database
    <3> QED
      BY <2>3, <2>6, <3>1, <3>2, <3>3, <3>4 DEF Next
  <2>8. CASE DownWalkFails
    <3>1. walk' = walk /\ ~Recording'
      BY <2>8, <2>c DEF DownWalkFails, GoTo, database, Recording
    <3> QED
      BY <2>6, <3>1
  <2> QED
    BY <1>2, <2>1, <2>2, <2>3, <2>4, <2>5, <2>7, <2>8 DEF DownWalkCommit
<1> QED
  BY <1>1, <1>2, EngineInvariant, PTL DEF Spec, CapRefinement, Cap!Spec

-----------------------------------------------------------------------------
(***************************************************************************)
(* Every resting sell is covered by XRP held.                              *)
(*                                                                         *)
(* Between two handlers the book alone would do.  Inside them a buy that   *)
(* filled has yet to be answered by a sell, and an arm that is planned has *)
(* yet to rest: what is pending counts as resting.  Across a crash the     *)
(* rows must be covered by the snapshot a restart would load, and the      *)
(* snapshot may differ from the inventory only while nothing rests, or     *)
(* after load_state has thrown an inventory away.  CoverInv is inductive   *)
(* under IInv.                                                             *)
(***************************************************************************)
\* The orders of one side, counted.
Count(side, os) == Cardinality(Orders(side, os))

\* The sells that are due: an answer to each buy that filled, and the sell arms.
Pending == IF pc \in {"filling", "replacing"} THEN Count("buy", filled)
           ELSE IF pc = "arming" THEN Count("sell", todo) ELSE 0

\* What is counted is finite.
FiniteOrders == /\ IsFiniteSet(book) /\ IsFiniteSet(rows) /\ IsFiniteSet(filled)
                /\ pc = "arming" => IsFiniteSet(Orders("sell", todo))

\* In memory, resting and pending sells are covered by the inventory; in the
\* database, the open ones by the snapshot.
MemoryCover  == ~rebased /\ pc # "down" => Count("sell", book) + Pending <= inv.xrp
DurableCover == ~rebased => Count("sell", rows) <= Restored.xrp

\* A snapshot that is not the inventory is one that load_state refused for the
\* defaults; nothing rests then, unless the book outlived the inventory.
Refreshed == \/ Restored = inv
             \/ /\ Impossible(Restored) /\ inv = Default
                /\ rebased \/ book = {}
SnapshotFresh ==
    /\ pc \notin {"down", "anchored", "marked"} /\ (pc = "filling" => filled = {})
           => Refreshed
    /\ pc \in {"replacing", "arming"} => Restored = inv

CoverInv == FiniteOrders /\ MemoryCover /\ DurableCover /\ SnapshotFresh

-----------------------------------------------------------------------------
(***************************************************************************)
(* Counting orders.                                                        *)
(***************************************************************************)
\* Of fewer orders, no more are on a side.
LEMMA CountSubset ==
    ASSUME NEW side, NEW S, IsFiniteSet(Orders(side, S)), NEW T \in SUBSET S
    PROVE  /\ IsFiniteSet(Orders(side, T))
           /\ Count(side, S) \in Nat /\ Count(side, T) \in Nat
           /\ Count(side, T) <= Count(side, S)
<1>1. Orders(side, T) \in SUBSET Orders(side, S)
  BY DEF Orders
<1> QED
  BY <1>1, FS_Subset, FS_CardinalityType DEF Count

\* Finitely many orders are finitely many on each side.
LEMMA CountFinite ==
    ASSUME NEW side, NEW S, IsFiniteSet(S)
    PROVE  IsFiniteSet(Orders(side, S)) /\ Count(side, S) \in Nat
<1>1. Orders(side, S) \in SUBSET S
  BY DEF Orders
<1> QED
  BY <1>1, FS_Subset, FS_CardinalityType DEF Count

\* No order, no count.
LEMMA CountEmpty == ASSUME NEW side PROVE Count(side, {}) = 0
<1>1. Orders(side, {}) = {}
  BY DEF Orders
<1> QED
  BY <1>1, FS_EmptySet DEF Count

\* One order is counted on its own side.
LEMMA CountSingle ==
    ASSUME NEW side, NEW o
    PROVE  /\ Count(side, {o}) \in {0, 1}
           /\ o.side # side => Count(side, {o}) = 0
<1>1. Orders(side, {o}) = IF o.side = side THEN {o} ELSE {}
  BY DEF Orders
<1> QED
  BY <1>1, FS_EmptySet, FS_Singleton DEF Count

\* An order that leaves is one less on its side, and none less on the other.
LEMMA CountRemove ==
    ASSUME NEW side, NEW S, IsFiniteSet(Orders(side, S)), NEW o \in S
    PROVE  /\ IsFiniteSet(Orders(side, S \ {o}))
           /\ Count(side, S) \in Nat
           /\ Count(side, S \ {o}) = IF o.side = side THEN Count(side, S) - 1
                                     ELSE Count(side, S)
<1>1. CASE o.side = side
  <2>1. Orders(side, S \ {o}) = Orders(side, S) \ {o} /\ o \in Orders(side, S)
    BY <1>1 DEF Orders
  <2> QED
    BY <1>1, <2>1, FS_RemoveElement, FS_CardinalityType DEF Count
<1>2. CASE o.side # side
  <2>1. Orders(side, S \ {o}) = Orders(side, S)
    BY <1>2 DEF Orders
  <2> QED
    BY <1>2, <2>1, FS_CardinalityType DEF Count
<1> QED
  BY <1>1, <1>2

\* An order that comes is at most one more on its side, and none on the other.
LEMMA CountAdd ==
    ASSUME NEW side, NEW S, IsFiniteSet(Orders(side, S)), NEW o
    PROVE  /\ IsFiniteSet(Orders(side, S \cup {o}))
           /\ Count(side, S) \in Nat /\ Count(side, S \cup {o}) \in Nat
           /\ Count(side, S \cup {o}) <= Count(side, S) + 1
           /\ o.side # side => Count(side, S \cup {o}) = Count(side, S)
<1>1. CASE o.side = side
  <2>1. Orders(side, S \cup {o}) = Orders(side, S) \cup {o}
    BY <1>1 DEF Orders
  <2>2. /\ IsFiniteSet(Orders(side, S \cup {o}))
        /\ Count(side, S \cup {o}) \in {Count(side, S), Count(side, S) + 1}
    BY <2>1, FS_AddElement DEF Count
  <2> QED
    BY <1>1, <2>2, FS_CardinalityType DEF Count
<1>2. CASE o.side # side
  <2>1. Orders(side, S \cup {o}) = Orders(side, S)
    BY <1>2 DEF Orders
  <2> QED
    BY <1>2, <2>1, FS_CardinalityType DEF Count
<1> QED
  BY <1>1, <1>2

\* A ladder of sells has no more rungs than the XRP it is built from.
LEMMA SellArmsCovered ==
    ASSUME NEW centre, NEW spacing, NEW n \in Int, NEW xrp \in Nat
    PROVE  /\ IsFiniteSet(SellArms(centre, spacing, n, xrp))
           /\ Cardinality(SellArms(centre, spacing, n, xrp)) <= xrp
<1> DEFINE rungs == {k \in 1..n : k <= xrp}
           arm(i) == [side |-> "sell", price |-> centre + i * spacing]
           arms == {arm(i) : i \in rungs}
           f == [i \in rungs |-> arm(i)]
<1>1. rungs \in SUBSET (1..xrp)
  OBVIOUS
<1>2. IsFiniteSet(1..xrp) /\ Cardinality(1..xrp) = xrp
  BY FS_Interval
<1>3. IsFiniteSet(rungs) /\ Cardinality(rungs) <= xrp
  BY <1>1, <1>2, FS_Subset
<1>4. f \in Surjection(rungs, arms)
  <2> HIDE DEF rungs, arm
  <2> QED
    BY DEF Surjection
<1>5. IsFiniteSet(arms) /\ Cardinality(arms) <= Cardinality(rungs)
  <2> HIDE DEF rungs, arms, f
  <2> QED
    BY <1>3, <1>4, FS_Surjection
<1>6. SellArms(centre, spacing, n, xrp) = arms
  BY DEF SellArms
<1>7. Cardinality(rungs) \in Nat /\ Cardinality(arms) \in Nat
  BY <1>3, <1>5, FS_CardinalityType
<1> HIDE DEF rungs, arms
<1> QED
  BY <1>3, <1>5, <1>6, <1>7

\* The plan of a rebuild sells no more than is held.
LEMMA PlannedSellsCovered ==
    ASSUME IInv, job.spacing > 0
    PROVE  /\ IsFiniteSet(Orders("sell", PlannedArms(job)))
           /\ Count("sell", PlannedArms(job)) \in Nat
           /\ Count("sell", PlannedArms(job)) <= inv.xrp
<1>1. /\ job.price \in Int /\ job.bias \in Int /\ levels \in Int
      /\ inv.xrp \in Int /\ inv.xrp >= 0 /\ inv.usd \in Int
  BY PricesAssumption DEF IInv, RebuildJob, TypeOK, Jobs, Holding, HoldingsBounded
<1> DEFINE ratio == BuyRatio(inv.xrp * job.price, inv.usd)
           n == TargetBuys(levels, ratio, job.bias)
           m == TargetSells(levels, n)
           buys == BuyArms(job.price, job.spacing, n, inv.usd)
           sells == SellArms(job.price, job.spacing, m, inv.xrp)
<1>2. ratio \in Int
  <2>1. inv.xrp * job.price \in Int
    BY <1>1
  <2> QED
    BY <1>1, <2>1, BuyRatioType
<1>3. m \in Int
  BY <1>1, <1>2, TargetTypes
<1>4. IsFiniteSet(sells) /\ Cardinality(sells) <= inv.xrp
  <2>1. inv.xrp \in Nat
    BY <1>1
  <2> HIDE DEF m
  <2> QED
    BY <1>3, <2>1, SellArmsCovered
<1>5. \A a \in buys : a.side # "sell"
  BY DEF BuyArms
<1>6. \A a \in sells : a.side = "sell"
  BY DEF SellArms
<1>7. PlannedArms(job) \subseteq buys \cup sells
  BY DEF PlannedArms, Arms, Orders
<1>8. Orders("sell", PlannedArms(job)) \in SUBSET sells
  <2> HIDE DEF buys, sells
  <2> QED
    BY <1>5, <1>6, <1>7 DEF Orders
<1> HIDE DEF sells
<1>9. Cardinality(sells) \in Nat
  BY <1>4, FS_CardinalityType
<1>10. /\ IsFiniteSet(Orders("sell", PlannedArms(job)))
       /\ Count("sell", PlannedArms(job)) <= Cardinality(sells)
  BY <1>4, <1>8, FS_Subset DEF Count
<1>11. Count("sell", PlannedArms(job)) \in Nat
  BY <1>10, FS_CardinalityType DEF Count
<1> QED
  BY <1>1, <1>4, <1>9, <1>10, <1>11

-----------------------------------------------------------------------------
(***************************************************************************)
(* The steps that book no trade and place no order.                        *)
(***************************************************************************)
\* A step that leaves the book and the inventory alone, takes the snapshot or
\* not, and has nothing pending after it.
LEMMA QuietStep ==
    ASSUME IInv, CoverInv, UNCHANGED <<book, inv, rows, rebased>>,
           pc \notin {"down", "anchored"},
           \/ snap' = snap /\ Refreshed
           \/ snap' = Snapshot(inv),
           pc' \notin {"down", "arming", "replacing"},
           IsFiniteSet(filled'), pc' = "filling" => filled' = {}
    PROVE  CoverInv'
<1> USE DEF CoverInv
<1>1. FiniteOrders'
  BY DEF FiniteOrders
<1>2. /\ Count("sell", book) \in Nat /\ Count("sell", rows) \in Nat
      /\ Count("sell", rows) <= Count("sell", book)
  <2>1. rows \in SUBSET book
    BY DEF IInv, BookMatchesRows
  <2>2. IsFiniteSet(Orders("sell", book))
    BY CountFinite DEF FiniteOrders
  <2> QED
    BY <2>1, <2>2, CountSubset
<1>3. inv.xrp \in Int /\ inv \in Holding
  BY DEF IInv, TypeOK, Holding
<1>4. ~rebased => Count("sell", book) <= inv.xrp
  <2>1. Pending \in Nat
    BY CountFinite, CountSubset DEF Pending, FiniteOrders
  <2> QED
    BY <1>2, <1>3, <2>1 DEF MemoryCover
<1>5. Pending' = 0
  BY CountEmpty DEF Pending
<1>6. MemoryCover'
  BY <1>2, <1>3, <1>4, <1>5 DEF MemoryCover, Count, Orders
<1>7. Refreshed'
  <2>1. CASE snap' = snap /\ Refreshed
    BY <2>1 DEF Refreshed, Restored, Impossible
  <2>2. CASE snap' = Snapshot(inv)
    BY <1>3, <2>2 DEF Refreshed, Restored, Snapshot, Holding
  <2> QED
    BY <2>1, <2>2
<1>8. DurableCover'
  <2>1. CASE snap' = snap
    BY <2>1 DEF DurableCover, Restored, Count, Orders
  <2>2. CASE snap' = Snapshot(inv)
    <3>1. Restored' = inv
      BY <1>3, <2>2 DEF Restored, Snapshot, Holding
    <3> QED
      BY <1>2, <1>3, <1>4, <3>1 DEF DurableCover, Count, Orders
  <2> QED
    BY <2>1, <2>2
<1>9. SnapshotFresh'
  BY <1>7 DEF SnapshotFresh
<1> QED
  BY <1>1, <1>6, <1>8, <1>9

\* Where nothing is being booked the snapshot is fresh.
LEMMA FreshAtRest ==
    ASSUME CoverInv, pc \in Calm \cup {"cancelling", "replacing", "anchoring",
                                       "arming", "committing", "counted", "placed"}
    PROVE  Refreshed /\ pc \notin {"down", "anchored"}
BY DEF CoverInv, SnapshotFresh, Calm, Continuations

\* A handler that goes on somewhere calm books nothing.
LEMMA CoverCalm ==
    ASSUME IInv, CoverInv, UNCHANGED <<book, inv, rows, rebased>>,
           pc \notin {"down", "anchored"},
           \/ snap' = snap /\ Refreshed
           \/ snap' = Snapshot(inv),
           NEW p \in Calm, GoTo(p)
    PROVE  CoverInv'
<1>1. pc' = p /\ filled' = {}
  BY DEF GoTo
<1>2. pc' \notin {"down", "arming", "replacing"}
  BY <1>1 DEF Calm, Continuations
<1> QED
  BY <1>1, <1>2, FS_EmptySet, QuietStep

\* The observer finds orders that are hit, and ends.
LEMMA CoverObserver ==
    ASSUME IInv, CoverInv, ObserverTick \/ ReplacedAll PROVE CoverInv'
<1>1. CASE ObserverTick
  <2>1. /\ pc \in {"idle", "booted"} /\ pc' = "filling" /\ filled' = {}
        /\ UNCHANGED <<memory, database, ghosts>>
    BY <1>1 DEF ObserverTick
  <2>2. Refreshed /\ pc \notin {"down", "anchored"}
    BY <2>1, FreshAtRest DEF Calm, Continuations
  <2> QED
    BY <2>1, <2>2, FS_EmptySet, QuietStep DEF memory, database, ghosts
<1>2. CASE ReplacedAll
  <2>1. /\ pc = "replacing" /\ GoTo(job.next) /\ UNCHANGED <<memory, database, ghosts>>
    BY <1>2 DEF ReplacedAll
  <2>2. Refreshed /\ job.next \in Calm
    BY <2>1, FreshAtRest DEF IInv, TypeOK, Jobs, Calm
  <2> QED
    BY <2>1, <2>2, CoverCalm DEF memory, database, ghosts
<1> QED
  BY <1>1, <1>2

\* A rebuild that is begun or refused has touched nothing yet.
LEMMA CoverRebuild ==
    ASSUME IInv, CoverInv, UNCHANGED <<book, inv, rows, snap, rebased>>, pc \in Calm,
           NEW j, NEW spacing, NEW bias, NEW next \in Continuations,
           BeginRebuild(j, spacing, bias, next)
    PROVE  CoverInv'
<1>1. Refreshed /\ pc \notin {"down", "anchored"}
  BY FreshAtRest
<1>2. pc' \in {next, "cancelling"} /\ filled' = {}
  BY DEF BeginRebuild, GoTo
<1>3. pc' \notin {"down", "arming", "replacing", "filling"}
  BY <1>2 DEF Continuations
<1> QED
  BY <1>1, <1>2, <1>3, FS_EmptySet, QuietStep

\* Nor has a cancellation that is begun.
LEMMA CoverCancelAll ==
    ASSUME IInv, CoverInv, UNCHANGED <<memory, database, ghosts>>, pc \in Calm,
           NEW next, CancelAll(next)
    PROVE  CoverInv'
<1>1. Refreshed /\ pc \notin {"down", "anchored"}
  BY FreshAtRest
<1> QED
  BY <1>1, FS_EmptySet, QuietStep DEF CancelAll, memory, database, ghosts

\* The end of a rebuild, and the walk it leaves.
LEMMA CoverEndRebuild ==
    ASSUME IInv, CoverInv, AnchorFails \/ RecordGrid \/ DownWalkCommit \/ LinkExpires
    PROVE  CoverInv'
<1>1. job.next \in Calm /\ filled \subseteq Order
  BY DEF IInv, TypeOK, Jobs, Calm
<1>2. pc \in {"anchoring", "arming", "committing", "counted", "placed", "idle"}
  BY DEF AnchorFails, RecordGrid, DownWalkCommit, DownWalkCount, DownWalkPlace,
         DownWalkDate, DownWalkFails, LinkExpires
<1>3. Refreshed /\ pc \notin {"down", "anchored"}
  BY <1>2, FreshAtRest DEF Calm, Continuations
<1>4. CASE AnchorFails
  BY <1>1, <1>3, <1>4, CoverCalm DEF AnchorFails, memory, ghosts
<1>5. CASE RecordGrid
  BY <1>3, <1>5, QuietStep DEF RecordGrid, CoverInv, FiniteOrders, memory, ghosts
<1>6. CASE DownWalkDate \/ DownWalkFails
  BY <1>1, <1>3, <1>6, CoverCalm DEF DownWalkDate, DownWalkFails, memory, database, ghosts
<1>8. CASE DownWalkCount \/ DownWalkPlace
  BY <1>3, <1>8, QuietStep
     DEF DownWalkCount, DownWalkPlace, CoverInv, FiniteOrders, memory, ghosts
<1>7. CASE LinkExpires
  BY <1>3, <1>7, QuietStep DEF LinkExpires, CoverInv, FiniteOrders, memory, control, ghosts
<1> QED
  BY <1>4, <1>5, <1>6, <1>7, <1>8 DEF DownWalkCommit

\* The council cycle decides, cancels and writes rows of the grid; only its risk
\* action touches single orders.
LEMMA CoverMagi ==
    ASSUME IInv, CoverInv, MagiCycle, ~CancelPaused
    PROVE  CoverInv'
<1> USE DEF Calm, Continuations
<1>1. IsFiniteSet(filled)
  BY DEF CoverInv, FiniteOrders
<1>2. CASE Decide \/ KeepLevels
  <2>1. /\ pc \in {"idle", "evaluating"} /\ pc' \in {"applying", "evaluating"}
        /\ UNCHANGED <<memory, database, filled, ghosts>>
    BY <1>2 DEF Decide, KeepLevels
  <2>2. Refreshed /\ pc \notin {"down", "anchored"}
    BY <2>1, FreshAtRest
  <2> QED
    BY <1>1, <2>1, <2>2, QuietStep DEF memory, database, ghosts
<1>3. CASE SwitchLevels \/ (ApplyRecentre /\ Choice.geometry # NoGeometry)
  <2>1. pc \in Calm /\ UNCHANGED <<book, inv, rows, snap, rebased>>
    BY <1>3 DEF SwitchLevels, ApplyRecentre, Recentring, Steered, Applying, database, ghosts
  <2>2. \E j, spacing, bias : \E next \in Continuations : BeginRebuild(j, spacing, bias, next)
    BY <1>3 DEF SwitchLevels, ApplyRecentre
  <2> HIDE DEF Calm, Continuations
  <2> QED
    BY <2>1, <2>2, CoverRebuild
<1>4. CASE GuardrailsFail \/ ApplyHalt \/ ApplyPause
  <2>1. /\ pc \in {"idle", "applying"} /\ UNCHANGED <<memory, database, ghosts>>
        /\ \E next : CancelAll(next)
    BY <1>4 DEF GuardrailsFail, ApplyHalt, ApplyPause, Applying
  <2> QED
    BY <2>1, CoverCancelAll
<1>5. CASE \/ RecordPause \/ ApplyWithoutGrid \/ ApplyMaintain \/ ApplyGuarded
           \/ ApplyRecentre /\ Choice.geometry = NoGeometry
           \/ RecordRisk \/ IntegrityGuard
  <2>1. /\ pc \in {"pausing", "applying", "risk", "integrity"}
        /\ UNCHANGED <<book, inv, rows, snap, rebased>>
        /\ \E p \in {"syncing", "risk", "integrity"} : GoTo(p)
    BY <1>5 DEF RecordPause, ApplyWithoutGrid, ApplyMaintain, ApplyGuarded, ApplyRecentre,
                RecordRisk, IntegrityGuard, Recentring, Steered, Applying, memory,
                database, ghosts
  <2>2. Refreshed /\ pc \notin {"down", "anchored"}
    BY <2>1, FreshAtRest
  <2> QED
    BY <2>1, <2>2, CoverCalm
<1>6. CASE SyncInventory
  <2>1. /\ pc = "syncing" /\ snap' \in {snap, Snapshot(inv)} /\ GoTo("idle")
        /\ UNCHANGED <<book, inv, rows, rebased>>
    BY <1>6 DEF SyncInventory, memory, ghosts
  <2>2. Refreshed /\ pc \notin {"down", "anchored"}
    BY <2>1, FreshAtRest
  <2> QED
    BY <2>1, <2>2, CoverCalm
<1> QED
  BY <1>2, <1>3, <1>4, <1>5, <1>6 DEF MagiCycle

-----------------------------------------------------------------------------
(***************************************************************************)
(* The steps that book a trade, place an order or lose the process.        *)
(***************************************************************************)
\* A buy that fills brings the XRP its answer will sell; a sell that fills takes
\* its XRP and its order.
LEMMA CoverFillOne == ASSUME IInv, CoverInv, FillOne PROVE CoverInv'
<1> USE DEF CoverInv
<1>1. PICK o \in todo :
          IF ~Payable(o)
          THEN UNCHANGED <<book, rows, inv, filled>>
          ELSE /\ book' = book \ {o}
               /\ rows' = rows \ {o}
               /\ filled' = filled \cup {o}
               /\ inv' = IF o.side = "buy"
                         THEN [xrp |-> inv.xrp + 1, usd |-> inv.usd - o.price]
                         ELSE [xrp |-> inv.xrp - 1, usd |-> inv.usd + o.price]
  BY DEF FillOne
<1>2. /\ pc = "filling" /\ pc' = "filling" /\ UNCHANGED <<snap, ghosts>>
  BY DEF FillOne
<1>3. /\ o \in book /\ book = rows /\ o \in Order /\ inv.xrp \in Int
  BY <1>2 DEF IInv, TypeOK, ObserverJob, BookMatchesRows, Holding
<1>4. o.side \in {"buy", "sell"}
  BY <1>3 DEF Order, Sides
<1>5. CASE UNCHANGED <<book, rows, inv, filled>>
  BY <1>2, <1>5 DEF FiniteOrders, MemoryCover, DurableCover, SnapshotFresh, Pending,
                    Count, Orders, Refreshed, Restored, Impossible, ghosts
<1>6. CASE Payable(o)
  <2>1. /\ book' = book \ {o} /\ rows' = rows \ {o} /\ filled' = filled \cup {o}
        /\ inv'.xrp = IF o.side = "buy" THEN inv.xrp + 1 ELSE inv.xrp - 1
    BY <1>1, <1>6
  <2>2. FiniteOrders'
    BY <1>2, <2>1, FS_RemoveElement, FS_AddElement DEF FiniteOrders
  <2>3. /\ Count("sell", book) \in Nat
        /\ Count("sell", book') = IF o.side = "sell" THEN Count("sell", book) - 1
                                  ELSE Count("sell", book)
        /\ Count("sell", rows') <= Count("sell", rows)
    BY <1>3, <2>1, CountFinite, CountRemove DEF FiniteOrders
  <2>4. /\ Count("buy", filled) \in Nat /\ Count("buy", filled') \in Nat
        /\ Count("buy", filled') <= Count("buy", filled) + 1
        /\ o.side = "sell" => Count("buy", filled') = Count("buy", filled)
    BY <2>1, CountFinite, CountAdd DEF FiniteOrders
  <2>5. Pending = Count("buy", filled) /\ Pending' = Count("buy", filled')
    BY <1>2 DEF Pending, Count, Orders
  <2>6. MemoryCover'
    <3>1. ~rebased => Count("sell", book) + Count("buy", filled) <= inv.xrp
      BY <1>2, <2>5 DEF MemoryCover
    <3>2. ~rebased => Count("sell", book') + Count("buy", filled') <= inv'.xrp
      BY <1>3, <1>4, <2>1, <2>3, <2>4, <3>1
    <3>3. Count("sell", book)' = Count("sell", book')
      BY DEF Count, Orders
    <3> QED
      BY <1>2, <2>5, <3>2, <3>3 DEF MemoryCover, ghosts
  <2>7. DurableCover'
    <3>1. Restored \in Holding
      BY DefaultsAssumption DEF Restored, Default, Holding, IInv, TypeOK
    <3>2. Count("sell", rows) \in Nat /\ Count("sell", rows') \in Nat
      BY <2>1, <2>2, CountFinite, CountRemove, <1>3 DEF FiniteOrders
    <3>3. Restored' = Restored /\ Count("sell", rows)' = Count("sell", rows')
      BY <1>2 DEF Restored, Count, Orders
    <3> QED
      BY <1>2, <2>3, <3>1, <3>2, <3>3 DEF DurableCover, ghosts, Holding
  <2>8. SnapshotFresh'
    BY <1>2, <2>1 DEF SnapshotFresh
  <2> QED
    BY <2>2, <2>6, <2>7, <2>8
<1> QED
  BY <1>1, <1>5, <1>6

\* The snapshot takes the fills before any is answered.
LEMMA CoverPersistFills == ASSUME IInv, CoverInv, PersistFills PROVE CoverInv'
<1>1. /\ pc = "filling" /\ UNCHANGED <<memory, rows, grid, walk, ghosts>>
  BY DEF PersistFills
<1>2. job.next \in Calm /\ inv \in Holding /\ book = rows
  BY <1>1 DEF IInv, TypeOK, Jobs, Calm, BookMatchesRows
<1>3. CASE GoTo(job.next)
  <2>1. \/ snap' = snap /\ Refreshed
        \/ snap' = Snapshot(inv)
    BY <1>1 DEF PersistFills, CoverInv, SnapshotFresh
  <2> QED
    BY <1>1, <1>2, <1>3, <2>1, CoverCalm DEF memory, ghosts
<1>4. CASE snap' = Snapshot(inv) /\ pc' = "replacing" /\ UNCHANGED filled
  <2> USE <1>1, <1>4 DEF CoverInv, memory, ghosts
  <2>1. Restored' = inv /\ inv' = inv
    BY <1>2 DEF Restored, Snapshot, Holding
  <2>2. FiniteOrders'
    BY DEF FiniteOrders
  <2>3. MemoryCover'
    BY DEF MemoryCover, Pending, Count, Orders
  <2>4. DurableCover'
    <3>1. Count("buy", filled) \in Nat /\ Count("sell", book) \in Nat
      BY CountFinite DEF FiniteOrders
    <3>2. ~rebased => Count("sell", book) + Count("buy", filled) <= inv.xrp
      BY DEF MemoryCover, Pending
    <3>3. inv.xrp \in Int
      BY <1>2 DEF Holding
    <3>4. ~rebased => Count("sell", rows) <= inv.xrp
      BY <1>2, <3>1, <3>2, <3>3
    <3> QED
      BY <2>1, <3>4 DEF DurableCover, Count, Orders
  <2>5. SnapshotFresh'
    BY <2>1 DEF SnapshotFresh, Refreshed
  <2> QED
    BY <2>2, <2>3, <2>4, <2>5
<1> QED
  BY <1>3, <1>4 DEF PersistFills

\* An order that is due and placed, or refused: what is pending covers it.
LEMMA PlacePending ==
    ASSUME IInv, CoverInv, pc \in {"replacing", "arming"}, pc' = pc,
           NEW side \in Sides, NEW price \in Int,
           \/ book' = book /\ rows' = rows
           \/ PlaceOrder(side, price),
           UNCHANGED <<inv, snap, ghosts>>,
           IsFiniteSet(filled'), pc = "arming" => IsFiniteSet(Orders("sell", todo')),
           Pending \in Nat, Pending' = Pending - (IF side = "sell" THEN 1 ELSE 0)
    PROVE  CoverInv'
<1> USE DEF CoverInv, ghosts
<1>1. book = rows /\ Restored = inv /\ inv.xrp \in Int /\ TypeOK
  BY DEF SnapshotFresh, IInv, BookMatchesRows, TypeOK, Holding
<1>2. /\ book' = rows'
      /\ book' = book \/ \E o \in Order : o.side = side /\ book' = book \cup {o}
  <2>1. CASE book' = book /\ rows' = rows
    BY <1>1, <2>1
  <2>2. CASE PlaceOrder(side, price)
    <3>1. \/ book' = book /\ rows' = rows
          \/ \E o \in Order : /\ o.side = side
                              /\ rows' = rows \cup {o} /\ book' = book \cup {o}
      BY <1>1, <2>2, PlaceOrderStep
    <3> QED
      BY <1>1, <3>1
  <2> QED
    BY <2>1, <2>2
<1>3. IsFiniteSet(book')
  <2>1. IsFiniteSet(book)
    BY DEF FiniteOrders
  <2>2. ASSUME NEW o PROVE IsFiniteSet(book \cup {o})
    BY <2>1, FS_AddElement
  <2> QED
    BY <1>2, <2>1, <2>2
<1>4. /\ Count("sell", book) \in Nat /\ Count("sell", book') \in Nat
      /\ Count("sell", book') <= Count("sell", book) + (IF side = "sell" THEN 1 ELSE 0)
  <2>1. IsFiniteSet(Orders("sell", book)) /\ Count("sell", book) \in Nat
    BY CountFinite DEF FiniteOrders
  <2> QED
    BY <1>2, <2>1, CountAdd DEF Sides
<1>5. ~rebased => Count("sell", book') + Pending' <= inv.xrp
  <2>1. ~rebased => Count("sell", book) + Pending <= inv.xrp
    BY DEF MemoryCover
  <2> QED
    BY <1>1, <1>4, <2>1
<1>6. Pending' \in Nat
  <2>1. CASE pc = "replacing"
    <3>1. Pending' = Count("buy", filled')
      BY <2>1 DEF Pending, Count, Orders
    <3> QED
      BY <3>1, CountFinite
  <2>2. CASE pc = "arming"
    <3>1. Pending' = Count("sell", todo')
      BY <2>2 DEF Pending, Count, Orders
    <3> QED
      BY <2>2, <3>1, CountSubset
  <2> QED
    BY <2>1, <2>2
<1>7. Count("sell", book)' = Count("sell", book') /\ Count("sell", rows)' = Count("sell", book')
  BY <1>2 DEF Count, Orders
<1>8. Restored' = inv
  BY <1>1 DEF Restored
<1>9. ~rebased => Count("sell", book') <= inv.xrp
  BY <1>1, <1>4, <1>5, <1>6
<1>10. FiniteOrders'
  BY <1>2, <1>3 DEF FiniteOrders, Orders
<1>11. MemoryCover' /\ DurableCover'
  BY <1>5, <1>7, <1>8, <1>9 DEF MemoryCover, DurableCover
<1>12. SnapshotFresh'
  BY <1>8 DEF SnapshotFresh, Refreshed
<1> QED
  BY <1>10, <1>11, <1>12

\* A replacement sells only what a filled buy brought.
LEMMA CoverReplaceOne == ASSUME IInv, CoverInv, ReplaceOne PROVE CoverInv'
<1>1. PICK o \in filled :
          /\ filled' = filled \ {o}
          /\ IF Abs(job.market - job.price) > 2 * grid.spacing
             THEN UNCHANGED <<book, rows>>
             ELSE PlaceOrder(ReplacementSide(o), ReplacementPrice(o, job))
  BY DEF ReplaceOne
<1>2. /\ pc = "replacing" /\ pc' = pc /\ UNCHANGED <<inv, snap, ghosts>>
  BY DEF ReplaceOne
<1>3. IsFiniteSet(filled) /\ IsFiniteSet(filled')
  BY <1>1, FS_RemoveElement DEF CoverInv, FiniteOrders
<1>4. /\ o.side \in Sides /\ ReplacementSide(o) \in Sides
      /\ ReplacementSide(o) = "sell" <=> o.side = "buy"
  BY DEF IInv, TypeOK, Order, ReplacementSide, Sides
<1>5. ReplacementPrice(o, job) \in Int
  <2>1. grid.spacing \in Nat /\ job.market \in Nat
    BY <1>2, PricesAssumption DEF IInv, TypeOK, GridRows, ObserverJob
  <2> QED
    BY <2>1 DEF ReplacementPrice
<1>6. /\ Pending \in Nat
      /\ Pending' = Pending - (IF ReplacementSide(o) = "sell" THEN 1 ELSE 0)
  <2>1. Pending = Count("buy", filled) /\ Pending' = Count("buy", filled')
    BY <1>2 DEF Pending, Count, Orders
  <2>2. /\ Count("buy", filled) \in Nat
        /\ Count("buy", filled') = IF o.side = "buy" THEN Count("buy", filled) - 1
                                   ELSE Count("buy", filled)
    BY <1>1, <1>3, CountFinite, CountRemove
  <2> QED
    BY <1>4, <2>1, <2>2
<1> QED
  BY <1>1, <1>2, <1>3, <1>4, <1>5, <1>6, PlacePending

\* An arm is one of those the plan covers.
LEMMA CoverArmOne == ASSUME IInv, CoverInv, ArmOne PROVE CoverInv'
<1>1. PICK a \in todo : todo' = todo \ {a} /\ PlaceOrder(a.side, a.price)
  BY DEF ArmOne
<1>2. /\ pc = "arming" /\ pc' = pc /\ UNCHANGED <<inv, snap, filled, ghosts>>
  BY DEF ArmOne
<1>3. IsFiniteSet(Orders("sell", todo)) /\ IsFiniteSet(filled')
  BY <1>2 DEF CoverInv, FiniteOrders
<1>4. a.side \in Sides /\ a.price \in Int
  BY <1>2 DEF IInv, TypeOK, Arm
<1>5. /\ IsFiniteSet(Orders("sell", todo'))
      /\ Count("sell", todo) \in Nat
      /\ Count("sell", todo') = IF a.side = "sell" THEN Count("sell", todo) - 1
                                ELSE Count("sell", todo)
  BY <1>1, <1>3, CountRemove
<1>6. Pending = Count("sell", todo) /\ Pending' = Count("sell", todo')
  BY <1>2 DEF Pending, Count, Orders
<1>7. Pending \in Nat /\ Pending' = Pending - (IF a.side = "sell" THEN 1 ELSE 0)
  BY <1>5, <1>6
<1> QED
  BY <1>1, <1>2, <1>3, <1>4, <1>5, <1>7, PlacePending

\* An arm that is planned is covered by what is held after the anchor.
LEMMA CoverPersistAnchor == ASSUME IInv, CoverInv, PersistAnchor PROVE CoverInv'
<1>1. /\ pc = "marked" /\ snap' = Snapshot(inv)
      /\ UNCHANGED <<memory, rows, grid, walk, ghosts>>
  BY DEF PersistAnchor
<1>2. /\ job.spacing > 0 /\ job.next \in Calm /\ inv \in Holding
      /\ book = {} /\ rows = {}
  BY <1>1 DEF IInv, RebuildJob, Rebuilding, TypeOK, Jobs, Calm, BookMatchesRows
<1>3. CASE GoTo(job.next)
  BY <1>1, <1>2, <1>3, CoverCalm DEF memory, ghosts
<1>4. CASE /\ pc' = "arming" /\ todo' = PlannedArms(job) /\ UNCHANGED <<job, filled>>
  <2> USE <1>1, <1>4 DEF CoverInv, memory, ghosts
  <2>1. Restored' = inv /\ inv' = inv
    BY <1>2 DEF Restored, Snapshot, Holding
  <2>2. /\ IsFiniteSet(Orders("sell", todo'))
        /\ Count("sell", todo') \in Nat /\ Count("sell", todo') <= inv.xrp
    BY <1>2, PlannedSellsCovered
  <2>3. FiniteOrders'
    BY <2>2 DEF FiniteOrders, Orders
  <2>4. /\ Count("sell", book)' = 0 /\ Count("sell", rows)' = 0
        /\ Pending' = Count("sell", todo')
    BY <1>2, CountEmpty DEF Count, Orders, Pending
  <2>5. MemoryCover' /\ DurableCover'
    <3>1. inv.xrp \in Int /\ inv.xrp >= 0
      BY DEF IInv, TypeOK, Holding, HoldingsBounded
    <3> QED
      BY <2>1, <2>2, <2>4, <3>1 DEF MemoryCover, DurableCover
  <2>6. SnapshotFresh'
    BY <2>1 DEF SnapshotFresh, Refreshed
  <2> QED
    BY <2>3, <2>5, <2>6
<1> QED
  BY <1>3, <1>4 DEF PersistAnchor

\* A cancelled row is one less to cover.
LEMMA CoverCancelRow == ASSUME IInv, CoverInv, CancelRow PROVE CoverInv'
<1> USE DEF CoverInv
<1>1. /\ pc = "cancelling"
      /\ UNCHANGED <<memory, snap, grid, walk, control, ghosts>>
  BY DEF CancelRow
<1>2. PICK o \in rows : rows' = rows \ {o}
  BY DEF CancelRow
<1> USE <1>1 DEF memory, control, ghosts
<1>3. IsFiniteSet(rows')
  BY <1>2, FS_RemoveElement DEF FiniteOrders
<1>4. FiniteOrders'
  BY <1>3 DEF FiniteOrders
<1>5. MemoryCover'
  BY DEF MemoryCover, Pending, Count, Orders
<1>6. DurableCover'
  <2>1. Restored \in Holding /\ Restored' = Restored
    BY DefaultsAssumption DEF Restored, Default, Holding, IInv, TypeOK
  <2>2. /\ Count("sell", rows) \in Nat /\ Count("sell", rows') \in Nat
        /\ Count("sell", rows') <= Count("sell", rows)
    BY <1>2, CountFinite, CountSubset DEF FiniteOrders
  <2>3. Count("sell", rows)' = Count("sell", rows')
    BY DEF Count, Orders
  <2> QED
    BY <2>1, <2>2, <2>3 DEF DurableCover, Holding
<1>7. SnapshotFresh'
  BY DEF SnapshotFresh, Refreshed, Restored, Impossible
<1> QED
  BY <1>4, <1>5, <1>6, <1>7

\* With nothing left to cover, the inventory is trusted again; a snapshot that is
\* still refused stands beside an inventory without XRP.
LEMMA CoverCancelDone == ASSUME IInv, CoverInv, CancelDone PROVE CoverInv'
<1> USE DEF CoverInv
<1>1. /\ pc = "cancelling" /\ rows = {} /\ book' = {} /\ rebased' = FALSE
      /\ UNCHANGED <<inv, levels, database>> /\ filled' \in {filled, {}}
  BY DEF CancelDone, AllCancelled, GoTo
<1>2. pc' \in Continuations \cup {"anchoring"}
  BY <1>1 DEF CancelDone, GoTo, IInv, TypeOK, Jobs
<1>3. pc' \notin {"down", "filling", "replacing", "arming"}
  BY <1>2 DEF Continuations
<1> USE <1>1 DEF database
<1>4. FiniteOrders'
  BY <1>3, FS_EmptySet DEF FiniteOrders
<1>5. Count("sell", book)' = 0 /\ Count("sell", rows)' = 0 /\ Pending' = 0
  BY <1>3, CountEmpty DEF Count, Orders, Pending
<1>6. /\ inv.xrp \in Int /\ inv.xrp >= 0
      /\ Restored'.xrp \in Int /\ Restored'.xrp >= 0
  BY DefaultsAssumption DEF IInv, TypeOK, Holding, HoldingsBounded, Restored, Default
<1>7. MemoryCover' /\ DurableCover'
  BY <1>5, <1>6 DEF MemoryCover, DurableCover
<1>8. SnapshotFresh'
  BY <1>3 DEF SnapshotFresh, Refreshed, Restored, Impossible
<1> QED
  BY <1>4, <1>7, <1>8

\* The anchor's row, if it sells, is covered by the snapshot it has yet to change.
LEMMA CoverAnchor == ASSUME IInv, CoverInv, Anchor PROVE CoverInv'
<1> USE DEF CoverInv
<1> DEFINE o == NewOrder(AnchorOf(job), job.price)
<1>1. /\ pc = "anchoring" /\ Affordable(job) /\ filled' = {o} /\ rows' = rows \cup {o}
      /\ pc' = "anchored"
      /\ inv'.xrp = IF AnchorOf(job) = "buy" THEN inv.xrp + 1 ELSE inv.xrp - 1
      /\ UNCHANGED <<book, snap, job, ghosts>>
  BY DEF Anchor
<1>2. book = {} /\ rows = {} /\ o.side = AnchorOf(job)
  BY <1>1 DEF IInv, BookMatchesRows, NewOrder
<1>3. /\ inv.xrp \in Int /\ inv.xrp >= 0 /\ Refreshed
      /\ job.price \in Nat /\ DefaultUsd \in Nat
      /\ job.capped => inv.xrp >= 2
      /\ Restored.xrp \in Int /\ Restored.xrp >= 0
  <2>1. inv.xrp \in Int /\ inv.xrp >= 0 /\ Refreshed
    BY <1>1 DEF IInv, TypeOK, Holding, HoldingsBounded, SnapshotFresh
  <2>2. job.spacing > 0 /\ job.price \in Nat /\ DefaultUsd \in Nat
    BY <1>1, PricesAssumption, DefaultsAssumption DEF IInv, RebuildJob, Rebuilding
  <2>3. job.capped => inv.xrp >= 2
    BY <1>1, <2>2 DEF IInv, CappedRungs
  <2>4. Restored.xrp \in Int /\ Restored.xrp >= 0
    BY DEF IInv, TypeOK, HoldingsBounded, Restored, Default
  <2> QED
    BY <2>1, <2>2, <2>3, <2>4
<1>4. AnchorOf(job) \in {"buy", "sell"}
  BY DEF AnchorOf, AnchorSide
<1>5. AnchorOf(job) = "sell" => inv.xrp >= 1 /\ Restored = inv
  <2> SUFFICES ASSUME AnchorOf(job) = "sell" PROVE inv.xrp >= 1 /\ Restored = inv
    OBVIOUS
  <2>1. inv.xrp >= 1
    BY <1>1, <1>3 DEF Affordable
  <2>2. inv # Default
    BY <1>3, <2>1 DEF Default
  <2> QED
    BY <1>3, <2>1, <2>2 DEF Refreshed
<1>6. FiniteOrders'
  BY <1>1, <1>2, FS_Singleton, FS_EmptySet DEF FiniteOrders
<1>7. MemoryCover'
  <2>1. Count("sell", book)' = 0 /\ Pending' = 0
    BY <1>1, <1>2, CountEmpty DEF Count, Orders, Pending
  <2>2. inv'.xrp \in Int /\ inv'.xrp >= 0
    BY <1>1, <1>3, <1>4, <1>5
  <2> QED
    BY <2>1, <2>2 DEF MemoryCover
<1>8. DurableCover'
  <2>1. Restored' = Restored
    BY <1>1 DEF Restored
  <2>2. Count("sell", rows)' = Count("sell", {o})
    BY <1>1, <1>2 DEF Count, Orders
  <2>3. /\ Count("sell", {o}) \in {0, 1}
        /\ o.side # "sell" => Count("sell", {o}) = 0
    BY CountSingle
  <2> QED
    BY <1>2, <1>3, <1>5, <2>1, <2>2, <2>3 DEF DurableCover
<1>9. SnapshotFresh'
  BY <1>1 DEF SnapshotFresh
<1> QED
  BY <1>6, <1>7, <1>8, <1>9

\* The anchor's row leaves the database.
LEMMA CoverMarkAnchor == ASSUME IInv, CoverInv, MarkAnchor PROVE CoverInv'
<1> USE DEF CoverInv
<1>1. /\ pc = "anchored" /\ rows' = rows \ filled /\ filled' = {} /\ pc' = "marked"
      /\ UNCHANGED <<memory, snap, grid, walk, job, todo, ghosts>>
  BY DEF MarkAnchor
<1>2. rows' = {} /\ book = {}
  BY <1>1 DEF IInv, AnchorRow, BookMatchesRows
<1> USE <1>1, <1>2 DEF memory, ghosts
<1>3. FiniteOrders'
  BY FS_EmptySet DEF FiniteOrders
<1>4. Count("sell", book)' = 0 /\ Count("sell", rows)' = 0 /\ Pending' = 0
  BY CountEmpty DEF Count, Orders, Pending
<1>5. /\ inv.xrp \in Int /\ inv.xrp >= 0 /\ Restored' = Restored
      /\ Restored.xrp \in Int /\ Restored.xrp >= 0
  BY DefaultsAssumption DEF IInv, TypeOK, Holding, HoldingsBounded, Restored, Default
<1>6. MemoryCover' /\ DurableCover'
  BY <1>4, <1>5 DEF MemoryCover, DurableCover
<1>7. SnapshotFresh'
  BY DEF SnapshotFresh
<1> QED
  BY <1>3, <1>6, <1>7

\* The risk action takes orders out of the book and the database alike.
LEMMA CoverCancelPaused == ASSUME IInv, CoverInv, CancelPaused PROVE CoverInv'
<1> USE DEF CoverInv
<1>1. PICK o \in book : rows' = rows \ {o} /\ book' = book \ {o}
  BY DEF CancelPaused, Orders
<1>2. /\ pc = "risk" /\ UNCHANGED <<inv, levels, snap, grid, walk, control, ghosts>>
  BY DEF CancelPaused
<1> USE <1>2 DEF control, ghosts
<1>3. book = rows
  BY DEF IInv, BookMatchesRows
<1>4. IsFiniteSet(book') /\ IsFiniteSet(rows')
  BY <1>1, FS_RemoveElement DEF FiniteOrders
<1>5. FiniteOrders'
  BY <1>4 DEF FiniteOrders
<1>6. /\ Count("sell", book) \in Nat /\ Count("sell", book') \in Nat
      /\ Count("sell", book') <= Count("sell", book)
  BY <1>1, CountFinite, CountSubset DEF FiniteOrders
<1>7. /\ Count("sell", book)' = Count("sell", book')
      /\ Count("sell", rows)' = Count("sell", book')
      /\ Pending = 0 /\ Pending' = 0
  BY <1>1, <1>3 DEF Count, Orders, Pending
<1>8. /\ inv.xrp \in Int /\ Restored' = Restored /\ Restored.xrp \in Int
  BY DefaultsAssumption DEF IInv, TypeOK, Holding, Restored, Default
<1>9. MemoryCover'
  BY <1>6, <1>7, <1>8 DEF MemoryCover
<1>10. DurableCover'
  BY <1>3, <1>6, <1>7, <1>8 DEF DurableCover
<1>11. SnapshotFresh'
  BY <1>1 DEF SnapshotFresh, Refreshed, Restored, Impossible
<1> QED
  BY <1>5, <1>9, <1>10, <1>11

\* A restart restores a covered book, or says that it did not.
LEMMA CoverLoadState == ASSUME IInv, CoverInv, LoadState PROVE CoverInv'
<1> USE DEF CoverInv
<1>1. /\ pc = "down" /\ pc' = "booted" /\ book' = rows
      /\ UNCHANGED <<rows, grid, walk, job, todo, filled, build>>
  BY DEF LoadState
<1>2. \/ inv' = Restored /\ UNCHANGED <<snap, rebased>>
      \/ rebased' = TRUE /\ inv' = Account /\ snap' = Snapshot(Account)
      \/ rebased' = TRUE /\ inv' = Default /\ snap' = snap /\ Impossible(Restored)
  BY DEF LoadState
<1> USE <1>1
<1>3. FiniteOrders'
  BY DEF FiniteOrders
<1>4. Pending' = 0 /\ Count("sell", rows) \in Nat
  BY CountFinite DEF Pending, FiniteOrders
<1>5. MemoryCover' /\ DurableCover'
  <2>1. CASE inv' = Restored /\ UNCHANGED <<snap, rebased>>
    <3>1. /\ Restored' = Restored
          /\ Count("sell", book)' = Count("sell", rows)
          /\ Count("sell", rows)' = Count("sell", rows)
      BY <2>1 DEF Restored, Count, Orders
    <3> QED
      BY <1>4, <2>1, <3>1 DEF MemoryCover, DurableCover
  <2>2. CASE rebased' = TRUE
    BY <2>2 DEF MemoryCover, DurableCover
  <2> QED
    BY <1>2, <2>1, <2>2
<1>6. Refreshed'
  <2>1. Account \in [xrp : Nat, usd : Nat]
    BY DefaultsAssumption
  <2> QED
    BY <1>2, <2>1 DEF Refreshed, Restored, Impossible, Snapshot, Default
<1>7. SnapshotFresh'
  BY <1>6 DEF SnapshotFresh
<1> QED
  BY <1>3, <1>5, <1>7

\* The rest of the startup is calm.
LEMMA CoverStartup ==
    ASSUME IInv, CoverInv, BootObserved \/ KeepBook \/ FirstBoot PROVE CoverInv'
<1> USE DEF Calm, Continuations
<1>1. pc \in {"booted", "bootguard"}
  BY DEF BootObserved, KeepBook, FirstBoot
<1>2. Refreshed /\ pc \notin {"down", "anchored"}
  BY <1>1, FreshAtRest
<1>3. CASE BootObserved
  BY <1>2, <1>3, QuietStep DEF BootObserved, CoverInv, FiniteOrders, memory, database,
                               ghosts
<1>4. CASE KeepBook
  BY <1>2, <1>4, CoverCalm DEF KeepBook, memory, database, ghosts
<1>5. CASE FirstBoot
  BY <1>1, <1>5, CoverRebuild DEF FirstBoot, database, ghosts
<1> QED
  BY <1>3, <1>4, <1>5

\* A crash leaves rows that the snapshot covers.
LEMMA CoverCrash == ASSUME IInv, CoverInv, Crash PROVE CoverInv'
<1> USE DEF CoverInv
<1>1. /\ pc' = "down" /\ filled' = {} /\ book' = {} /\ UNCHANGED <<database, ghosts>>
  BY DEF Crash
<1> USE <1>1 DEF database, ghosts
<1>2. FiniteOrders'
  BY FS_EmptySet DEF FiniteOrders
<1>3. MemoryCover' /\ SnapshotFresh'
  BY DEF MemoryCover, SnapshotFresh
<1>4. DurableCover'
  BY DEF DurableCover, Restored, Count, Orders
<1> QED
  BY <1>2, <1>3, <1>4

-----------------------------------------------------------------------------
\* Nothing rests before the first start.
LEMMA CoverInit == Init => CoverInv
<1> SUFFICES ASSUME Init PROVE CoverInv
  OBVIOUS
<1> USE DEF Init
<1>1. FiniteOrders
  BY FS_EmptySet DEF FiniteOrders
<1>2. Count("sell", rows) = 0 /\ Restored.xrp = 0
  BY CountEmpty DEF Restored, NoSnap, Default
<1> QED
  BY <1>1, <1>2 DEF CoverInv, MemoryCover, DurableCover, SnapshotFresh

\* Every write of every handler keeps the sells covered.
LEMMA CoverNext == IInv /\ CoverInv /\ [Next]_vars => CoverInv'
<1> SUFFICES ASSUME IInv, CoverInv, [Next]_vars PROVE CoverInv'
  OBVIOUS
<1>1. CASE Observer
  BY <1>1, CoverObserver, CoverFillOne, CoverPersistFills, CoverReplaceOne DEF Observer
<1>2. CASE Rebuild
  BY <1>2, CoverCancelRow, CoverCancelDone, CoverAnchor, CoverMarkAnchor,
     CoverPersistAnchor, CoverArmOne, CoverEndRebuild
     DEF Rebuild, DownWalkCommit
<1>3. CASE MagiCycle
  BY <1>3, CoverMagi, CoverCancelPaused
<1>4. CASE Startup
  BY <1>4, CoverLoadState, CoverStartup DEF Startup
<1>5. CASE LinkExpires \/ Crash
  BY <1>5, CoverEndRebuild, CoverCrash
<1>6. CASE UNCHANGED vars
  BY <1>6 DEF vars, memory, database, control, ghosts, CoverInv, FiniteOrders,
              MemoryCover, DurableCover, SnapshotFresh, Pending, Refreshed, Restored,
              Impossible, Count, Orders
<1> QED
  BY <1>1, <1>2, <1>3, <1>4, <1>5, <1>6 DEF Next

\* Every resting sell is covered by XRP held, across fills, replacements, rebuilds,
\* crashes and restarts, until load_state throws an inventory away.
THEOREM SellsAlwaysCovered == Spec => []SellsCovered
<1>1. IInv /\ CoverInv => SellsCovered
  <2> SUFFICES ASSUME IInv, CoverInv, pc = "idle", ~rebased
               PROVE  Cardinality(Orders("sell", book)) <= inv.xrp
    BY DEF SellsCovered
  <2>1. Count("sell", book) \in Nat /\ inv.xrp \in Int
    BY CountFinite DEF CoverInv, FiniteOrders, IInv, TypeOK, Holding
  <2> QED
    BY <2>1 DEF CoverInv, MemoryCover, Pending, Count
<1>2. Spec => []CoverInv
  BY EngineInvariant, CoverInit, CoverNext, PTL DEF Spec
<1> QED
  BY <1>1, <1>2, EngineInvariant, PTL

\* What a restart would load covers what it would restore: a crash between any two
\* writes leaves no more sells open than the snapshot holds XRP.
THEOREM RestartAlwaysCovered == Spec => []DurableCover
<1>1. CoverInv => DurableCover
  BY DEF CoverInv
<1> QED
  BY <1>1, EngineInvariant, CoverInit, CoverNext, PTL DEF Spec
=============================================================================

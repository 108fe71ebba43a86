--------------------------- MODULE LiveBookProofs ---------------------------
(***************************************************************************)
(* One council cycle at a time loses sight of no resting order and builds  *)
(* one grid: for every set of orders and arms, any order of fills,         *)
(* expiries and reconciliations, and any number of restarts.               *)
(***************************************************************************)
EXTENDS LiveBook, WellFoundedInduction, TLAPS

\* No two threads run cycles: the IPC thread stays out of the main loop's.
Alone == \A t, u \in Cyclers : t = u

States == {"none", "open", "filled", "cancelled"}
Places == {"idle", "listed", "marking", "pauseBuys", "pauseSells",
           "anchor", "polling", "anchored", "ladder", "sync", "syncing"}

\* Resting orders whose last call confirmed the record.
Sure == Open \ doubts

\* The inductive invariant: what is sure is in the book and in the table, a
\* cancellation knows all that rests, and a rebuild starts from an empty book.
BookInv ==
    /\ ex \in [Orders -> States] /\ row \in [Orders -> States]
    /\ pc \in [Cyclers -> Places]
    /\ listed \in [Cyclers -> SUBSET Orders] /\ built \in [Cyclers -> SUBSET Orders]
    /\ book \subseteq Orders /\ mine \subseteq Orders
    /\ news \subseteq Orders /\ \A o \in news : Closed(o)
    /\ Sure \subseteq book
    /\ \A o \in Sure : row[o] = "open"
    /\ \A t \in Cyclers :
          /\ pc[t] = "listed" => Open \subseteq listed[t]
          /\ pc[t] = "marking" => Sure = {}
          /\ pc[t] \in {"anchor", "polling", "anchored"} => book = {}
          /\ pc[t] = "ladder" => book \subseteq built[t]

\* Every cycle's plan is one of the three that Onward knows.
Planned == plan \in [Cyclers -> DOMAIN Onward]

LEMMA LeastMember == ASSUME NEW S, S \subseteq Nat, S # {} PROVE Least(S) \in S
<1>1. PICK x \in S : \A y \in S : ~(<<y, x>> \in OpToRel(<, Nat))
    BY WFMin, NatLessThanWellFounded
<1>2. \A y \in S : x <= y
    <2> SUFFICES ASSUME NEW y \in S PROVE x <= y
        OBVIOUS
    <2>1. ~(y < x) BY <1>1 DEF OpToRel
    <2>2. QED BY <2>1
<1>3. QED BY <1>2 DEF Least

\* A new order is one the exchange has not given out yet.
LEMMA NewOrderFresh == ASSUME NEW o \in NewOrders PROVE o \in Orders /\ ex[o] = "none"
<1>1. PICK side \in {Buys, Sells} : LET T == {p \in side : ex[p] = "none"}
                                    IN  T # {} /\ o = Least(T)
    BY DEF NewOrders
<1> DEFINE T == {p \in side : ex[p] = "none"}
<1>2. T \subseteq Nat /\ T # {} BY <1>1, LiveAssumption
<1>3. o \in T BY <1>1, <1>2, LeastMember
<1>4. QED BY <1>3 DEF Orders

LEMMA BookInitial == Init => BookInv /\ Planned
<1> SUFFICES ASSUME Init PROVE BookInv /\ Planned
    OBVIOUS
<1>1. BookInv BY LiveAssumption DEF Init, BookInv, Sure, Open, States, Places
<1>2. Planned BY DEF Init, Planned, Onward
<1>3. QED BY <1>1, <1>2

\* Orders close, nothing else moves.
LEMMA ClosingStep ==
    ASSUME BookInv, ex' \in [Orders -> States], Open' \subseteq Open,
           \A o \in Orders : Closed(o) => Closed(o)', Sure' \subseteq Sure,
           UNCHANGED <<row, book, pc, listed, built, mine, news>>
    PROVE  BookInv'
BY DEF BookInv

\* The exchange and the record stand while one cycle moves on to a place that
\* asks nothing of them.
LEMMA MovingStep ==
    ASSUME BookInv, NEW t \in Cyclers,
           NEW w \in {"idle", "sync", "syncing"} \cup Pausings, Goto(t, w),
           UNCHANGED <<ex, doubts, row, book, listed, mine, news>>,
           built' \in [Cyclers -> SUBSET Orders],
           \A u \in Cyclers : u # t => built'[u] = built[u]
    PROVE  BookInv'
<1> USE DEF BookInv, Goto
<1>1. pc' = [pc EXCEPT ![t] = w] /\ pc' \in [Cyclers -> Places] BY DEF Places, Pausings
<1>2. Open' = Open /\ Sure' = Sure BY DEF Open, Sure
<1>3. \A o \in news' : Closed(o)' BY DEF Closed
<1>4. \A u \in Cyclers : (pc'[u] = pc[u] /\ u # t) \/ pc'[u] = w BY <1>1
<1>5. QED BY <1>1, <1>2, <1>3, <1>4 DEF Pausings

\* The exchange, the record and the cycles all stand.
LEMMA StandingStep ==
    ASSUME BookInv, UNCHANGED <<ex, doubts, row, book, pc, listed, built>>,
           mine' \subseteq Orders, news' \subseteq Orders, \A o \in news' : Closed(o)
    PROVE  BookInv'
<1>1. Open' = Open /\ Sure' = Sure BY DEF Open, Sure
<1>2. \A o \in news' : Closed(o)' BY DEF Closed
<1>3. QED BY <1>1, <1>2 DEF BookInv

-----------------------------------------------------------------------------
(***************************************************************************)
(* The exchange, and the fill reconciliation.                              *)
(***************************************************************************)
LEMMA KrakenStep == BookInv /\ Kraken => BookInv'
<1> SUFFICES ASSUME BookInv, NEW o \in Orders, Fill(o) \/ Expire(o) \/ Age(o)
             PROVE  BookInv'
    BY DEF Kraken
<1>1. CASE Fill(o) \/ Expire(o)
    <2>1. PICK end \in {"filled", "cancelled"} : ex' = [ex EXCEPT ![o] = end]
        BY <1>1 DEF Fill, Expire
    <2>2. ex[o] = "open" /\ doubts' = doubts \ {o} BY <1>1 DEF Fill, Expire
    <2>3. /\ ex' \in [Orders -> States] /\ ex'[o] = end
          /\ \A p \in Orders : p # o => ex'[p] = ex[p]
        BY <2>1 DEF BookInv, States
    <2>4. Open' \subseteq Open /\ Sure' \subseteq Sure BY <2>2, <2>3 DEF Open, Sure
    <2>5. \A p \in Orders : Closed(p) => Closed(p)' BY <2>2, <2>3 DEF Closed
    <2>6. UNCHANGED <<row, book, pc, listed, built, mine, news>>
        BY <1>1 DEF Fill, Expire, engine, cycle, observer
    <2>7. QED BY <2>3, <2>4, <2>5, <2>6, ClosingStep
<1>2. CASE Age(o)
    BY <1>2, StandingStep DEF Age, engine, cycle, observer, BookInv
<1>3. QED BY <1>1, <1>2

LEMMA ObservingStep == BookInv /\ Observing => BookInv'
<1> SUFFICES ASSUME BookInv, Observing PROVE BookInv'
    OBVIOUS
<1>1. CASE ReadBook
    BY <1>1, StandingStep DEF ReadBook, exchange, engine, cycle, BookInv
<1>2. CASE AskClosed
    <2>1. news' = {o \in mine : Closed(o) /\ o \notin aged} BY <1>2 DEF AskClosed
    <2>2. \A o \in news' : Closed(o) BY <2>1
    <2>3. news' \subseteq Orders /\ mine' \subseteq Orders
        BY <1>2, <2>1 DEF AskClosed, BookInv
    <2>4. QED BY <1>2, <2>2, <2>3, StandingStep DEF AskClosed, exchange, engine, cycle
<1>3. CASE AskFailed
    BY <1>3, StandingStep DEF AskFailed, exchange, engine, cycle, BookInv
<1>4. CASE SettleOrder
    <2> DEFINE o == Least(news)
    <2>1. o \in news
        <3>1. news # {} BY <1>4 DEF SettleOrder
        <3>2. news \subseteq Nat BY LiveAssumption DEF BookInv, Orders
        <3>3. QED BY <3>1, <3>2, LeastMember
    <2>2. /\ book' = book \ {o} /\ row' = [row EXCEPT ![o] = ex[o]]
          /\ news' = news \ {o}
          /\ UNCHANGED <<ex, doubts, pc, listed, built, mine>>
        BY <1>4 DEF SettleOrder, exchange, cycle
    <2> HIDE DEF o
    <2>3. Open' = Open /\ Sure' = Sure BY <2>2 DEF Open, Sure
    <2>4. o \in Orders /\ o \notin Sure BY <2>1 DEF BookInv, Closed, Sure, Open
    <2>5. row' \in [Orders -> States] /\ \A p \in Sure : row'[p] = row[p]
        BY <2>2, <2>4 DEF BookInv, Sure, Open
    <2>6. Sure' \subseteq book' BY <2>2, <2>3, <2>4 DEF BookInv
    <2>7. \A p \in news' : Closed(p)' BY <2>2 DEF BookInv, Closed
    <2>8. \A p \in Sure' : row'[p] = "open" BY <2>3, <2>5 DEF BookInv
    <2>9. \A t \in Cyclers :
              /\ pc'[t] = "listed" => Open' \subseteq listed'[t]
              /\ pc'[t] = "marking" => Sure' = {}
              /\ pc'[t] \in {"anchor", "polling", "anchored"} => book' = {}
              /\ pc'[t] = "ladder" => book' \subseteq built'[t]
        BY <2>2, <2>3 DEF BookInv
    <2>10. QED BY <2>2, <2>5, <2>6, <2>7, <2>8, <2>9 DEF BookInv
<1>5. CASE Settled BY <1>5, StandingStep DEF Settled, exchange, engine, cycle, BookInv
<1>6. CASE CountFunds BY <1>6, StandingStep DEF CountFunds, exchange, cycle, BookInv
<1>7. QED BY <1>1, <1>2, <1>3, <1>4, <1>5, <1>6 DEF Observing

-----------------------------------------------------------------------------
(***************************************************************************)
(* The council cycle.                                                      *)
(***************************************************************************)
\* What a cycle leaves behind wherever it goes next, when it is the only one.
LEMMA AloneStep ==
    ASSUME Alone, BookInv, NEW t \in Cyclers, NEW w \in Places, Goto(t, w),
           ex' \in [Orders -> States], row' \in [Orders -> States],
           listed' \in [Cyclers -> SUBSET Orders], built' \in [Cyclers -> SUBSET Orders],
           book' \subseteq Orders, mine' = mine, news' = news,
           \A o \in news : ex'[o] = ex[o],
           \A o \in Sure' : o \in book' /\ row'[o] = "open",
           w = "listed" => Open' \subseteq listed'[t],
           w = "marking" => Sure' = {},
           w \in {"anchor", "polling", "anchored"} => book' = {},
           w = "ladder" => book' \subseteq built'[t]
    PROVE  BookInv'
<1>1. \A u \in Cyclers : u = t BY DEF Alone
<1>2. pc' = [pc EXCEPT ![t] = w] BY DEF Goto
<1>3. pc' \in [Cyclers -> Places] BY <1>2 DEF BookInv
<1>4. pc'[t] = w BY <1>2 DEF BookInv
<1>5. \A o \in news' : Closed(o)' BY DEF BookInv, Closed
<1>6. QED BY <1>1, <1>3, <1>4, <1>5 DEF BookInv

\* A batch leaves no order of it both open and sure.
LEMMA CancelledLeaves ==
    ASSUME BookInv, NEW batch \in SUBSET Orders, NEW done \in SUBSET Orders,
           Cancelled(batch, done)
    PROVE  /\ ex' \in [Orders -> States]
           /\ \A o \in Orders : ex[o] # "open" => ex'[o] = ex[o]
           /\ Sure' \subseteq Sure \ batch
<1>1. /\ done \subseteq batch \cap Open
      /\ ex' = [o \in Orders |-> IF o \in done THEN "cancelled" ELSE ex[o]]
      /\ doubts' = (doubts \ batch) \cup ((batch \cap Open) \ done)
    BY DEF Cancelled
<1>2. ex' \in [Orders -> States] BY <1>1 DEF BookInv, States
<1>3. \A o \in Orders : ex[o] # "open" => ex'[o] = ex[o] BY <1>1 DEF Open
<1>4. \A o \in Orders : o \in Open' => o \in Open /\ o \notin done
    BY <1>1, <1>2 DEF Open
<1>5. Sure' \subseteq Sure \ batch BY <1>1, <1>4 DEF Sure, Open
<1>6. QED BY <1>2, <1>3, <1>5 DEF Closed

LEMMA CancellingStep ==
    ASSUME Alone, BookInv, Planned, NEW t \in Cyclers, Cancelling(t) PROVE BookInv'
<1> USE DEF BookInv
<1>1. ASSUME NEW p \in DOMAIN Onward, CancelAll(t, p) PROVE BookInv'
    <2>1. UNCHANGED <<ex, row, book, built, mine, news>>
        BY <1>1 DEF CancelAll, exchange, engine, observer
    <2>2. CASE Goto(t, "listed") /\ listed' = [listed EXCEPT ![t] = Open] /\ doubts' = doubts
        <3>1. Open \in SUBSET Orders /\ Open' = Open /\ Sure' = Sure
            BY <2>1, <2>2 DEF Open, Sure
        <3>2. listed' \in [Cyclers -> SUBSET Orders] /\ listed'[t] = Open
            BY <2>2, <3>1
        <3>3. QED BY <2>1, <2>2, <3>1, <3>2, AloneStep DEF Places
    <2>3. CASE StartMarking(t) /\ doubts' = doubts \cup Open /\ listed' = listed
        <3>1. Goto(t, "marking") BY <2>3 DEF StartMarking
        <3>2. Sure' = {} BY <2>1, <2>3 DEF Sure, Open
        <3>3. QED BY <2>1, <2>3, <3>1, <3>2, AloneStep DEF Places
    <2>4. QED BY <1>1, <2>2, <2>3 DEF CancelAll
<1>2. CASE SendCancel(t)
    <2>1. PICK done \in SUBSET listed[t] : Cancelled(listed[t], done)
        BY <1>2 DEF SendCancel
    <2>2. /\ pc[t] = "listed" /\ Goto(t, "marking")
          /\ listed' = [listed EXCEPT ![t] = {}]
          /\ UNCHANGED <<row, book, built, mine, news>>
        BY <1>2 DEF SendCancel, StartMarking, engine, observer
    <2>3. listed[t] \in SUBSET Orders /\ done \in SUBSET Orders BY <2>1
    <2>4. /\ ex' \in [Orders -> States] /\ Sure' \subseteq Sure \ listed[t]
          /\ \A o \in Orders : ex[o] # "open" => ex'[o] = ex[o]
        BY <2>1, <2>3, CancelledLeaves
    <2>5. Sure' = {} BY <2>2, <2>4 DEF Sure
    <2>6. \A o \in news : ex'[o] = ex[o] BY <2>4 DEF Closed
    <2>7. listed' \in [Cyclers -> SUBSET Orders] BY <2>2
    <2>8. QED BY <2>2, <2>4, <2>5, <2>6, <2>7, AloneStep DEF Places
<1>3. CASE MarkCancelled(t)
    <2> DEFINE o == Least(todo[t])
    <2>1. /\ pc[t] = "marking"
          /\ row' = IF o \in book THEN [row EXCEPT ![o] = "cancelled"] ELSE row
          /\ UNCHANGED <<ex, doubts, book, pc, listed, built, mine, news>>
        BY <1>3 DEF MarkCancelled, exchange, observer
    <2> HIDE DEF o
    <2>2. row' \in [Orders -> States] BY <2>1 DEF States
    <2>3. Open' = Open /\ Sure' = Sure /\ Sure = {} BY <2>1 DEF Open, Sure
    <2>4. \A n \in news' : Closed(n)' BY <2>1 DEF Closed
    <2>5. QED BY <2>1, <2>2, <2>3, <2>4
<1>4. CASE ClearBook(t)
    <2>1. /\ pc[t] = "marking" /\ book' = {}
          /\ UNCHANGED <<ex, doubts, row, listed, built, mine, news>>
        BY <1>4 DEF ClearBook, exchange, observer
    <2>2. Sure' = {} BY <2>1 DEF Sure, Open
    <2>3. PICK w \in {"anchor", "sync", "idle"} : Goto(t, w)
        BY <1>4 DEF ClearBook, Planned, Onward
    <2>4. QED BY <2>1, <2>2, <2>3, AloneStep DEF Places
<1>5. QED BY <1>1, <1>2, <1>3, <1>4 DEF Cancelling

LEMMA PausingStep ==
    ASSUME Alone, BookInv, NEW t \in Cyclers, Pausing(t) PROVE BookInv'
<1> USE DEF BookInv
<1>1. ASSUME NEW side \in {Buys, Sells}, Pause(t, side) PROVE BookInv'
    <2>1. UNCHANGED <<ex, doubts, row, book, listed, built, mine, news>>
        BY <1>1 DEF Pause, exchange, engine, observer
    <2>2. PICK w \in Pausings : Goto(t, w) BY <1>1 DEF Pause, Pausings
    <2>3. QED BY <2>1, <2>2, MovingStep
<1>3. CASE MarkPaused(t)
    <2> DEFINE o == Least(todo[t])
    <2>1. /\ pc[t] \in Pausings
          /\ row' = IF o \in book THEN [row EXCEPT ![o] = "cancelled"] ELSE row
          /\ book' = book \ {o} /\ doubts' = doubts \cup ({o} \cap Open)
          /\ UNCHANGED <<ex, pc, listed, built, mine, news>>
        BY <1>3 DEF MarkPaused, exchange, observer
    <2> HIDE DEF o
    <2>2. PICK w \in Pausings : Goto(t, w) BY <2>1 DEF Goto
    <2>3. row' \in [Orders -> States] BY <2>1 DEF States
    <2>4. Sure' \subseteq Sure \ {o} BY <2>1 DEF Sure, Open
    <2>5. \A n \in Sure' : n \in book' /\ row'[n] = "open" BY <2>1, <2>4
    <2>6. QED BY <2>1, <2>2, <2>3, <2>5, AloneStep DEF Places, Pausings
<1>2. CASE SendPause(t)
    <2>1. PICK side \in {Buys, Sells} :
              \E done \in SUBSET (Open \cap side) : Cancelled(side, done)
        BY <1>2 DEF SendPause
    <2>2. PICK done \in SUBSET (Open \cap side) : Cancelled(side, done) BY <2>1
    <2>3. /\ Goto(t, "sync")
          /\ UNCHANGED <<row, book, listed, built, mine, news>>
        BY <1>2 DEF SendPause, engine, observer
    <2>4. side \in SUBSET Orders /\ done \in SUBSET Orders BY DEF Orders
    <2>5. /\ ex' \in [Orders -> States] /\ Sure' \subseteq Sure
          /\ \A o \in Orders : ex[o] # "open" => ex'[o] = ex[o]
        BY <2>2, <2>4, CancelledLeaves
    <2>6. \A o \in news : ex'[o] = ex[o] BY <2>5 DEF Closed
    <2>7. \A o \in Sure' : o \in book' /\ row'[o] = "open" BY <2>3, <2>5
    <2>8. QED BY <2>3, <2>5, <2>6, <2>7, AloneStep DEF Places
<1>4. QED BY <1>1, <1>2, <1>3 DEF Pausing

\* The exchange takes a new order; it is in doubt until the record says so.
LEMMA NewOrderLeaves ==
    ASSUME BookInv, NEW o \in NewOrders, NEW end \in {"open", "filled"},
           ex' = [ex EXCEPT ![o] = end]
    PROVE  /\ ex' \in [Orders -> States] /\ o \in Orders
           /\ Open' \subseteq Open \cup {o} /\ (end = "filled" => Open' = Open)
           /\ \A n \in news : ex'[n] = ex[n]
<1>1. o \in Orders /\ ex[o] = "none" BY NewOrderFresh
<1>2. ex' \in [Orders -> States] /\ ex'[o] = end BY <1>1 DEF BookInv, States
<1>3. \A p \in Orders : p # o => ex'[p] = ex[p] BY <1>1 DEF BookInv
<1>4. o \notin news BY <1>1 DEF BookInv, Closed
<1>5. \A n \in news : ex'[n] = ex[n] BY <1>3, <1>4 DEF BookInv
<1>6. Open' \subseteq Open \cup {o} BY <1>3 DEF Open
<1>7. end = "filled" => Open' = Open BY <1>1, <1>2, <1>3 DEF Open
<1>8. QED BY <1>1, <1>2, <1>5, <1>6, <1>7

LEMMA AnchoringStep ==
    ASSUME Alone, BookInv, NEW t \in Cyclers, Anchoring(t) PROVE BookInv'
<1> USE DEF BookInv
<1>1. CASE AnchorRefused(t) \/ AnchorTimeout(t)
    <2>1. /\ Goto(t, "sync")
          /\ UNCHANGED <<ex, doubts, row, book, listed, built, mine, news>>
        BY <1>1 DEF AnchorRefused, AnchorTimeout, exchange, engine, observer
    <2>2. QED BY <2>1, MovingStep
<1>2. CASE AnchorUnheard(t)
    <2>1. PICK o \in NewOrders : ex' = [ex EXCEPT ![o] = "filled"]
        BY <1>2 DEF AnchorUnheard
    <2>2. /\ Goto(t, "sync")
          /\ UNCHANGED <<doubts, row, book, listed, built, mine, news>>
        BY <1>2 DEF AnchorUnheard, observer
    <2>3. /\ ex' \in [Orders -> States] /\ Open' = Open
          /\ \A n \in news : ex'[n] = ex[n]
        BY <2>1, NewOrderLeaves
    <2>4. Sure' = Sure BY <2>2, <2>3 DEF Sure
    <2>5. QED BY <2>2, <2>3, <2>4, AloneStep DEF Places
<1>3. CASE AnchorSent(t)
    <2>1. PICK o \in NewOrders : /\ ex' = [ex EXCEPT ![o] = "open"]
                                 /\ doubts' = doubts \cup {o}
        BY <1>3 DEF AnchorSent
    <2>2. /\ pc[t] = "anchor" /\ Goto(t, "polling")
          /\ UNCHANGED <<row, book, listed, built, mine, news>>
        BY <1>3 DEF AnchorSent, engine, observer
    <2>3. /\ ex' \in [Orders -> States] /\ Open' \subseteq Open \cup {o}
          /\ \A n \in news : ex'[n] = ex[n]
        BY <2>1, NewOrderLeaves
    <2>4. Sure' \subseteq Sure BY <2>1, <2>3 DEF Sure
    <2>5. QED BY <2>2, <2>3, <2>4, AloneStep DEF Places
<1>4. CASE AnchorAnswered(t)
    <2>1. /\ pc[t] = "polling" /\ Closed(anchor[t])
          /\ UNCHANGED <<ex, doubts, book, listed, built, mine, news>>
        BY <1>4 DEF AnchorAnswered, exchange, observer
    <2>2. Open' = Open /\ Sure' = Sure BY <2>1 DEF Open, Sure
    <2>3. CASE row' = [row EXCEPT ![anchor[t]] = "filled"] /\ Goto(t, "anchored")
        <3>1. row' \in [Orders -> States] BY <2>3 DEF States
        <3>2. \A o \in Sure : row'[o] = "open" BY <2>1, <2>3 DEF Sure, Open, Closed
        <3>3. QED BY <2>1, <2>2, <2>3, <3>1, <3>2, AloneStep DEF Places
    <2>4. CASE row' = row /\ Goto(t, "sync")
        BY <2>1, <2>2, <2>4, MovingStep
    <2>5. QED BY <1>4, <2>3, <2>4 DEF AnchorAnswered
<1>5. CASE AssignAnchored(t)
    <2>1. /\ pc[t] = "anchored" /\ Goto(t, "ladder")
          /\ UNCHANGED <<ex, doubts, row, book, listed, built, mine, news>>
        BY <1>5 DEF AssignAnchored, exchange, observer
    <2>2. Open' = Open /\ Sure' = Sure BY <2>1 DEF Open, Sure
    <2>3. QED BY <2>1, <2>2, AloneStep DEF Places
<1>6. QED BY <1>1, <1>2, <1>3, <1>4, <1>5 DEF Anchoring

LEMMA LadderingStep ==
    ASSUME Alone, BookInv, NEW t \in Cyclers, Laddering(t) PROVE BookInv'
<1> USE DEF BookInv
<1>1. CASE PlaceArm(t)
    <2>1. PICK o \in NewOrders : /\ ex' = [ex EXCEPT ![o] = "open"]
                                 /\ row' = [row EXCEPT ![o] = "open"]
                                 /\ book' = book \cup {o}
                                 /\ built' = [built EXCEPT ![t] = @ \cup {o}]
        BY <1>1 DEF PlaceArm
    <2>2. /\ pc[t] = "ladder" /\ pc' = pc
          /\ UNCHANGED <<doubts, listed, mine, news>>
        BY <1>1 DEF PlaceArm, MorePlaces, observer
    <2>3. /\ ex' \in [Orders -> States] /\ o \in Orders /\ Open' \subseteq Open \cup {o}
          /\ \A n \in news : ex'[n] = ex[n]
        BY <2>1, NewOrderLeaves
    <2>4. Sure' \subseteq Sure \cup {o} BY <2>2, <2>3 DEF Sure
    <2>5. row' \in [Orders -> States] /\ row'[o] = "open" BY <2>1, <2>3 DEF States
    <2>6. \A p \in Sure' : p \in book' /\ row'[p] = "open"
        BY <2>1, <2>3, <2>4, <2>5 DEF Sure, Open
    <2>7. built' \in [Cyclers -> SUBSET Orders] /\ built'[t] = built[t] \cup {o}
        BY <2>1, <2>3
    <2>8. Goto(t, "ladder") BY <2>2 DEF Goto
    <2>9. QED BY <2>1, <2>2, <2>3, <2>5, <2>6, <2>7, <2>8, AloneStep DEF Places
<1>2. CASE PlaceUnheard(t)
    <2>1. PICK o \in NewOrders : /\ ex' = [ex EXCEPT ![o] = "open"]
                                 /\ doubts' = doubts \cup {o}
        BY <1>2 DEF PlaceUnheard
    <2>2. /\ pc[t] = "ladder" /\ pc' = pc
          /\ UNCHANGED <<row, book, listed, built, mine, news>>
        BY <1>2 DEF PlaceUnheard, MorePlaces, engine, cycle, observer
    <2>3. /\ ex' \in [Orders -> States] /\ Open' \subseteq Open \cup {o}
          /\ \A n \in news : ex'[n] = ex[n]
        BY <2>1, NewOrderLeaves
    <2>4. Sure' \subseteq Sure BY <2>1, <2>3 DEF Sure
    <2>5. Goto(t, "ladder") BY <2>2 DEF Goto
    <2>6. QED BY <2>2, <2>3, <2>4, <2>5, AloneStep DEF Places
<1>3. CASE LadderDone(t)
    <2>1. /\ Goto(t, "sync") /\ built' = [built EXCEPT ![t] = {}]
          /\ UNCHANGED <<ex, doubts, row, book, listed, mine, news>>
        BY <1>3 DEF LadderDone, exchange, engine, observer
    <2>2. QED BY <2>1, MovingStep
<1>4. QED BY <1>1, <1>2, <1>3 DEF Laddering

LEMMA SyncingStep == ASSUME BookInv, NEW t \in Cyclers, Syncing(t) PROVE BookInv'
<1>1. PICK w \in {"idle", "sync", "syncing"} : Goto(t, w)
    BY DEF Syncing, Maintain, SyncFetch, SyncAssign
<1>2. UNCHANGED <<ex, doubts, row, book, listed, built, mine, news>>
    BY DEF Syncing, Maintain, SyncFetch, SyncAssign, exchange, engine, observer
<1>3. QED BY <1>1, <1>2, MovingStep DEF BookInv

\* load_state brings back every order that is sure, for its row says open.
LEMMA RestartStep == ASSUME BookInv, Restart PROVE BookInv'
<1>1. /\ book' = {o \in Orders : row[o] = "open"}
      /\ pc' = [t \in Cyclers |-> "idle"]
      /\ listed' = [t \in Cyclers |-> {}] /\ built' = [t \in Cyclers |-> {}]
      /\ mine' = {} /\ news' = {}
      /\ UNCHANGED <<ex, doubts, row>>
    BY DEF Restart, exchange
<1>2. Open' = Open /\ Sure' = Sure BY <1>1 DEF Open, Sure
<1>3. Sure' \subseteq book' BY <1>1, <1>2 DEF BookInv, Sure, Open
<1>4. QED BY <1>1, <1>2, <1>3 DEF BookInv, Places

LEMMA PlannedStep == Planned /\ [Next]_vars => Planned'
<1> SUFFICES ASSUME Planned, [Next]_vars PROVE Planned'
    OBVIOUS
<1> USE DEF Planned
<1>1. CASE Kraken BY <1>1 DEF Kraken, Fill, Expire, Age, cycle
<1>2. CASE Observing
    BY <1>2 DEF Observing, ReadBook, AskClosed, AskFailed, SettleOrder, Settled,
                CountFunds, cycle
<1>3. ASSUME NEW t \in Cyclers, Cycle(t) PROVE Planned'
    <2>1. CASE Cancelling(t)
        BY <2>1 DEF Cancelling, CancelAll, SendCancel, MarkCancelled, ClearBook, Onward
    <2>2. CASE Pausing(t) BY <2>2 DEF Pausing, Pause, MarkPaused, SendPause
    <2>3. CASE Anchoring(t)
        BY <2>3 DEF Anchoring, AnchorRefused, AnchorUnheard, AnchorSent,
                    AnchorAnswered, AnchorTimeout, AssignAnchored
    <2>4. CASE Laddering(t)
        BY <2>4 DEF Laddering, PlaceArm, PlaceUnheard, LadderDone, cycle
    <2>5. CASE Syncing(t) BY <2>5 DEF Syncing, Maintain, SyncFetch, SyncAssign
    <2>6. QED BY <1>3, <2>1, <2>2, <2>3, <2>4, <2>5 DEF Cycle
<1>4. CASE Restart BY <1>4 DEF Restart, Onward
<1>5. CASE UNCHANGED vars BY <1>5 DEF vars, cycle
<1>6. QED BY <1>1, <1>2, <1>3, <1>4, <1>5 DEF Next

LEMMA BookStep == ASSUME Alone PROVE BookInv /\ Planned /\ [Next]_vars => BookInv'
<1> SUFFICES ASSUME BookInv, Planned, [Next]_vars PROVE BookInv'
    OBVIOUS
<1>1. CASE Kraken BY <1>1, KrakenStep
<1>2. CASE Observing BY <1>2, ObservingStep
<1>3. ASSUME NEW t \in Cyclers, Cycle(t) PROVE BookInv'
    BY <1>3, CancellingStep, PausingStep, AnchoringStep, LadderingStep, SyncingStep
    DEF Cycle
<1>4. CASE Restart BY <1>4, RestartStep
<1>5. CASE UNCHANGED vars
    BY <1>5, StandingStep DEF vars, exchange, engine, cycle, observer, BookInv
<1>6. QED BY <1>1, <1>2, <1>3, <1>4, <1>5 DEF Next

\* One cycle at a time, no order rests on Kraken that the engine has forgotten,
\* unless a call about it was lost, fell short, timed out or was cut
\* (cancel_all_orders, place_order, reconcile_live_fills_from_kraken, load_state).
THEOREM NeverSilentOrphan == ASSUME Alone PROVE Spec => []NoSilentOrphan
<1>1. BookInv => NoSilentOrphan BY DEF BookInv, NoSilentOrphan, Sure
<1>2. BookInv /\ Planned /\ [Next]_vars => BookInv' BY BookStep
<1>3. QED BY BookInitial, PlannedStep, <1>1, <1>2, PTL DEF Spec

\* One cycle at a time, a rebuild places its arms into a book that holds nothing
\* else (initialise_grid after cancel_all_orders).
THEOREM AlwaysOneGrid == ASSUME Alone PROVE Spec => []OneGrid
<1>1. BookInv => OneGrid BY DEF BookInv, OneGrid
<1>2. BookInv /\ Planned /\ [Next]_vars => BookInv' BY BookStep
<1>3. QED BY BookInitial, PlannedStep, <1>1, <1>2, PTL DEF Spec

-----------------------------------------------------------------------------
(***************************************************************************)
(* Types, for any number of cycles at a time.  An inventory is never taken *)
(* from an answer that was not fetched: where a thread is about to assign  *)
(* a Balance answer there is one, and trades only make it stale.           *)
(***************************************************************************)
Threads == Cyclers \cup {Observer}
Answers == {"true", "stale", "zero"}

Answered ==
    /\ \A t \in Cyclers : pc[t] \in {"anchored", "syncing"} => bal[t] # None
    /\ look = "counting" => bal[Observer] # None
TypeInv == TypeOK /\ Answered

LEMMA NewOrderType == NewOrders \subseteq Orders
BY NewOrderFresh

LEMMA TypeInitial == Init => TypeInv
<1> SUFFICES ASSUME Init PROVE TypeInv
    OBVIOUS
<1>1. TypeOK
    <2>1. /\ ex \in [Orders -> {"none", "open", "filled", "cancelled"}]
          /\ row = ex /\ book \subseteq Orders /\ aged = {} /\ doubts = {}
        BY LiveAssumption DEF Init
    <2>2. restarts \in 0..Restarts BY LiveAssumption DEF Init
    <2>3. QED BY <2>1, <2>2 DEF Init, TypeOK, Onward
<1>2. Answered BY DEF Init, Answered
<1>3. QED BY <1>1, <1>2 DEF TypeInv

\* A trade makes an answer stale, it does not take it away.
LEMMA TradedTypes ==
    ASSUME TypeInv, Traded
    PROVE  /\ funds' \in Answers /\ bal' \in [Threads -> Answers \cup {None}]
           /\ \A t \in Threads : bal[t] # None => bal'[t] # None
BY DEF TypeInv, TypeOK, Traded, Staled, Answers, Threads, None

LEMMA KrakenTypes == ASSUME TypeInv, Kraken PROVE TypeInv'
<1> SUFFICES ASSUME NEW o \in Orders, Fill(o) \/ Expire(o) \/ Age(o)
             PROVE  TypeInv'
    BY DEF Kraken
<1>1. CASE Fill(o)
    BY <1>1, TradedTypes
    DEF Fill, TypeInv, TypeOK, Answered, Threads, Answers, None, cycle, observer
<1>2. CASE Expire(o)
    BY <1>2 DEF Expire, TypeInv, TypeOK, Answered, engine, cycle, observer
<1>3. CASE Age(o)
    BY <1>3 DEF Age, TypeInv, TypeOK, Answered, engine, cycle, observer
<1>4. QED BY <1>1, <1>2, <1>3

LEMMA CancellingTypes == ASSUME TypeInv, NEW t \in Cyclers, Cancelling(t) PROVE TypeInv'
<1> USE DEF TypeInv, TypeOK, Answered, Goto, StartMarking, exchange, engine, observer
<1>0. Open \subseteq Orders BY DEF Open
<1>1. ASSUME NEW p \in DOMAIN Onward, CancelAll(t, p) PROVE TypeInv'
    BY <1>0, <1>1 DEF CancelAll
<1>2. CASE SendCancel(t)
    <2>1. PICK done \in SUBSET listed[t] : Cancelled(listed[t], done)
        BY <1>2 DEF SendCancel
    <2>2. ex' \in [Orders -> {"none", "open", "filled", "cancelled"}]
        BY <2>1 DEF Cancelled
    <2>3. doubts' \subseteq Orders BY <1>0, <2>1 DEF Cancelled
    <2>4. QED BY <1>2, <2>2, <2>3 DEF SendCancel
<1>3. CASE MarkCancelled(t)
    <2> DEFINE o == Least(todo[t])
    <2>1. /\ row' = IF o \in book THEN [row EXCEPT ![o] = "cancelled"] ELSE row
          /\ todo' = [todo EXCEPT ![t] = @ \ {o}]
        BY <1>3 DEF MarkCancelled
    <2> HIDE DEF o
    <2>2. row' \in [Orders -> {"none", "open", "filled", "cancelled"}] BY <2>1
    <2>3. todo' \in [Cyclers -> SUBSET Orders] BY <2>1
    <2>4. QED BY <1>3, <2>2, <2>3 DEF MarkCancelled
<1>4. CASE ClearBook(t)
    <2>1. Onward[plan[t]] \in {"anchor", "sync", "idle"} BY DEF Onward
    <2>2. "halt" \in DOMAIN Onward BY DEF Onward
    <2>3. QED BY <1>4, <2>1, <2>2 DEF ClearBook
<1>5. QED BY <1>1, <1>2, <1>3, <1>4 DEF Cancelling

LEMMA PausingTypes == ASSUME TypeInv, NEW t \in Cyclers, Pausing(t) PROVE TypeInv'
<1> USE DEF TypeInv, TypeOK, Answered, Goto, exchange, engine, observer
<1>0. Open \subseteq Orders BY DEF Open
<1>1. ASSUME NEW side \in {Buys, Sells}, Pause(t, side) PROVE TypeInv'
    BY <1>1 DEF Pause
<1>3. CASE MarkPaused(t)
    <2> DEFINE o == Least(todo[t])
    <2>1. /\ row' = IF o \in book THEN [row EXCEPT ![o] = "cancelled"] ELSE row
          /\ book' = book \ {o} /\ doubts' = doubts \cup ({o} \cap Open)
          /\ todo' = [todo EXCEPT ![t] = @ \ {o}]
        BY <1>3 DEF MarkPaused
    <2> HIDE DEF o
    <2>2. row' \in [Orders -> {"none", "open", "filled", "cancelled"}] BY <2>1
    <2>3. /\ todo' \in [Cyclers -> SUBSET Orders] /\ book' \subseteq Orders
          /\ doubts' \subseteq Orders
        BY <1>0, <2>1
    <2>4. QED BY <1>3, <2>2, <2>3 DEF MarkPaused
<1>2. CASE SendPause(t)
    <2>1. PICK done \in SUBSET Open : \E side : Cancelled(side, done)
        BY <1>2 DEF SendPause
    <2>2. ex' \in [Orders -> {"none", "open", "filled", "cancelled"}]
        BY <2>1 DEF Cancelled
    <2>3. doubts' \subseteq Orders BY <1>0, <2>1 DEF Cancelled
    <2>4. QED BY <1>2, <2>2, <2>3 DEF SendPause
<1>4. QED BY <1>1, <1>2, <1>3 DEF Pausing

LEMMA AnchoringTypes == ASSUME TypeInv, NEW t \in Cyclers, Anchoring(t) PROVE TypeInv'
<1> USE DEF TypeInv, TypeOK, Answered, Goto, exchange, engine, observer
<1>1. CASE AnchorRefused(t) BY <1>1 DEF AnchorRefused
<1>2. CASE AnchorUnheard(t)
    <2>1. ex' \in [Orders -> {"none", "open", "filled", "cancelled"}]
        BY <1>2 DEF AnchorUnheard
    <2>2. QED BY <1>2, <2>1, TradedTypes DEF AnchorUnheard, Threads, Answers, None
<1>3. CASE AnchorSent(t)
    <2>1. PICK o \in NewOrders : /\ ex' = [ex EXCEPT ![o] = "open"]
                                 /\ anchor' = [anchor EXCEPT ![t] = o]
                                 /\ doubts' = doubts \cup {o}
        BY <1>3 DEF AnchorSent
    <2>2. o \in Orders BY NewOrderType
    <2>3. QED BY <1>3, <2>1, <2>2 DEF AnchorSent
<1>4. CASE AnchorAnswered(t) BY <1>4 DEF AnchorAnswered, Balances, None
<1>5. CASE AnchorTimeout(t) BY <1>5 DEF AnchorTimeout
<1>6. CASE AssignAnchored(t) BY <1>6, LiveAssumption DEF AssignAnchored, Take
<1>7. QED BY <1>1, <1>2, <1>3, <1>4, <1>5, <1>6 DEF Anchoring

LEMMA LadderingTypes == ASSUME TypeInv, NEW t \in Cyclers, Laddering(t) PROVE TypeInv'
<1> USE DEF TypeInv, TypeOK, Answered, Goto, exchange, engine, observer, cycle
<1>1. CASE PlaceArm(t) BY <1>1, NewOrderType DEF PlaceArm
<1>2. CASE PlaceUnheard(t) BY <1>2, NewOrderType DEF PlaceUnheard
<1>3. CASE LadderDone(t) BY <1>3 DEF LadderDone
<1>4. QED BY <1>1, <1>2, <1>3 DEF Laddering

LEMMA SyncingTypes == ASSUME TypeInv, NEW t \in Cyclers, Syncing(t) PROVE TypeInv'
<1> USE DEF TypeInv, TypeOK, Answered, Goto, exchange, engine, observer
<1>1. CASE Maintain(t) BY <1>1 DEF Maintain
<1>2. CASE SyncFetch(t) BY <1>2 DEF SyncFetch, Balances, None
<1>3. CASE SyncAssign(t) BY <1>3, LiveAssumption DEF SyncAssign, Take
<1>4. QED BY <1>1, <1>2, <1>3 DEF Syncing

LEMMA ObservingTypes == ASSUME TypeInv, Observing PROVE TypeInv'
<1> USE DEF TypeInv, TypeOK, Answered, exchange, engine, cycle
<1>1. CASE ReadBook BY <1>1 DEF ReadBook
<1>2. CASE AskClosed BY <1>2 DEF AskClosed
<1>3. CASE AskFailed BY <1>3 DEF AskFailed
<1>4. CASE SettleOrder
    <2>1. Least(news) \in news
        BY <1>4, LeastMember, LiveAssumption DEF SettleOrder, Orders
    <2>2. row' \in [Orders -> {"none", "open", "filled", "cancelled"}]
        BY <1>4, <2>1 DEF SettleOrder
    <2>3. book' \subseteq Orders /\ news' \subseteq Orders /\ gotFill' \in BOOLEAN
        BY <1>4 DEF SettleOrder
    <2>4. QED BY <1>4, <2>2, <2>3 DEF SettleOrder
<1>5. CASE Settled
    <2>1. CASE \E b \in Balances : bal' = [bal EXCEPT ![Observer] = b] /\ look' = "counting"
        <3>1. PICK b \in Balances : bal' = [bal EXCEPT ![Observer] = b] BY <2>1
        <3>2. /\ bal' \in [Cyclers \cup {Observer} -> {None, "true", "stale", "zero"}]
              /\ bal'[Observer] # None /\ \A t \in Cyclers : bal'[t] = bal[t]
            BY <3>1, LiveAssumption DEF Balances, None
        <3>3. QED BY <1>5, <2>1, <3>2 DEF Settled
    <2>2. CASE look' = "idle" /\ UNCHANGED bal BY <1>5, <2>2 DEF Settled
    <2>3. QED BY <1>5, <2>1, <2>2 DEF Settled
<1>6. CASE CountFunds
    <2>1. /\ funds' = bal[Observer] /\ bal' = [bal EXCEPT ![Observer] = None]
          /\ look = "counting" /\ look' = "idle" /\ pc' = pc
        BY <1>6 DEF CountFunds, Take
    <2>2. funds' \in {"true", "stale", "zero"} BY <2>1
    <2>3. /\ bal' \in [Cyclers \cup {Observer} -> {None, "true", "stale", "zero"}]
          /\ \A t \in Cyclers : bal'[t] = bal[t]
        BY <2>1, LiveAssumption
    <2>4. Answered' BY <2>1, <2>3
    <2>5. QED BY <1>6, <2>2, <2>3, <2>4 DEF CountFunds
<1>7. QED BY <1>1, <1>2, <1>3, <1>4, <1>5, <1>6 DEF Observing

LEMMA RestartTypes == ASSUME TypeInv, Restart PROVE TypeInv'
<1> USE DEF TypeInv, TypeOK, Answered, exchange
<1>1. restarts' \in 0..Restarts BY LiveAssumption DEF Restart
<1>2. bal' \in [Cyclers \cup {Observer} -> {None, "true", "stale", "zero"}]
    BY DEF Restart
<1>3. /\ book' \subseteq Orders /\ pc' = [t \in Cyclers |-> "idle"] /\ look' = "idle"
      /\ plan' \in [Cyclers -> DOMAIN Onward]
      /\ listed' \in [Cyclers -> SUBSET Orders] /\ todo' \in [Cyclers -> SUBSET Orders]
      /\ anchor' \in [Cyclers -> Orders \cup {NoOrder}]
      /\ built' \in [Cyclers -> SUBSET Orders]
      /\ mine' = {} /\ news' = {} /\ gotFill' = FALSE
      /\ UNCHANGED <<ex, aged, row, funds, doubts>>
    BY DEF Restart, Onward
<1>4. Answered' BY <1>3
<1>5. TypeOK' BY <1>1, <1>2, <1>3
<1>6. QED BY <1>4, <1>5

LEMMA TypeStep == TypeInv /\ [Next]_vars => TypeInv'
<1> SUFFICES ASSUME TypeInv, [Next]_vars PROVE TypeInv'
    OBVIOUS
<1>1. CASE Kraken BY <1>1, KrakenTypes
<1>2. ASSUME NEW t \in Cyclers, Cycle(t) PROVE TypeInv'
    BY <1>2, CancellingTypes, PausingTypes, AnchoringTypes, LadderingTypes, SyncingTypes
    DEF Cycle
<1>3. CASE Observing BY <1>3, ObservingTypes
<1>4. CASE Restart BY <1>4, RestartTypes
<1>5. CASE UNCHANGED vars
    BY <1>5 DEF vars, TypeInv, TypeOK, Answered, exchange, engine, cycle, observer
<1>6. QED BY <1>1, <1>2, <1>3, <1>4, <1>5 DEF Next

\* The types hold however many cycles run at the same time, and no thread takes a
\* balance it has not fetched (update_inventory's fetch and assignment).
THEOREM LiveTypes == Spec => [](TypeOK /\ Answered)
BY TypeInitial, TypeStep, PTL DEF Spec, TypeInv
=============================================================================

----------------------------- MODULE MarketTape -----------------------------
(***************************************************************************)
(* The market tape (src/tape): the WebSocket client hands closed minute    *)
(* bars to a buffered writer, the health loop looks for missing minutes    *)
(* and asks the exchange's REST record about them, the rollup derives      *)
(* coarser bars, and the warehouse copies the tape.  Four threads and one  *)
(* other process share two SQLite files.                                   *)
(*                                                                         *)
(* A bar is its minute and its provenance; of the tables only ohlc_1m is   *)
(* modelled (trades are handled alike, spreads carry no key).              *)
(*                                                                         *)
(* PutUnbounded, FlushForgets, FillUnknown, StrictWatermark and            *)
(* NeverCommitted are faulty variants of the definition after them, for    *)
(* the mutant runs.                                                        *)
(***************************************************************************)
EXTENDS Integers, Sequences, FiniteSets

CONSTANTS
    Minutes,      \* bound: minutes of a behaviour
    SnapshotLen,  \* minutes of history in an ohlc snapshot
    QueueMax,     \* QUEUE_MAX
    Settle,       \* GAP_SETTLE_SECS, in minutes
    GapLookback,  \* GAP_LOOKBACK_HOURS, in minutes
    MaxGap,       \* BACKFILL_MAX_GAP_BARS
    BucketLen,    \* minutes of a rollup bucket
    RollLookback, \* ROLLUP_LOOKBACK_HOURS, in minutes
    Reconcile,    \* APPEND_RECONCILE_WINDOW_MS, in minutes
    Restarts      \* bound: stops and kills of the collector

ASSUME TapeAssumption ==
    /\ Minutes \in Nat /\ SnapshotLen \in Nat /\ QueueMax \in Nat /\ Settle \in Nat
    /\ GapLookback \in Nat /\ MaxGap \in Nat /\ RollLookback \in Nat
    /\ BucketLen \in Nat \ {0} /\ Reconcile \in Nat /\ Restarts \in Nat

VARIABLES
    now,       \* the running minute
    traded,    \* minutes in which the market traded
    connected, \* client.state is "connected" and the feed subscribed
    inflight,  \* _inflight_ohlc: the bar not closed yet, or None
    queue,     \* TapeWriter.q
    buf,       \* rows taken from the queue and not flushed
    accepted,  \* history: calls of put since the start
    dropped,   \* TapeWriter._dropped
    written,   \* TapeWriter._written
    db,        \* ohlc_1m of market_tape.db: provenance of each minute, or None
    todo,      \* gaps the self-assessment has still to ask about
    txn,       \* bars inserted by the backfill and not committed
    rolled,    \* rollup_bars: the minutes each bucket was computed from
    hist,      \* ohlc_1m of history.db
    restarts

stream    == <<now, traded, connected, inflight>>
writer    == <<queue, buf, accepted, dropped, written>>
assessing == <<todo, txn>>
vars == <<stream, writer, db, assessing, rolled, hist, restarts>>

None == "none"
Minute == 0..Minutes
Stored == {m \in Minute : db[m] # None}
NoBar == Minutes + 1
MaxOf(S) == CHOOSE m \in S : \A n \in S : n <= m
LeastOf(S) == CHOOSE m \in S : \A n \in S : m <= n

Init ==
    /\ now = 0
    /\ traded = {}
    /\ connected = FALSE
    /\ inflight = NoBar
    /\ queue = <<>> /\ buf = <<>>
    /\ accepted = 0 /\ dropped = 0 /\ written = 0
    /\ db = [m \in Minute |-> None]
    /\ todo = {}
    /\ txn = [m \in Minute |-> None]
    /\ rolled = [b \in {m \div BucketLen : m \in Minute} |-> {}]
    /\ hist = [m \in Minute |-> None]
    /\ restarts = 0

-----------------------------------------------------------------------------
(* The stream and TapeWriter.put *)

\* The bars of a set, oldest first.
InOrder(S) ==
    [i \in 1..Cardinality(S) |-> CHOOSE m \in S : Cardinality({n \in S : n < m}) = i - 1]

PutUnbounded(rows) ==
    /\ queue' = queue \o rows
    /\ dropped' = dropped
    /\ accepted' = accepted + Len(rows)
    /\ UNCHANGED <<buf, written>>

\* put_nowait for each row: what does not fit is dropped and counted.
Put(rows) ==
    LET room == QueueMax - Len(queue)
        kept == IF Len(rows) <= room THEN Len(rows) ELSE room
    IN  /\ queue' = queue \o SubSeq(rows, 1, kept)
        /\ dropped' = dropped + Len(rows) - kept
        /\ accepted' = accepted + Len(rows)
        /\ UNCHANGED <<buf, written>>

NextMinute ==
    /\ now < Minutes
    /\ now' = now + 1
    /\ UNCHANGED <<traded, connected, inflight, writer, db, assessing, rolled, hist, restarts>>

\* The first trade of a minute; the update that reports it closes the bar of
\* the minute in flight.
Trade ==
    /\ now \notin traded
    /\ traded' = traded \cup {now}
    /\ IF connected
       THEN /\ Put(IF inflight = NoBar THEN <<>> ELSE <<inflight>>)
            /\ inflight' = now
       ELSE UNCHANGED <<inflight, writer>>
    /\ UNCHANGED <<now, connected, db, assessing, rolled, hist, restarts>>

Drop ==
    /\ connected
    /\ connected' = FALSE
    /\ UNCHANGED <<now, traded, inflight, writer, db, assessing, rolled, hist, restarts>>

\* Connected, subscribed, and the snapshot taken in: its bars after the one in
\* flight close it and each other.
Reconnect ==
    /\ ~connected
    /\ connected' = TRUE
    /\ LET fresh == {m \in traded : m > now - SnapshotLen
                                       /\ (inflight # NoBar => m > inflight)}
           closed == (fresh \ {MaxOf(fresh)})
                         \cup (IF inflight = NoBar THEN {} ELSE {inflight})
       IN  IF fresh = {}
           THEN UNCHANGED <<inflight, writer>>
           ELSE Put(InOrder(closed)) /\ inflight' = MaxOf(fresh)
    /\ UNCHANGED <<now, traded, db, assessing, rolled, hist, restarts>>

-----------------------------------------------------------------------------
(* The writer thread *)

\* INSERT OR IGNORE: the minute is the primary key, the first bar stays.
Insert(table, bars) ==
    [m \in Minute |-> IF table[m] = None THEN bars[m] ELSE table[m]]
Live(rows) ==
    [m \in Minute |-> IF \E i \in DOMAIN rows : rows[i] = m THEN "ws" ELSE None]

TakeRow ==
    /\ queue # <<>>
    /\ buf' = Append(buf, Head(queue))
    /\ queue' = Tail(queue)
    /\ UNCHANGED <<stream, accepted, dropped, written, db, assessing, rolled, hist, restarts>>

FlushForgets ==
    /\ buf # <<>>
    /\ buf' = <<>>
    /\ \/ /\ txn = [m \in Minute |-> None]
          /\ db' = Insert(db, Live(buf))
          /\ written' = written + Len(buf)
       \/ UNCHANGED <<db, written>>
    /\ UNCHANGED <<stream, queue, accepted, dropped, assessing, rolled, hist, restarts>>

\* One transaction; while the backfill holds the write lock, or when it fails,
\* the rows stay in the buffer.
Flush ==
    /\ buf # <<>> /\ txn = [m \in Minute |-> None]
    /\ db' = Insert(db, Live(buf))
    /\ written' = written + Len(buf)
    /\ buf' = <<>>
    /\ UNCHANGED <<stream, queue, accepted, dropped, assessing, rolled, hist, restarts>>

-----------------------------------------------------------------------------
(* _self_assess: the missing minutes between two settled bars *)

Settled == {m \in Stored : m <= now - Settle /\ m >= now - GapLookback}
Around(m) == [lo |-> {p \in Settled : p < m}, hi |-> {p \in Settled : p > m}]
InGap(m) ==
    /\ m \notin Stored
    /\ LET a == Around(m)
       IN  /\ a.lo # {} /\ a.hi # {}
           /\ LeastOf(a.hi) - MaxOf(a.lo) - 1 <= MaxGap
Gaps == {m \in Minute : InGap(m)}

DetectGaps ==
    /\ todo = {} /\ txn = [m \in Minute |-> None]
    /\ Gaps # {}
    /\ todo' = Gaps
    /\ UNCHANGED <<stream, writer, db, txn, rolled, hist, restarts>>

FillUnknown ==
    /\ todo # {}
    /\ \E known \in SUBSET todo :
          txn' = [m \in Minute |->
                     IF m \in todo
                     THEN IF m \in known /\ m \in traded THEN "recovered" ELSE "backfill"
                     ELSE txn[m]]
    /\ todo' = {}
    /\ UNCHANGED <<stream, writer, db, rolled, hist, restarts>>

\* REST answers for some of the minutes, or fails: a bar without volume is
\* silence, a bar with volume was missed; of the others nothing is known.
AskRest ==
    /\ todo # {}
    /\ \E known \in SUBSET todo :
          txn' = [m \in Minute |->
                     IF m \in known
                     THEN IF m \in traded THEN "recovered" ELSE "backfill"
                     ELSE txn[m]]
    /\ todo' = {}
    /\ UNCHANGED <<stream, writer, db, rolled, hist, restarts>>

NeverCommitted ==
    /\ txn # [m \in Minute |-> None]
    /\ txn' = [m \in Minute |-> None]
    /\ UNCHANGED <<stream, writer, db, todo, rolled, hist, restarts>>

CommitBackfill ==
    /\ txn # [m \in Minute |-> None]
    /\ db' = Insert(db, txn)
    /\ txn' = [m \in Minute |-> None]
    /\ UNCHANGED <<stream, writer, todo, rolled, hist, restarts>>

-----------------------------------------------------------------------------
(* rollup.run_once and warehouse.cmd_append *)

Bucket(b) == {m \in Minute : m \div BucketLen = b}

\* Every bucket with a bar in the trailing window is recomputed from the bars
\* of that window, and replaced.
Rollup ==
    /\ txn = [m \in Minute |-> None]
    /\ LET base == {m \in Stored : m >= now - RollLookback}
       IN  rolled' = [b \in DOMAIN rolled |->
                         IF Bucket(b) \cap base # {} THEN Bucket(b) \cap base ELSE rolled[b]]
    /\ UNCHANGED <<stream, writer, db, assessing, hist, restarts>>

InHistory == {m \in Minute : hist[m] # None}

StrictWatermark ==
    LET from == IF InHistory = {} THEN 0 ELSE MaxOf(InHistory) + 1
    IN  /\ hist' = Insert(hist, [m \in Minute |-> IF m >= from THEN db[m] ELSE None])
        /\ UNCHANGED <<stream, writer, db, assessing, rolled, restarts>>

\* The trailing window behind the newest bar is read again on every run.
AppendHistory ==
    LET from == IF InHistory = {} THEN 0 ELSE MaxOf(InHistory) - Reconcile
    IN  /\ hist' = Insert(hist, [m \in Minute |-> IF m >= from THEN db[m] ELSE None])
        /\ UNCHANGED <<stream, writer, db, assessing, rolled, restarts>>

-----------------------------------------------------------------------------

Reset ==
    /\ restarts < Restarts
    /\ restarts' = restarts + 1
    /\ connected' = FALSE /\ inflight' = NoBar
    /\ queue' = <<>> /\ buf' = <<>>
    /\ accepted' = 0 /\ dropped' = 0 /\ written' = 0
    /\ todo' = {} /\ txn' = [m \in Minute |-> None]
    /\ UNCHANGED <<now, traded, rolled, hist>>

\* SIGTERM: the socket is shut, the writer drains its queue and flushes.
Stop ==
    /\ Reset
    /\ txn = [m \in Minute |-> None]
    /\ db' = Insert(db, Live(buf \o queue))

\* The process dies, or the last flush fails: what was not flushed is gone.
Kill == Reset /\ UNCHANGED db

Streaming == NextMinute \/ Trade \/ Drop \/ Reconnect
Writing == TakeRow \/ Flush
Assessing == DetectGaps \/ AskRest \/ CommitBackfill

Next == Streaming \/ Writing \/ Assessing \/ Rollup \/ AppendHistory \/ Stop \/ Kill

Spec == Init /\ [][Next]_vars

\* The threads and the hourly job run; a flush, and the question to REST, do
\* not fail for ever.
FairSpec ==
    /\ Spec
    /\ WF_vars(TakeRow) /\ SF_vars(Flush)
    /\ WF_vars(DetectGaps) /\ WF_vars(CommitBackfill)
    /\ SF_vars(AskRest /\ \A m \in todo : txn'[m] # None)
    /\ WF_vars(AppendHistory)

-----------------------------------------------------------------------------
(* Properties *)

TypeOK ==
    /\ now \in Minute /\ traded \subseteq Minute
    /\ connected \in BOOLEAN
    /\ inflight \in Minute \cup {NoBar}
    /\ queue \in Seq(Minute) /\ Len(queue) <= QueueMax
    /\ buf \in Seq(Minute)
    /\ accepted \in Nat /\ dropped \in Nat /\ written \in Nat
    /\ db \in [Minute -> {None, "ws", "backfill", "recovered"}]
    /\ todo \subseteq Minute
    /\ txn \in [Minute -> {None, "backfill", "recovered"}]
    /\ \A b \in DOMAIN rolled : rolled[b] \subseteq Bucket(b)
    /\ hist \in [Minute -> {None, "ws", "backfill", "recovered"}]
    /\ restarts \in 0..Restarts

\* Every row handed to put is waiting, buffered, written or counted as
\* dropped: nothing is lost without a trace while the collector runs.
RowsAccounted == accepted = Len(queue) + Len(buf) + written + dropped

\* A flat bar stands only for a minute the exchange says was silent; a bar of
\* a minute that traded is never passed off as silence.
FlatIsSilent == \A m \in Stored : db[m] = "backfill" => m \notin traded

\* A short hole between settled bars is filled, or leaves the window that the
\* self-assessment looks at.
GapsHeal ==
    \A m \in Minute : (m \in Gaps) ~> (m \in Stored \/ m < now - GapLookback + MaxGap)

\* Every bar of the tape reaches the warehouse, also one filled in behind the
\* newest bar the warehouse has.
TapeReachesWarehouse == \A m \in Minute : (m \in Stored) ~> (m \in InHistory)

=============================================================================

-------------------------- MODULE MarketTapeProofs --------------------------
(***************************************************************************)
(* Silence is never invented on the tape, and no row of it is lost without *)
(* a trace: for every length of snapshot, queue, window and gap, any loss  *)
(* of the connection and any restart.                                      *)
(***************************************************************************)
EXTENDS MarketTape, FiniteSetTheorems, SequenceTheorems, TLAPS

Marks == {"none", "ws", "backfill", "recovered"}

\* A flat bar is of a minute that is over and passed without a trade.
Silent(table) ==
    \A m \in Minute : table[m] = "backfill" => m < now /\ m \notin traded

\* The inductive invariant: also what is about to be asked or committed is over.
TapeInv ==
    /\ now \in Nat
    /\ db \in [Minute -> Marks] /\ txn \in [Minute -> Marks]
    /\ Silent(db) /\ Silent(txn)
    /\ todo \subseteq Minute /\ \A m \in todo : m < now

\* A table without a bar.
LEMMA EmptySilent == ASSUME NEW table, table = [m \in Minute |-> None] PROVE Silent(table)
BY DEF Silent, None

\* INSERT OR IGNORE keeps what it finds and adds what it is given.
LEMMA InsertSilent ==
    ASSUME NEW table \in [Minute -> Marks], NEW bars \in [Minute -> Marks],
           Silent(table), Silent(bars)
    PROVE  Insert(table, bars) \in [Minute -> Marks] /\ Silent(Insert(table, bars))
BY DEF Insert, Silent

\* The bars of the stream are not flat.
LEMMA LiveSilent ==
    ASSUME NEW rows PROVE Live(rows) \in [Minute -> Marks] /\ Silent(Live(rows))
<1>1. Live(rows) = [m \in Minute |-> IF \E i \in DOMAIN rows : rows[i] = m
                                       THEN "ws" ELSE "none"]
    BY DEF Live, None
<1>2. \A m \in Minute : Live(rows)[m] = "ws" \/ Live(rows)[m] = "none" BY <1>1
<1>3. Live(rows) \in [Minute -> Marks] BY <1>1 DEF Marks
<1>4. QED BY <1>2, <1>3 DEF Silent

\* A missing minute between two settled bars is over.
LEMMA GapsOver == ASSUME now \in Nat, NEW m \in Gaps PROVE m < now
<1>1. /\ m \in Minute
      /\ Around(m).hi # {}
    BY DEF Gaps, InGap
<1>2. PICK p \in Settled : p > m BY <1>1 DEF Around
<1>3. p <= now - Settle /\ p \in Minute BY <1>2 DEF Settled, Stored
<1>4. QED BY <1>1, <1>2, <1>3, TapeAssumption DEF Minute

LEMMA TapeInitial == Init => TapeInv
<1> SUFFICES ASSUME Init PROVE TapeInv
    OBVIOUS
<1>1. now \in Nat /\ todo = {} BY DEF Init
<1>2. db = [m \in Minute |-> "none"] /\ txn = [m \in Minute |-> "none"] BY DEF Init, None
<1>3. Silent(db) /\ Silent(txn) BY <1>2, EmptySilent DEF None
<1>4. QED BY <1>1, <1>2, <1>3 DEF TapeInv, Marks

\* A step that leaves the tape and the assessment alone, while time passes and
\* only the running minute trades.
LEMMA TimeStep ==
    ASSUME TapeInv, now' \in Nat, now <= now', traded' \subseteq traded \cup {now},
           db' = db, txn' = txn, todo' = todo
    PROVE  TapeInv'
<1> USE DEF TapeInv
<1>1. \A m \in Minute : m \in Nat BY TapeAssumption DEF Minute
<1>2. \A m \in todo' : m < now' BY <1>1
<1>3. Silent(db)' BY <1>1 DEF Silent, Minute
<1>4. Silent(txn)' BY <1>1 DEF Silent, Minute
<1>5. QED BY <1>2, <1>3, <1>4 DEF Minute

\* While the clock and the trades stand, a table is silent when its bars are.
LEMMA SilentNow ==
    ASSUME now' = now, traded' = traded, Silent(db'), Silent(txn')
    PROVE  Silent(db)' /\ Silent(txn)'
BY DEF Silent, Minute

LEMMA TapeStep == TapeInv /\ [Next]_vars => TapeInv'
<1> SUFFICES ASSUME TapeInv, [Next]_vars PROVE TapeInv'
    OBVIOUS
<1> USE DEF TapeInv
<1>1. CASE NextMinute
    <2>1. now' \in Nat /\ now <= now' BY <1>1 DEF NextMinute
    <2>2. QED BY <1>1, <2>1, TimeStep DEF NextMinute, assessing
<1>2. CASE Trade BY <1>2, TimeStep DEF Trade, assessing
<1>3. CASE Drop BY <1>3, TimeStep DEF Drop, assessing
<1>4. CASE Reconnect BY <1>4, TimeStep DEF Reconnect, assessing
<1>5. CASE TakeRow BY <1>5, TimeStep DEF TakeRow, assessing, stream
<1>6. CASE Flush
    <2>1. db' = Insert(db, Live(buf)) BY <1>6 DEF Flush
    <2>2. db' \in [Minute -> Marks] /\ Silent(db') BY <2>1, LiveSilent, InsertSilent
    <2>3. now' = now /\ traded' = traded /\ txn' = txn /\ todo' = todo
        BY <1>6 DEF Flush, stream, assessing
    <2>4. QED BY <2>2, <2>3, SilentNow DEF Minute
<1>7. CASE DetectGaps
    <2>1. todo' = Gaps /\ Gaps \subseteq Minute BY <1>7 DEF DetectGaps, Gaps
    <2>2. \A m \in todo' : m < now BY <2>1, GapsOver
    <2>3. now' = now /\ traded' = traded /\ txn' = txn /\ db' = db
        BY <1>7 DEF DetectGaps, stream
    <2>4. QED BY <2>1, <2>2, <2>3, SilentNow DEF Minute
<1>8. CASE AskRest
    <2>1. PICK known \in SUBSET todo :
              txn' = [m \in Minute |-> IF m \in known
                                       THEN IF m \in traded THEN "recovered" ELSE "backfill"
                                       ELSE txn[m]]
        BY <1>8 DEF AskRest
    <2>2. txn' \in [Minute -> Marks] BY <2>1 DEF Marks
    <2>3. Silent(txn') BY <2>1 DEF Silent
    <2>4. now' = now /\ traded' = traded /\ db' = db /\ todo' = {}
        BY <1>8 DEF AskRest, stream
    <2>5. QED BY <2>2, <2>3, <2>4, SilentNow DEF Minute
<1>9. CASE CommitBackfill
    <2>1. db' = Insert(db, txn) /\ txn' = [m \in Minute |-> "none"]
        BY <1>9 DEF CommitBackfill, None
    <2>2. db' \in [Minute -> Marks] /\ Silent(db') BY <2>1, InsertSilent
    <2>3. txn' \in [Minute -> Marks] /\ Silent(txn') BY <2>1, EmptySilent DEF Marks, None
    <2>4. now' = now /\ traded' = traded /\ todo' = todo
        BY <1>9 DEF CommitBackfill, stream
    <2>5. QED BY <2>2, <2>3, <2>4, SilentNow DEF Minute
<1>10. CASE Rollup BY <1>10, TimeStep DEF Rollup, stream, assessing
<1>11. CASE AppendHistory BY <1>11, TimeStep DEF AppendHistory, stream, assessing
<1>12. CASE Stop
    <2>1. db' = Insert(db, Live(buf \o queue)) BY <1>12 DEF Stop
    <2>2. db' \in [Minute -> Marks] /\ Silent(db') BY <2>1, LiveSilent, InsertSilent
    <2>3. /\ txn' = [m \in Minute |-> "none"] /\ todo' = {}
          /\ now' = now /\ traded' = traded
        BY <1>12 DEF Stop, Reset, None
    <2>4. txn' \in [Minute -> Marks] /\ Silent(txn') BY <2>3, EmptySilent DEF Marks, None
    <2>5. QED BY <2>2, <2>3, <2>4, SilentNow DEF Minute
<1>13. CASE Kill
    <2>1. /\ txn' = [m \in Minute |-> "none"] /\ todo' = {}
          /\ now' = now /\ traded' = traded /\ db' = db
        BY <1>13 DEF Kill, Reset, None
    <2>2. txn' \in [Minute -> Marks] /\ Silent(txn') BY <2>1, EmptySilent DEF Marks, None
    <2>3. QED BY <2>1, <2>2, SilentNow DEF Minute
<1>14. CASE UNCHANGED vars BY <1>14, TimeStep DEF vars, stream, assessing
<1>15. QED
    BY <1>1, <1>2, <1>3, <1>4, <1>5, <1>6, <1>7, <1>8, <1>9, <1>10, <1>11, <1>12, <1>13, <1>14
    DEF Next, Streaming, Writing, Assessing

\* A flat bar of the tape stands only for a minute without a trade, whatever
\* part of the exchange's record is known when a hole is filled
\* (collector._self_assess, backfill.backfill_gap).
THEOREM FlatAlwaysSilent == Spec => []FlatIsSilent
<1>1. TapeInv => FlatIsSilent BY DEF TapeInv, FlatIsSilent, Silent, Stored
<1>2. QED BY TapeInitial, TapeStep, <1>1, PTL DEF Spec

-----------------------------------------------------------------------------
(***************************************************************************)
(* TapeWriter: the account of the rows.                                    *)
(***************************************************************************)
\* A sequence, of whatever: which bars the rows are does not matter here.
Rowed(s) == \E S : s \in Seq(S)

\* The inductive invariant: the queue respects its bound and the account holds.
WriterInv ==
    /\ IsFiniteSet(traded)
    /\ Rowed(queue) /\ Rowed(buf)
    /\ Len(queue) <= QueueMax
    /\ accepted \in Nat /\ dropped \in Nat /\ written \in Nat
    /\ RowsAccounted

LEMMA RowedLen == ASSUME NEW s, Rowed(s) PROVE Len(s) \in Nat
BY LenProperties DEF Rowed

\* Joining two batches loses none of their rows.
LEMMA JoinRows ==
    ASSUME NEW s, NEW t, Rowed(s), Rowed(t)
    PROVE  Rowed(s \o t) /\ Len(s \o t) = Len(s) + Len(t)
<1>1. PICK S : s \in Seq(S) BY DEF Rowed
<1>2. PICK T : t \in Seq(T) BY DEF Rowed
<1>3. s \in Seq(S \cup T) BY <1>1, SeqMonotonic
<1>4. t \in Seq(S \cup T) BY <1>2, SeqMonotonic
<1>5. s \o t \in Seq(S \cup T) /\ Len(s \o t) = Len(s) + Len(t)
    BY <1>3, <1>4, ConcatProperties
<1>6. QED BY <1>5 DEF Rowed

\* The first k rows of a batch are k rows.
LEMMA FirstRows ==
    ASSUME NEW s, Rowed(s), NEW k \in 0..Len(s)
    PROVE  Rowed(SubSeq(s, 1, k)) /\ Len(SubSeq(s, 1, k)) = k
<1>1. PICK S : s \in Seq(S) BY DEF Rowed
<1>2. Len(s) \in Nat BY RowedLen
<1>3. \A i \in 1..k : s[i] \in S BY <1>1, <1>2, ElementOfSeq
<1>4. SubSeq(s, 1, k) \in Seq(S) /\ Len(SubSeq(s, 1, k)) = IF 1 <= k THEN k - 1 + 1 ELSE 0
    BY <1>2, <1>3, SubSeqProperties
<1>5. QED BY <1>2, <1>4 DEF Rowed

\* The closed bars of a finite set are handed over as a batch.
LEMMA InOrderRowed == ASSUME NEW S, IsFiniteSet(S) PROVE Rowed(InOrder(S))
<1> DEFINE n == Cardinality(S)
           bar(i) == CHOOSE m \in S : Cardinality({k \in S : k < m}) = i - 1
<1>1. n \in Nat BY FS_CardinalityType
<1>2. InOrder(S) = [i \in 1..n |-> bar(i)] BY DEF InOrder
<1> HIDE DEF n, bar
<1>3. [i \in 1..n |-> bar(i)] \in [1..n -> {bar(i) : i \in 1..n}] OBVIOUS
<1>4. [i \in 1..n |-> bar(i)] \in Seq({bar(i) : i \in 1..n}) BY <1>1, <1>3, SeqDef
<1>5. QED BY <1>2, <1>4 DEF Rowed

\* put_nowait keeps what fits and counts what does not.
LEMMA PutAccounts ==
    ASSUME WriterInv, NEW rows, Rowed(rows), Put(rows), IsFiniteSet(traded')
    PROVE  WriterInv'
<1> DEFINE room == QueueMax - Len(queue)
           kept == IF Len(rows) <= room THEN Len(rows) ELSE room
<1>1. Len(rows) \in Nat /\ Len(queue) \in Nat /\ Len(buf) \in Nat
    BY RowedLen DEF WriterInv
<1>2. QueueMax \in Nat /\ kept \in 0..Len(rows) /\ Len(queue) + kept <= QueueMax
    BY <1>1, TapeAssumption DEF WriterInv
<1>3. /\ queue' = queue \o SubSeq(rows, 1, kept)
      /\ dropped' = dropped + Len(rows) - kept /\ accepted' = accepted + Len(rows)
      /\ buf' = buf /\ written' = written
    BY DEF Put
<1> HIDE DEF room, kept
<1>4. Rowed(SubSeq(rows, 1, kept)) /\ Len(SubSeq(rows, 1, kept)) = kept
    BY <1>2, FirstRows
<1>5. Rowed(queue') /\ Len(queue') = Len(queue) + kept
    BY <1>3, <1>4, JoinRows DEF WriterInv
<1>6. kept \in Nat /\ Len(rows) - kept \in Nat BY <1>1, <1>2
<1>7. RowsAccounted'
    <2>1. /\ accepted = Len(queue) + Len(buf) + written + dropped
          /\ written \in Nat /\ dropped \in Nat
        BY DEF WriterInv, RowsAccounted
    <2>2. Len(buf') = Len(buf) BY <1>3
    <2>3. \A q, b, w, d, n, k \in Int :
              (q + b + w + d) + n = (q + k) + b + w + (d + n - k)
        OBVIOUS
    <2>4. accepted + Len(rows)
              = (Len(queue) + kept) + Len(buf) + written + (dropped + Len(rows) - kept)
        BY <1>1, <1>6, <2>1, <2>3
    <2>5. /\ accepted' = accepted + Len(rows) /\ written' = written
          /\ dropped' = dropped + Len(rows) - kept
        BY <1>3
    <2>6. accepted' = Len(queue') + Len(buf') + written' + dropped'
        BY <1>5, <2>2, <2>4, <2>5
    <2>7. QED BY <2>6 DEF RowsAccounted
<1>8. Rowed(buf)' BY <1>3 DEF WriterInv, Rowed
<1>9. Rowed(queue)' BY <1>5 DEF Rowed
<1>10. Len(queue') <= QueueMax BY <1>1, <1>2, <1>5
<1>11. QED BY <1>1, <1>3, <1>6, <1>7, <1>8, <1>9, <1>10 DEF WriterInv

LEMMA EmptyRowed == Rowed(<<>>) /\ Len(<<>>) = 0
BY EmptySeq DEF Rowed

\* A step that leaves the writer alone.
LEMMA WriterStands ==
    ASSUME WriterInv, UNCHANGED writer, IsFiniteSet(traded') PROVE WriterInv'
BY DEF WriterInv, writer, Rowed, RowsAccounted

LEMMA WriterInitial == Init => WriterInv
<1> SUFFICES ASSUME Init PROVE WriterInv
    OBVIOUS
<1>1. /\ traded = {} /\ queue = <<>> /\ buf = <<>>
      /\ accepted = 0 /\ dropped = 0 /\ written = 0
    BY DEF Init
<1>2. QED BY <1>1, EmptyRowed, FS_EmptySet, TapeAssumption DEF WriterInv, RowsAccounted

\* A new process starts a new account.
LEMMA ResetStarts == ASSUME WriterInv, Reset PROVE WriterInv'
<1>1. /\ traded' = traded /\ queue' = <<>> /\ buf' = <<>>
      /\ accepted' = 0 /\ dropped' = 0 /\ written' = 0
    BY DEF Reset
<1>2. Rowed(queue)' /\ Rowed(buf)' /\ Len(queue') = 0 /\ Len(buf') = 0
    BY <1>1, EmptyRowed DEF Rowed
<1>3. QED BY <1>1, <1>2, TapeAssumption DEF WriterInv, RowsAccounted

LEMMA WriterStep == WriterInv /\ [Next]_vars => WriterInv'
<1> SUFFICES ASSUME WriterInv, [Next]_vars PROVE WriterInv'
    OBVIOUS
<1>f. IsFiniteSet(traded) BY DEF WriterInv
<1>1. CASE NextMinute BY <1>1, <1>f, WriterStands DEF NextMinute, writer
<1>2. CASE Trade
    <2>1. IsFiniteSet(traded') BY <1>2, <1>f, FS_AddElement DEF Trade
    <2>2. CASE connected
        <3>1. Put(IF inflight = NoBar THEN <<>> ELSE <<inflight>>) BY <1>2, <2>2 DEF Trade
        <3>2. Rowed(<<>>) /\ Rowed(<<inflight>>)
            <4>1. <<inflight>> \in Seq({inflight}) OBVIOUS
            <4>2. QED BY <4>1, EmptyRowed DEF Rowed
        <3>3. QED BY <2>1, <3>1, <3>2, PutAccounts
    <2>3. CASE ~connected
        <3>1. UNCHANGED writer BY <1>2, <2>3 DEF Trade
        <3>2. QED BY <2>1, <3>1, WriterStands
    <2>4. QED BY <2>2, <2>3
<1>3. CASE Drop BY <1>3, <1>f, WriterStands DEF Drop, writer
<1>4. CASE Reconnect
    <2> DEFINE fresh == {m \in traded : m > now - SnapshotLen
                                          /\ (inflight # NoBar => m > inflight)}
               closed == (fresh \ {MaxOf(fresh)})
                             \cup (IF inflight = NoBar THEN {} ELSE {inflight})
    <2>1. traded' = traded BY <1>4 DEF Reconnect
    <2>2. IF fresh = {} THEN UNCHANGED <<inflight, writer>>
          ELSE Put(InOrder(closed)) /\ inflight' = MaxOf(fresh)
        BY <1>4 DEF Reconnect
    <2>3. closed \in SUBSET (traded \cup {inflight}) OBVIOUS
    <2> HIDE DEF fresh, closed
    <2>4. IsFiniteSet(closed) BY <1>f, <2>3, FS_AddElement, FS_Subset
    <2>5. Rowed(InOrder(closed)) BY <2>4, InOrderRowed
    <2>6. CASE fresh = {} BY <1>f, <2>1, <2>2, <2>6, WriterStands DEF writer
    <2>7. CASE fresh # {} BY <1>f, <2>1, <2>2, <2>5, <2>7, PutAccounts
    <2>8. QED BY <2>6, <2>7
<1>5. CASE TakeRow
    <2>1. /\ queue # <<>> /\ queue' = Tail(queue) /\ buf' = Append(buf, Head(queue))
          /\ traded' = traded
          /\ accepted' = accepted /\ dropped' = dropped /\ written' = written
        BY <1>5 DEF TakeRow, stream
    <2>2. PICK S : queue \in Seq(S) BY DEF WriterInv, Rowed
    <2>3. PICK T : buf \in Seq(T) BY DEF WriterInv, Rowed
    <2>4. Tail(queue) \in Seq(S) /\ Len(Tail(queue)) = Len(queue) - 1 /\ Head(queue) \in S
        BY <2>1, <2>2, HeadTailProperties
    <2>5. buf \in Seq(S \cup T) BY <2>3, SeqMonotonic
    <2>6. buf' \in Seq(S \cup T) /\ Len(buf') = Len(buf) + 1
        BY <2>1, <2>4, <2>5, AppendProperties
    <2>7. Rowed(queue)' /\ Rowed(buf)' BY <2>1, <2>4, <2>6 DEF Rowed
    <2>8. Len(queue) \in Nat /\ Len(buf) \in Nat BY <2>2, <2>3, LenProperties
    <2>9. Len(queue') = Len(queue) - 1 BY <2>1, <2>4
    <2>10. RowsAccounted' BY <2>1, <2>6, <2>8, <2>9 DEF WriterInv, RowsAccounted
    <2>11. QED BY <1>f, <2>1, <2>7, <2>8, <2>9, <2>10, TapeAssumption DEF WriterInv
<1>6. CASE Flush
    <2>1. /\ queue' = queue /\ buf' = <<>> /\ traded' = traded
          /\ accepted' = accepted /\ dropped' = dropped /\ written' = written + Len(buf)
        BY <1>6 DEF Flush, stream
    <2>2. Rowed(queue)' /\ Rowed(buf)' /\ Len(buf') = 0
        BY <2>1, EmptyRowed DEF WriterInv, Rowed
    <2>3. Len(queue) \in Nat /\ Len(buf) \in Nat BY RowedLen DEF WriterInv
    <2>4. RowsAccounted' BY <2>1, <2>2, <2>3 DEF WriterInv, RowsAccounted
    <2>5. QED BY <1>f, <2>1, <2>2, <2>3, <2>4 DEF WriterInv
<1>7. CASE DetectGaps BY <1>7, <1>f, WriterStands DEF DetectGaps, stream
<1>8. CASE AskRest BY <1>8, <1>f, WriterStands DEF AskRest, stream
<1>9. CASE CommitBackfill BY <1>9, <1>f, WriterStands DEF CommitBackfill, stream
<1>10. CASE Rollup BY <1>10, <1>f, WriterStands DEF Rollup, stream
<1>11. CASE AppendHistory BY <1>11, <1>f, WriterStands DEF AppendHistory, stream
<1>12. CASE Stop BY <1>12, ResetStarts DEF Stop
<1>13. CASE Kill BY <1>13, ResetStarts DEF Kill
<1>14. CASE UNCHANGED vars BY <1>14, <1>f, WriterStands DEF vars, stream
<1>15. QED
    BY <1>1, <1>2, <1>3, <1>4, <1>5, <1>6, <1>7, <1>8, <1>9, <1>10, <1>11, <1>12, <1>13, <1>14
    DEF Next, Streaming, Writing, Assessing

\* Every row handed to TapeWriter.put since the start is queued, buffered,
\* written or counted as dropped, whatever the queue's bound.
THEOREM RowsAlwaysAccounted == Spec => []RowsAccounted
<1>1. WriterInv => RowsAccounted BY DEF WriterInv
<1>2. QED BY WriterInitial, WriterStep, <1>1, PTL DEF Spec

-----------------------------------------------------------------------------
(***************************************************************************)
(* Types: only minutes of the tape travel through the writer.  What has to *)
(* be shown is that InOrder, which picks the bar of each rank, finds one.  *)
(***************************************************************************)
LEMMA MinutesFinite == ASSUME NEW S \in SUBSET Minute PROVE IsFiniteSet(S) /\ S \subseteq Nat
<1>1. Minutes \in Nat BY TapeAssumption
<1>2. IsFiniteSet(Minute) BY <1>1, FS_Interval DEF Minute
<1>3. Minute \subseteq Nat BY DEF Minute
<1>4. QED BY <1>2, <1>3, FS_Subset

\* The newest minute of a set is one of it.
LEMMA NewestMember == ASSUME NEW S \in SUBSET Minute, S # {} PROVE MaxOf(S) \in S
<1> DEFINE D == {Minutes - m : m \in S}
<1>1. Minutes \in Nat /\ \A m \in S : m \in Nat /\ m <= Minutes
    BY TapeAssumption DEF Minute
<1>2. D \subseteq Nat /\ D # {} BY <1>1
<1>3. PICK d \in D : \A e \in D : ~(<<e, d>> \in OpToRel(<, Nat))
    BY <1>2, WFMin, NatLessThanWellFounded
<1>4. PICK x \in S : d = Minutes - x BY <1>3
<1>5. ASSUME NEW m \in S PROVE m <= x
    <2>1. Minutes - m \in D BY <1>5
    <2>2. ~(Minutes - m < d) BY <1>2, <1>3, <2>1 DEF OpToRel
    <2>3. QED BY <1>1, <1>4, <1>5, <2>2
<1>6. QED BY <1>4, <1>5 DEF MaxOf

\* The rank of a minute in a set: how many of the set are earlier.
Rank(S, m) == Cardinality({n \in S : n < m})

\* Every place of the batch has its bar: ranks differ, and there are as many of
\* them as places.
LEMMA RankFound ==
    ASSUME NEW S \in SUBSET Minute, NEW i \in 1..Cardinality(S)
    PROVE  \E m \in S : Rank(S, m) = i - 1
<1> DEFINE n == Cardinality(S)
           T == 0..n - 1
           f == [m \in S |-> Rank(S, m)]
           before(m) == {k \in S : k < m}
<1>1. IsFiniteSet(S) /\ S \subseteq Nat BY MinutesFinite
<1>2. n \in Nat /\ n > 0 BY <1>1, FS_CardinalityType
<1>3. IsFiniteSet(T) /\ Cardinality(T) = n
    <2>1. n - 1 \in Int /\ ~(0 > n - 1) /\ (n - 1) - 0 + 1 = n BY <1>2
    <2> HIDE DEF n
    <2>2. QED BY <2>1, FS_Interval
<1>4. ASSUME NEW m \in S
      PROVE  /\ IsFiniteSet(before(m)) /\ Rank(S, m) = Cardinality(before(m))
             /\ Rank(S, m) \in T
    <2>1. before(m) \in SUBSET S /\ m \in S \ before(m) BY <1>1
    <2>2. IsFiniteSet(before(m)) BY <1>1, <2>1, FS_Subset
    <2>3. Cardinality(before(m)) <= n /\ Cardinality(before(m)) # n
        BY <1>1, <2>1, FS_Subset
    <2>4. Cardinality(before(m)) \in Nat BY <2>2, FS_CardinalityType
    <2>5. QED BY <1>2, <2>2, <2>3, <2>4 DEF Rank
<1>5. ASSUME NEW m \in S, NEW k \in S, m < k PROVE Rank(S, m) # Rank(S, k)
    <2>0. m \in Nat /\ k \in Nat /\ \A b \in S : b < m => b < k
        BY <1>1, <1>5
    <2>1. m \in before(k) /\ m \notin before(m) BY <1>5, <2>0
    <2>2. before(m) \in SUBSET before(k) BY <2>0
    <2>3. Cardinality(before(m)) # Cardinality(before(k)) BY <1>4, <2>1, <2>2, FS_Subset
    <2>4. QED BY <1>4, <2>3
<1>6. ASSUME NEW m \in S, NEW k \in S, f[m] = f[k] PROVE m = k
    <2>1. ~(m < k) /\ ~(k < m) BY <1>5, <1>6
    <2>2. QED BY <1>1, <2>1
<1>7. f \in [S -> T] BY <1>4
<1> HIDE DEF f, T, n
<1>8. f \in Injection(S, T) BY <1>6, <1>7 DEF Injection, IsInjective
<1>9. f \in Surjection(S, T) BY <1>1, <1>3, <1>8, FS_Injection DEF n
<1>10. i - 1 \in T BY <1>2 DEF T, n
<1>11. PICK m \in S : f[m] = i - 1 BY <1>9, <1>10 DEF Surjection
<1>12. QED BY <1>11 DEF f

LEMMA InOrderMinutes ==
    ASSUME NEW S \in SUBSET Minute
    PROVE  InOrder(S) \in Seq(Minute)
<1> DEFINE n == Cardinality(S)
           at(i) == CHOOSE m \in S : Cardinality({k \in S : k < m}) = i - 1
<1>1. n \in Nat BY MinutesFinite, FS_CardinalityType
<1>2. \A i \in 1..n : at(i) \in S BY RankFound DEF Rank
<1>3. InOrder(S) = [i \in 1..n |-> at(i)] BY DEF InOrder
<1> HIDE DEF n, at
<1>4. InOrder(S) \in [1..n -> Minute] BY <1>2, <1>3
<1>5. InOrder(S) \in UNION {[1..k -> Minute] : k \in Nat} BY <1>1, <1>4
<1>6. QED BY <1>5, SeqDef

LEMMA PutTypes ==
    ASSUME TypeOK, NEW rows \in Seq(Minute), Put(rows)
    PROVE  /\ queue' \in Seq(Minute) /\ Len(queue') <= QueueMax
           /\ buf' = buf /\ accepted' \in Nat /\ dropped' \in Nat /\ written' \in Nat
<1> DEFINE room == QueueMax - Len(queue)
           kept == IF Len(rows) <= room THEN Len(rows) ELSE room
<1>1. Len(rows) \in Nat /\ Len(queue) \in Nat BY LenProperties DEF TypeOK
<1>2. QueueMax \in Nat /\ kept \in 0..Len(rows) /\ Len(queue) + kept <= QueueMax
    BY <1>1, TapeAssumption DEF TypeOK
<1>3. /\ queue' = queue \o SubSeq(rows, 1, kept)
      /\ dropped' = dropped + Len(rows) - kept /\ accepted' = accepted + Len(rows)
      /\ buf' = buf /\ written' = written
    BY DEF Put
<1> HIDE DEF room, kept
<1>4. \A i \in 1..kept : rows[i] \in Minute BY <1>1, <1>2, ElementOfSeq
<1>5. SubSeq(rows, 1, kept) \in Seq(Minute) /\ Len(SubSeq(rows, 1, kept)) = kept
    <2>1. /\ SubSeq(rows, 1, kept) \in Seq(Minute)
          /\ Len(SubSeq(rows, 1, kept)) = IF 1 <= kept THEN kept - 1 + 1 ELSE 0
        BY <1>1, <1>2, <1>4, SubSeqProperties
    <2>2. QED BY <1>2, <2>1
<1>6. queue' \in Seq(Minute) /\ Len(queue') = Len(queue) + kept
    BY <1>3, <1>5, ConcatProperties DEF TypeOK
<1>7. kept \in Nat /\ Len(rows) - kept \in Nat BY <1>1, <1>2
<1>8. QED BY <1>1, <1>2, <1>3, <1>6, <1>7 DEF TypeOK

Recorded == {None, "ws", "backfill", "recovered"}

LEMMA InsertTypes ==
    ASSUME NEW table \in [Minute -> Recorded], NEW bars \in [Minute -> Recorded]
    PROVE  Insert(table, bars) \in [Minute -> Recorded]
BY DEF Insert

LEMMA LiveBarTypes == ASSUME NEW rows PROVE Live(rows) \in [Minute -> Recorded]
<1>1. \A m \in Minute : (IF \E i \in DOMAIN rows : rows[i] = m THEN "ws" ELSE None) \in Recorded
    BY DEF Recorded
<1>2. QED BY <1>1 DEF Live

LEMMA TypeInitial == Init => TypeOK
<1> SUFFICES ASSUME Init PROVE TypeOK
    OBVIOUS
<1>1. Minutes \in Nat /\ QueueMax \in Nat /\ Restarts \in Nat BY TapeAssumption
<1>2. now \in Minute /\ restarts \in 0..Restarts BY <1>1 DEF Init, Minute
<1>3. queue \in Seq(Minute) /\ Len(queue) <= QueueMax /\ buf \in Seq(Minute)
    BY <1>1, EmptySeq DEF Init
<1>4. \A b \in DOMAIN rolled : rolled[b] \subseteq Bucket(b) BY DEF Init
<1>5. QED BY <1>2, <1>3, <1>4 DEF Init, TypeOK

\* The stream: what it hands over are closed minutes.
LEMMA StreamTypes == ASSUME TypeOK, Streaming PROVE TypeOK'
<1> USE DEF TypeOK
<1>1. CASE NextMinute
    <2>1. now' \in Minute
        BY <1>1, TapeAssumption DEF NextMinute, Minute
    <2>2. QED BY <1>1, <2>1 DEF NextMinute, writer, assessing, Bucket
<1>2. CASE Trade
    <2>1. /\ traded' \subseteq Minute
          /\ UNCHANGED <<now, connected, db, todo, txn, rolled, hist, restarts>>
        BY <1>2 DEF Trade, assessing
    <2>2. CASE connected
        <3>1. /\ Put(IF inflight = NoBar THEN <<>> ELSE <<inflight>>) /\ inflight' = now
            BY <1>2, <2>2 DEF Trade
        <3>2. (IF inflight = NoBar THEN <<>> ELSE <<inflight>>) \in Seq(Minute)
            <4>1. CASE inflight = NoBar BY <4>1, EmptySeq
            <4>2. CASE inflight \in Minute /\ inflight # NoBar
                <5>1. <<inflight>> \in Seq(Minute) BY <4>2
                <5>2. QED BY <4>2, <5>1
            <4>3. QED BY <4>1, <4>2
        <3>3. QED BY <2>1, <3>1, <3>2, PutTypes DEF Bucket
    <2>3. CASE ~connected BY <1>2, <2>1, <2>3 DEF Trade, writer, Bucket
    <2>4. QED BY <2>2, <2>3
<1>3. CASE Drop BY <1>3 DEF Drop, writer, assessing, Bucket
<1>4. CASE Reconnect
    <2> DEFINE fresh == {m \in traded : m > now - SnapshotLen
                                          /\ (inflight # NoBar => m > inflight)}
               gone == (fresh \ {MaxOf(fresh)})
                             \cup (IF inflight = NoBar THEN {} ELSE {inflight})
    <2>1. /\ connected' = TRUE
          /\ UNCHANGED <<now, traded, db, todo, txn, rolled, hist, restarts>>
        BY <1>4 DEF Reconnect, assessing
    <2>2. IF fresh = {} THEN UNCHANGED <<inflight, writer>>
          ELSE Put(InOrder(gone)) /\ inflight' = MaxOf(fresh)
        BY <1>4 DEF Reconnect
    <2>3. fresh \in SUBSET Minute /\ gone \in SUBSET Minute OBVIOUS
    <2> HIDE DEF fresh, gone
    <2>4. CASE fresh = {} BY <2>1, <2>2, <2>4 DEF writer, Bucket
    <2>5. CASE fresh # {}
        <3>1. inflight' \in Minute BY <2>2, <2>3, <2>5, NewestMember
        <3>2. InOrder(gone) \in Seq(Minute) BY <2>3, InOrderMinutes
        <3>3. Put(InOrder(gone)) BY <2>2, <2>5
        <3>4. QED BY <2>1, <3>1, <3>2, <3>3, PutTypes DEF Bucket
    <2>6. QED BY <2>4, <2>5
<1>5. QED BY <1>1, <1>2, <1>3, <1>4 DEF Streaming

LEMMA WritingTypes == ASSUME TypeOK, Writing PROVE TypeOK'
<1> USE DEF TypeOK
<1>1. CASE TakeRow
    <2>1. /\ queue # <<>> /\ queue' = Tail(queue) /\ buf' = Append(buf, Head(queue))
          /\ UNCHANGED <<stream, accepted, dropped, written, db, assessing, rolled, hist,
                         restarts>>
        BY <1>1 DEF TakeRow
    <2>2. Tail(queue) \in Seq(Minute) /\ Len(Tail(queue)) = Len(queue) - 1
          /\ Head(queue) \in Minute
        BY <2>1, HeadTailProperties
    <2>3. buf' \in Seq(Minute) BY <2>1, <2>2, AppendProperties
    <2>4. Len(queue') <= QueueMax BY <2>1, <2>2, LenProperties, TapeAssumption
    <2>5. QED BY <2>1, <2>2, <2>3, <2>4 DEF stream, assessing, Bucket
<1>2. CASE Flush
    <2>1. db' \in [Minute -> Recorded]
        BY <1>2, LiveBarTypes, InsertTypes DEF Flush, Recorded
    <2>2. written' \in Nat BY <1>2, LenProperties DEF Flush
    <2>3. buf' \in Seq(Minute) BY <1>2, EmptySeq DEF Flush
    <2>4. QED BY <1>2, <2>1, <2>2, <2>3 DEF Flush, stream, assessing, Recorded, Bucket
<1>3. QED BY <1>1, <1>2 DEF Writing

LEMMA AssessingTypes == ASSUME TypeOK, Assessing PROVE TypeOK'
<1> USE DEF TypeOK
<1>1. CASE DetectGaps
    BY <1>1 DEF DetectGaps, Gaps, stream, writer, Bucket
<1>2. CASE AskRest
    <2>1. txn' \in [Minute -> {None, "backfill", "recovered"}] BY <1>2 DEF AskRest
    <2>2. QED BY <1>2, <2>1 DEF AskRest, stream, writer, Bucket
<1>3. CASE CommitBackfill
    <2>1. txn \in [Minute -> Recorded] BY DEF Recorded
    <2>2. db' \in [Minute -> Recorded] BY <1>3, <2>1, InsertTypes DEF CommitBackfill, Recorded
    <2>3. txn' \in [Minute -> {None, "backfill", "recovered"}] BY <1>3 DEF CommitBackfill
    <2>4. QED BY <1>3, <2>2, <2>3 DEF CommitBackfill, stream, writer, Recorded, Bucket
<1>4. QED BY <1>1, <1>2, <1>3 DEF Assessing

\* The derived tables: a bucket holds its own minutes, the warehouse what the
\* tape held.
LEMMA DerivedTypes == ASSUME TypeOK, Rollup \/ AppendHistory PROVE TypeOK'
<1> USE DEF TypeOK
<1>1. CASE Rollup
    <2> DEFINE base == {m \in Stored : m >= now - RollLookback}
    <2>1. rolled' = [b \in DOMAIN rolled |->
                         IF Bucket(b) \cap base # {} THEN Bucket(b) \cap base ELSE rolled[b]]
        BY <1>1 DEF Rollup
    <2>2. \A b \in DOMAIN rolled' : rolled'[b] \subseteq Bucket(b) BY <2>1
    <2>3. QED BY <1>1, <2>2 DEF Rollup, stream, writer, assessing, Bucket
<1>2. CASE AppendHistory
    <2>1. PICK from : hist' = Insert(hist, [m \in Minute |-> IF m >= from THEN db[m] ELSE None])
        BY <1>2 DEF AppendHistory
    <2>2. [m \in Minute |-> IF m >= from THEN db[m] ELSE None] \in [Minute -> Recorded]
        BY DEF Recorded
    <2>3. hist' \in [Minute -> Recorded] BY <2>1, <2>2, InsertTypes DEF Recorded
    <2>4. QED BY <1>2, <2>3 DEF AppendHistory, stream, writer, assessing, Recorded, Bucket
<1>3. QED BY <1>1, <1>2

LEMMA ResetTypes == ASSUME TypeOK, Reset, db' \in [Minute -> Recorded] PROVE TypeOK'
<1>1. restarts' \in 0..Restarts BY TapeAssumption DEF Reset, TypeOK
<1>2. queue' \in Seq(Minute) /\ Len(queue') <= QueueMax /\ buf' \in Seq(Minute)
    BY EmptySeq, TapeAssumption DEF Reset
<1>3. inflight' = NoBar /\ NoBar' = NoBar BY DEF Reset, NoBar
<1>4. txn' \in [Minute -> {None, "backfill", "recovered"}] BY DEF Reset
<1>5. QED BY <1>1, <1>2, <1>3, <1>4 DEF Reset, TypeOK, Recorded, Bucket

LEMMA TypeStep == TypeOK /\ [Next]_vars => TypeOK'
<1> SUFFICES ASSUME TypeOK, [Next]_vars PROVE TypeOK'
    OBVIOUS
<1>0. db \in [Minute -> Recorded] BY DEF TypeOK, Recorded
<1>1. CASE Stop
    <2>1. db' = Insert(db, Live(buf \o queue)) /\ Reset BY <1>1 DEF Stop
    <2>2. QED BY <1>0, <2>1, LiveBarTypes, InsertTypes, ResetTypes
<1>2. CASE Kill BY <1>0, <1>2, ResetTypes DEF Kill
<1>3. CASE UNCHANGED vars BY <1>3 DEF vars, stream, writer, assessing, TypeOK, Bucket
<1>4. QED
    BY <1>1, <1>2, <1>3, StreamTypes, WritingTypes, AssessingTypes, DerivedTypes DEF Next

\* The types of the tape hold for every length of the snapshot and the windows;
\* the queue never exceeds its bound (TapeWriter.put) and every batch of closed
\* bars is made of minutes.
THEOREM TapeTypes == Spec => []TypeOK
BY TypeInitial, TypeStep, PTL DEF Spec
=============================================================================

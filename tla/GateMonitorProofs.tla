------------------------- MODULE GateMonitorProofs -------------------------
(***************************************************************************)
(* An hour the stream saw whole is written whole and evaluated, for every  *)
(* length of the hour and of the snapshot, over reconnections, REST,       *)
(* polls and restarts; and the bars come in order.                         *)
(*                                                                         *)
(* Two folds lie between a message and a candle: the entries of a message  *)
(* close bars, the closed bars fill the buffer.  Each is followed one      *)
(* element at a time; then an invariant says what the buffer and the bar   *)
(* in flight hold of the hours that are still to be closed.                *)
(***************************************************************************)
EXTENDS GateMonitor, RecursionProofs

-----------------------------------------------------------------------------
(***************************************************************************)
(* The calendar.                                                           *)
(***************************************************************************)
\* A minute lies in its hour.
LEMMA HourBounds ==
    ASSUME NEW b \in Nat
    PROVE  /\ Hour(b) \in Nat /\ Last1m(Hour(b)) \in Nat
           /\ Hour(b) * HourLen <= b /\ b <= Last1m(Hour(b))
<1> DEFINE q == b \div HourLen
           r == b % HourLen
<1>1. HourLen \in Nat /\ HourLen > 0
    BY MonitorAssumption
<1>2. q \in Nat
    BY <1>1, SMT
<1>3. r \in 0..HourLen - 1
    BY <1>1, SMT
<1>4. b = HourLen * q + r
    BY <1>1, SMT
<1> HIDE DEF q, r
<1>5. q * HourLen \in Nat /\ q * HourLen = HourLen * q
    BY <1>1, <1>2
<1>6. q * HourLen <= b /\ b <= q * HourLen + HourLen - 1 /\ q * HourLen + HourLen - 1 \in Nat
    BY <1>1, <1>3, <1>4, <1>5
<1> QED BY <1>2, <1>6 DEF q, Hour, Last1m

\* The minutes up to the last of an hour are those of the hours up to it.
LEMMA UpToLast ==
    ASSUME NEW b \in Nat, NEW h \in Nat
    PROVE  Last1m(h) \in Nat /\ (b <= Last1m(h) <=> Hour(b) <= h)
<1> DEFINE g == Hour(b)
<1>1. HourLen \in Nat /\ HourLen > 0
    BY MonitorAssumption
<1>2. g \in Nat /\ g * HourLen <= b /\ b <= g * HourLen + HourLen - 1
    BY HourBounds DEF Last1m
<1> HIDE DEF g
<1>3. h * HourLen \in Nat /\ g * HourLen \in Nat
    BY <1>1, <1>2
<1>4. ASSUME g <= h PROVE g * HourLen <= h * HourLen
    <2>1. h - g \in Nat
        BY <1>2, <1>4
    <2>2. (h - g) * HourLen \in Nat /\ (h - g) * HourLen = h * HourLen - g * HourLen
        BY <1>1, <1>2, <2>1
    <2> QED BY <1>3, <2>2
<1>5. ASSUME g > h PROVE g * HourLen >= h * HourLen + HourLen
    <2>1. g - h - 1 \in Nat
        BY <1>2, <1>5
    <2>2. (g - h - 1) * HourLen \in Nat
        BY <1>1, <2>1
    <2>3. (g - h - 1) * HourLen = g * HourLen - h * HourLen - HourLen
        BY <1>1, <1>2
    <2> QED BY <1>1, <1>3, <2>2, <2>3
<1>6. h * HourLen + HourLen - 1 \in Nat
    BY <1>1, <1>3
<1>7. b <= h * HourLen + HourLen - 1 <=> g <= h
    BY <1>1, <1>2, <1>3, <1>4, <1>5
<1> QED BY <1>6, <1>7 DEF Last1m, g

\* The last minute of an hour is its own.
LEMMA HourOfLast == ASSUME NEW h \in Nat PROVE Hour(Last1m(h)) = h
<1>1. Last1m(h) \in Nat /\ Hour(Last1m(h)) <= h /\ Hour(Last1m(h)) \in Nat
    BY UpToLast, HourBounds
<1>2. ASSUME Hour(Last1m(h)) < h PROVE FALSE
    <2>1. h - 1 \in Nat /\ Hour(Last1m(h)) <= h - 1
        BY <1>1, <1>2
    <2>2. Last1m(h) <= Last1m(h - 1)
        BY <1>1, <2>1, UpToLast
    <2>3. HourLen \in Nat /\ HourLen > 0
        BY MonitorAssumption
    <2>4. (h - 1) * HourLen = h * HourLen - HourLen /\ h * HourLen \in Int
        BY <2>3
    <2> QED BY <2>2, <2>3, <2>4 DEF Last1m
<1> QED BY <1>1, <1>2

\* Later minutes lie in no earlier hours.
LEMMA HourMonotone ==
    ASSUME NEW b \in Nat, NEW c \in Nat, b <= c PROVE Hour(b) <= Hour(c)
<1>1. Hour(c) \in Nat /\ c <= Last1m(Hour(c)) /\ Last1m(Hour(c)) \in Nat
    BY HourBounds
<1>2. b <= Last1m(Hour(c))
    BY <1>1
<1> QED BY <1>1, <1>2, UpToLast

\* A minute of the model lies in an hour of the model.
LEMMA HourOfBar ==
    ASSUME NEW b \in Bars
    PROVE  b \in Nat /\ Hour(b) \in Hours /\ Hours \subseteq Nat
<1>1. Minutes - 1 \in Nat /\ b \in Nat /\ b <= Minutes - 1
    BY SocketAssumption DEF Bars
<1>2. Hour(b) \in Nat /\ Hour(b) <= Hour(Minutes - 1) /\ Hour(Minutes - 1) \in Nat
    BY <1>1, HourBounds, HourMonotone
<1> QED BY <1>1, <1>2 DEF Hours

-----------------------------------------------------------------------------
(***************************************************************************)
(* The first fold: entries close bars.                                     *)
(***************************************************************************)
Entry == Payload \cup [begin : Int, seen : {0}]
Accs  == [inflight : Payload \cup {None}, closed : Seq(Payload)]

\* No bar is the absent one.
LEMMA NoneIsNoBar == None \notin Payload /\ \A p \in Payload : p.begin # -1
<1>1. \A b \in Bars : b >= 0
    BY SocketAssumption DEF Bars
<1> QED BY <1>1 DEF None, Payload

LEMMA EnteredType ==
    ASSUME NEW r \in Accs, NEW e \in Entry, NEW snapshot
    PROVE  Entered(r, e, snapshot) \in Accs
<1>1. CASE e.seen = 0 \/ ~Taken(r, e, snapshot)
    BY <1>1 DEF Entered
<1>2. CASE ~(e.seen = 0 \/ ~Taken(r, e, snapshot))
    <2>1. e \in Payload
        BY <1>2 DEF Entry
    <2>2. r.inflight # None => Append(r.closed, r.inflight) \in Seq(Payload)
        BY DEF Accs
    <2> QED BY <1>2, <2>1, <2>2 DEF Entered, Accs
<1> QED BY <1>1, <1>2

\* What a message does is a walk over its entries.
LEMMA HandledWalk ==
    ASSUME inflight \in Payload \cup {None}, NEW E \in Seq(Entry), NEW snapshot,
           HandleOhlc(E, snapshot)
    PROVE  \E w : /\ w[0] = [inflight |-> inflight, closed |-> << >>]
                  /\ \A k \in 1..Len(E) : w[k] = Entered(w[k - 1], E[k], snapshot)
                  /\ inflight' = w[Len(E)].inflight /\ closed' = w[Len(E)].closed
<1> DEFINE n == Len(E)
           x0 == [inflight |-> inflight, closed |-> << >>]
           G == [k \in 1..n |-> [x \in Accs |-> Entered(x, E[k], snapshot)]]
           Sum(f) == [t \in SUBSET DOMAIN E |->
                         IF t = {} THEN x0 ELSE Entered(f[t \ {Max(t)}], E[Max(t)], snapshot)]
           h == CHOOSE f : f = Sum(f)
           w == [k \in 0..n |-> h[1..k]]
<1>1. n \in Nat /\ DOMAIN E = 1..n /\ \A k \in 1..n : E[k] \in Entry
    OBVIOUS
<1>2. inflight' = h[1..n].inflight /\ closed' = h[1..n].closed
    <2>1. inflight' = h[DOMAIN E].inflight /\ closed' = h[DOMAIN E].closed
        BY Zenon DEF HandleOhlc, FoldLeft, MapThenFoldSet
    <2> HIDE DEF h
    <2> QED BY <2>1, <1>1
<1>3. x0 \in Accs
    BY DEF Accs
<1>4. \A k \in 1..n : G[k] \in [Accs -> Accs]
    BY <1>1, EnteredType
<1>5. PICK f : IsFold(f, n, Accs, x0, G)
    <2> HIDE DEF G, n, Sum, h, w, x0
    <2> QED BY <1>1, <1>3, <1>4, FoldExists
<1>6. f = Sum(f)
    <2>1. /\ f \in [SUBSET (1..n) -> Accs] /\ f[{}] = x0
          /\ \A t \in SUBSET (1..n) :
                t # {} => Max(t) \in t /\ f[t] = G[Max(t)][f[t \ {Max(t)}]]
        <3> HIDE DEF G, n, x0
        <3> QED BY <1>5 DEF IsFold
    <2>2. ASSUME NEW t \in SUBSET (1..n), t # {}
          PROVE  f[t] = Entered(f[t \ {Max(t)}], E[Max(t)], snapshot)
        <3>1. Max(t) \in 1..n /\ f[t] = G[Max(t)][f[t \ {Max(t)}]]
            BY <2>1, <2>2
        <3>2. t \ {Max(t)} \in SUBSET (1..n)
            OBVIOUS
        <3>3. f[t \ {Max(t)}] \in Accs
            BY <2>1, <3>2
        <3> QED BY <3>1, <3>3
    <2>3. \A t \in SUBSET (1..n) : f[t] = Sum(f)[t]
        BY <2>1, <2>2, <1>1
    <2>4. DOMAIN Sum(f) = SUBSET (1..n)
        BY <1>1
    <2>5. Sum(f) = [t \in DOMAIN Sum(f) |-> Sum(f)[t]]
        OBVIOUS
    <2>6. f = [t \in SUBSET (1..n) |-> f[t]]
        BY <2>1
    <2> HIDE DEF Sum, n
    <2> QED BY <2>3, <2>4, <2>5, <2>6
<1>7. h = Sum(h)
    <2> HIDE DEF Sum
    <2> QED BY <1>6
<1>8. h[{}] = x0 /\ \A k \in 1..n : h[1..k] = Entered(h[1..k - 1], E[k], snapshot)
    <2>1. \A t \in SUBSET (1..n) :
             h[t] = IF t = {} THEN x0 ELSE Entered(h[t \ {Max(t)}], E[Max(t)], snapshot)
        <3> HIDE DEF h
        <3> QED BY <1>1, <1>7
    <2>2. \A k \in 1..n : 1..k \in SUBSET (1..n) /\ Max(1..k) = k /\ (1..k) \ {k} = 1..k - 1 /\ 1..k # {}
        BY MaxUpTo
    <2> HIDE DEF h, x0
    <2> QED BY <2>1, <2>2
<1>9. w[0] = x0 /\ w[n] = h[1..n] /\ \A k \in 1..n : w[k] = Entered(w[k - 1], E[k], snapshot)
    <2>1. 1..0 = {} /\ 0 \in 0..n /\ n \in 0..n /\ \A k \in 1..n : k \in 0..n /\ k - 1 \in 0..n
        BY <1>1
    <2> HIDE DEF h
    <2> QED BY <1>8, <2>1
<1> HIDE DEF w, h
<1> QED BY <1>2, <1>9

\* What a message may be: its entries go forward and tell the trades there are.
Honest(E, trades) ==
    /\ E \in Seq(Entry)
    /\ \A i \in 1..Len(E) :
          /\ E[i].seen > 0 => E[i].seen = trades[E[i].begin]
          /\ \A j \in 1..i - 1 : E[j].begin < E[i].begin

\* What k entries of it have done: the bars closed are in order, between the bar
\* that was in flight and the one that is, and none of the later entries is lost.
InOrder(r) ==
    \A i \in 1..Len(r.closed) :
        /\ inflight.begin <= r.closed[i].begin /\ r.closed[i].begin < r.inflight.begin
        /\ \A j \in 1..i - 1 : r.closed[j].begin < r.closed[i].begin
Told(r, trades) ==
    /\ r.inflight = inflight \/ (r.inflight # None /\ r.inflight.seen = trades[r.inflight.begin])
    /\ \A i \in 1..Len(r.closed) :
          r.closed[i] = inflight \/ r.closed[i].seen = trades[r.closed[i].begin]
Passed(r, b) == b = r.inflight.begin \/ \E i \in 1..Len(r.closed) : r.closed[i].begin = b
Covers(r, E, k) ==
    /\ inflight # None => Passed(r, inflight.begin)
    /\ \A j \in 1..k : E[j].seen > 0 /\ E[j].begin > inflight.begin => Passed(r, E[j].begin)
Newest(r, E, k) ==
    /\ r.inflight.begin >= inflight.begin
    /\ \/ r.inflight.begin = inflight.begin
       \/ \E j \in 1..k : E[j].seen > 0 /\ r.inflight.begin = E[j].begin
SoFar(r, E, k, trades) ==
    r \in Accs /\ InOrder(r) /\ Told(r, trades) /\ Covers(r, E, k) /\ Newest(r, E, k)

\* One entry more.
LEMMA EnteredSoFar ==
    ASSUME inflight \in Payload \cup {None}, NEW trades, NEW E, Honest(E, trades),
           NEW k \in Nat, k + 1 <= Len(E), NEW snapshot, NEW r, SoFar(r, E, k, trades)
    PROVE  SoFar(Entered(r, E[k + 1], snapshot), E, k + 1, trades)
<1> DEFINE e == E[k + 1]
           s == Entered(r, e, snapshot)
<1>1. /\ Len(E) \in Nat /\ e \in Entry
      /\ e.seen > 0 => e \in Payload /\ e.seen = trades[e.begin]
      /\ \A j \in 1..k : E[j].begin < e.begin /\ E[j] \in Entry
    <2>1. E \in Seq(Entry) /\ k + 1 \in 1..Len(E) /\ Len(E) \in Nat
        BY DEF Honest
    <2>2. \A j \in 1..k : j \in 1..(k + 1) - 1 /\ j \in 1..Len(E)
        BY <2>1
    <2>3. e \in Entry /\ \A j \in 1..k : E[j] \in Entry
        BY <2>1, <2>2
    <2>4. e.seen > 0 => e \in Payload
        BY <2>3 DEF Entry
    <2> QED BY <2>1, <2>2, <2>3, <2>4 DEF Honest
<1>2. s \in Accs
    BY <1>1, EnteredType DEF SoFar
<1>3. /\ r.inflight \in Payload \cup {None} /\ r.closed \in Seq(Payload)
      /\ r.inflight.begin \in Int /\ inflight.begin \in Int /\ e.begin \in Int
    BY <1>1 DEF SoFar, Accs, Payload, None, Entry, Bars
<1> HIDE DEF e, s
<1>4. CASE e.seen = 0 \/ ~Taken(r, e, snapshot)
    <2>1. s = r
        BY <1>4 DEF s, Entered
    <2>2. ASSUME e.seen > 0, e.begin > inflight.begin PROVE FALSE
        <3>1. ~(e.begin > r.inflight.begin)
            BY <1>4, <2>2 DEF Taken
        <3>2. r.inflight.begin # inflight.begin
            BY <3>1, <2>2, <1>3
        <3>3. PICK j \in 1..k : r.inflight.begin = E[j].begin
            BY <3>2 DEF SoFar, Newest
        <3> QED BY <3>1, <3>3, <1>1, <1>3
    <2>3. \A j \in 1..k + 1 : j \in 1..k \/ E[j] = e
        BY DEF e
    <2>4. Covers(s, E, k + 1)
        BY <2>1, <2>2, <2>3 DEF Covers, SoFar
    <2>5. Newest(s, E, k + 1)
        BY <2>1 DEF Newest, SoFar
    <2> QED BY <1>2, <2>1, <2>4, <2>5 DEF SoFar, e, s
<1>5. CASE e.seen > 0 /\ e.begin > r.inflight.begin
    <2>1. e \in Payload /\ e.seen = trades[e.begin] /\ Taken(r, e, snapshot)
        BY <1>1, <1>5 DEF Taken
    <2>2. s.inflight = e /\ s.closed = IF r.inflight # None THEN Append(r.closed, r.inflight) ELSE r.closed
        BY <1>3, <1>5, <2>1 DEF s, Entered
    <2> DEFINE m == Len(r.closed)
    <2>3. m \in Nat
        BY <1>3
    <2>4. \A i \in 1..m : i \in 1..Len(s.closed) /\ s.closed[i] = r.closed[i]
        BY <2>2, <1>3
    <2>5. \A i \in 1..Len(s.closed) :
             \/ i \in 1..m
             \/ i = m + 1 /\ s.closed[i] = r.inflight /\ r.inflight # None
        BY <2>2, <1>3
    <2>6. r.inflight # None => m + 1 \in 1..Len(s.closed) /\ s.closed[m + 1] = r.inflight
        BY <2>2, <1>3
    <2> HIDE DEF m
    <2>7. InOrder(s)
        <3> SUFFICES ASSUME NEW i \in 1..Len(s.closed)
                     PROVE  /\ inflight.begin <= s.closed[i].begin /\ s.closed[i].begin < s.inflight.begin
                            /\ \A j \in 1..i - 1 : s.closed[j].begin < s.closed[i].begin
            BY DEF InOrder
        <3>1. \A j \in 1..m : /\ inflight.begin <= r.closed[j].begin
                              /\ r.closed[j].begin < r.inflight.begin /\ r.closed[j].begin \in Int
            <4>1. \A j \in 1..m : r.closed[j] \in Payload
                BY <1>3 DEF m
            <4> QED BY <4>1 DEF SoFar, InOrder, m, Payload, Bars
        <3>2. CASE i \in 1..m
            <4>1. \A j \in 1..i - 1 : j \in 1..m /\ r.closed[j].begin < r.closed[i].begin
                BY <3>2, <2>3 DEF SoFar, InOrder, m
            <4>2. r.closed[i].begin < e.begin
                BY <1>3, <1>5, <3>1, <3>2
            <4> QED BY <2>2, <2>4, <3>1, <3>2, <4>1, <4>2
        <3>3. CASE i = m + 1 /\ s.closed[i] = r.inflight
            <4>1. \A j \in 1..i - 1 : j \in 1..m
                BY <3>3, <2>3
            <4>2. inflight.begin <= r.inflight.begin
                BY DEF SoFar, Newest
            <4> QED BY <1>3, <1>5, <2>2, <2>4, <3>1, <3>3, <4>1, <4>2
        <3> QED BY <2>5, <3>2, <3>3
    <2>8. Told(s, trades)
        <3>1. s.inflight # None
            BY <2>1, <2>2, NoneIsNoBar
        <3>2. \A i \in 1..m : r.closed[i] = inflight \/ r.closed[i].seen = trades[r.closed[i].begin]
            BY DEF SoFar, Told, m
        <3>3. r.inflight = inflight \/ r.inflight.seen = trades[r.inflight.begin]
            BY DEF SoFar, Told
        <3> QED BY <2>1, <2>2, <2>4, <2>5, <3>1, <3>2, <3>3 DEF Told
    <2>9. \A b \in Int : b # -1 /\ Passed(r, b) => Passed(s, b)
        <3> SUFFICES ASSUME NEW b \in Int, b # -1, Passed(r, b) PROVE Passed(s, b)
            OBVIOUS
        <3>1. CASE b = r.inflight.begin
            <4>1. r.inflight # None
                BY <3>1 DEF None
            <4> QED BY <3>1, <4>1, <2>6 DEF Passed
        <3>2. CASE \E i \in 1..m : r.closed[i].begin = b
            BY <3>2, <2>4 DEF Passed
        <3> QED BY <3>1, <3>2 DEF Passed, m
    <2>10. Covers(s, E, k + 1)
        <3>1. inflight # None => Passed(s, inflight.begin)
            BY <1>3, <2>9, NoneIsNoBar DEF SoFar, Covers
        <3>2. ASSUME NEW j \in 1..k + 1, E[j].seen > 0, E[j].begin > inflight.begin
              PROVE  Passed(s, E[j].begin)
            <4>1. CASE j = k + 1
                BY <4>1, <2>2 DEF Passed, e
            <4>2. CASE j \in 1..k
                <5>1. E[j] \in Payload
                    BY <1>1, <3>2, <4>2 DEF Entry
                <5>2. E[j].begin \in Int /\ E[j].begin # -1
                    BY <5>1, NoneIsNoBar DEF Payload, Bars
                <5> QED BY <2>9, <3>2, <4>2, <5>2 DEF SoFar, Covers
            <4> QED BY <4>1, <4>2
        <3> QED BY <3>1, <3>2 DEF Covers
    <2>11. Newest(s, E, k + 1)
        <3>1. e.begin >= inflight.begin
            BY <1>3, <1>5 DEF SoFar, Newest
        <3>2. k + 1 \in 1..k + 1
            OBVIOUS
        <3> QED BY <1>5, <2>2, <3>1, <3>2 DEF Newest, e
    <2> QED BY <1>2, <2>7, <2>8, <2>10, <2>11 DEF SoFar, e, s
<1>6. CASE e.seen > 0 /\ Taken(r, e, snapshot) /\ ~(e.begin > r.inflight.begin)
    <2>1. e \in Payload /\ e.seen = trades[e.begin] /\ e.begin = r.inflight.begin
        BY <1>1, <1>6 DEF Taken
    <2>2. s.inflight = e /\ s.closed = r.closed
        BY <1>6, <2>1 DEF s, Entered
    <2>3. e # None
        BY <2>1, NoneIsNoBar
    <2>4. InOrder(s) /\ Told(s, trades)
        BY <2>1, <2>2, <2>3 DEF SoFar, InOrder, Told
    <2>5. \A b : Passed(r, b) => Passed(s, b)
        BY <2>1, <2>2 DEF Passed
    <2>6. Covers(s, E, k + 1)
        <3>1. \A j \in 1..k + 1 : j \in 1..k \/ E[j].begin = s.inflight.begin
            BY <2>2 DEF e
        <3> QED BY <2>5, <3>1 DEF SoFar, Covers, Passed
    <2>7. Newest(s, E, k + 1)
        BY <2>1, <2>2 DEF SoFar, Newest
    <2> QED BY <1>2, <2>4, <2>6, <2>7 DEF SoFar, e, s
<1>7. e.seen = 0 \/ e.seen > 0
    BY <1>1 DEF Entry, Payload
<1> QED BY <1>4, <1>5, <1>6, <1>7

\* What a whole message does.
LEMMA Handled ==
    ASSUME inflight \in Payload \cup {None}, NEW E, Honest(E, content'), NEW snapshot,
           HandleOhlc(E, snapshot)
    PROVE  SoFar([inflight |-> inflight', closed |-> closed'], E, Len(E), content')
<1>1. E \in Seq(Entry) /\ Len(E) \in Nat
    BY DEF Honest
<1>2. PICK w : /\ w[0] = [inflight |-> inflight, closed |-> << >>]
               /\ \A k \in 1..Len(E) : w[k] = Entered(w[k - 1], E[k], snapshot)
               /\ inflight' = w[Len(E)].inflight /\ closed' = w[Len(E)].closed
    BY <1>1, HandledWalk
<1> DEFINE S == {m \in Nat : m <= Len(E) => SoFar(w[m], E, m, content')}
<1>3. 0 \in S
    <2>1. w[0] \in Accs /\ w[0].inflight = inflight /\ w[0].closed = << >>
        BY <1>2 DEF Accs
    <2>2. inflight.begin \in Int
        BY DEF Payload, None, Bars
    <2>3. SoFar(w[0], E, 0, content')
        BY <2>1, <2>2 DEF SoFar, InOrder, Told, Covers, Passed, Newest
    <2> QED BY <2>3
<1>4. ASSUME NEW m \in Nat, m \in S PROVE m + 1 \in S
    <2> SUFFICES ASSUME m + 1 <= Len(E) PROVE SoFar(w[m + 1], E, m + 1, content')
        OBVIOUS
    <2>1. m + 1 \in 1..Len(E) /\ (m + 1) - 1 = m /\ SoFar(w[m], E, m, content')
        BY <1>1, <1>4
    <2>2. w[m + 1] = Entered(w[m], E[m + 1], snapshot)
        BY <1>2, <2>1
    <2> QED BY <2>1, <2>2, EnteredSoFar
<1>5. Nat \subseteq S
    <2> HIDE DEF S
    <2> QED BY <1>3, <1>4, SetInduction
<1>6. SoFar(w[Len(E)], E, Len(E), content')
    BY <1>1, <1>5
<1>7. w[Len(E)] = [inflight |-> inflight', closed |-> closed']
    BY <1>2, <1>6 DEF SoFar, Accs
<1> QED BY <1>6, <1>7

-----------------------------------------------------------------------------
(***************************************************************************)
(* The second fold: closed bars fill the buffer and the candles.           *)
(***************************************************************************)
Buffers  == UNION {[D -> 1..MaxTrades] : D \in SUBSET Bars}
Candles  == [seen : Buffers, close : Payload \cup {None}]
Monitors == [buffer : Buffers, candles : [Hours -> Candles],
             evaluated : SUBSET Hours, lastEval : Hours \cup {-1}]

Held(f, h) == [b \in DOMAIN f \cap MinutesOf(h) |-> f[b]]
Monitor == [buffer |-> buffer, candles |-> candles, evaluated |-> evaluated,
            lastEval |-> lastEval]

\* A buffer is a function of some minutes.
LEMMA BufferIs ==
    ASSUME NEW f PROVE f \in Buffers <=> /\ f = [b \in DOMAIN f |-> f[b]]
                                         /\ DOMAIN f \subseteq Bars
                                         /\ \A b \in DOMAIN f : f[b] \in 1..MaxTrades
<1>1. ASSUME f \in Buffers
      PROVE  /\ f = [b \in DOMAIN f |-> f[b]] /\ DOMAIN f \subseteq Bars
             /\ \A b \in DOMAIN f : f[b] \in 1..MaxTrades
    <2>1. PICK D \in SUBSET Bars : f \in [D -> 1..MaxTrades]
        BY <1>1 DEF Buffers
    <2> QED BY <2>1
<1>2. ASSUME f = [b \in DOMAIN f |-> f[b]], DOMAIN f \subseteq Bars,
             \A b \in DOMAIN f : f[b] \in 1..MaxTrades
      PROVE  f \in Buffers
    <2>1. f \in [DOMAIN f -> 1..MaxTrades]
        BY <1>2
    <2> QED BY <1>2, <2>1 DEF Buffers
<1> QED BY <1>1, <1>2

\* The higher of two counts is a count.
LEMMA InsertedType ==
    ASSUME NEW c \in Candles, NEW f \in Buffers, NEW p \in Payload
    PROVE  InsertCandle(c, f, p) \in Candles
<1> DEFINE all == DOMAIN c.seen \cup DOMAIN f
           At(g, b) == IF b \in DOMAIN g THEN g[b] ELSE 0
           new == [b \in all |-> Max2(At(c.seen, b), At(f, b))]
<1>1. /\ DOMAIN c.seen \subseteq Bars /\ \A b \in DOMAIN c.seen : c.seen[b] \in 1..MaxTrades
      /\ DOMAIN f \subseteq Bars /\ \A b \in DOMAIN f : f[b] \in 1..MaxTrades
    BY BufferIs DEF Candles
<1>2. MaxTrades \in Nat
    BY SocketAssumption
<1>3. ASSUME NEW b \in all PROVE new[b] \in 1..MaxTrades
    <2>1. At(c.seen, b) \in 0..MaxTrades /\ At(f, b) \in 0..MaxTrades
        BY <1>1, <1>2
    <2>2. At(c.seen, b) > 0 \/ At(f, b) > 0
        BY <1>1, <1>2
    <2> HIDE DEF At
    <2> QED BY <1>2, <2>1, <2>2 DEF Max2
<1>4. new = [b \in DOMAIN new |-> new[b]] /\ DOMAIN new \subseteq Bars
    BY <1>1
<1>5. new \in Buffers
    <2> HIDE DEF new
    <2>1. \A b \in DOMAIN new : new[b] \in 1..MaxTrades
        BY <1>3 DEF new
    <2> QED BY <1>4, <2>1, BufferIs
<1>6. InsertCandle(c, f, p) = [seen |-> new, close |-> p]
    BY DEF InsertCandle
<1> HIDE DEF new
<1> QED BY <1>5, <1>6 DEF Candles

\* What one closed bar does.
Kept(r, p) == [b \in DOMAIN r.buffer \cup {p.begin} |->
                  IF b = p.begin THEN p.seen ELSE r.buffer[b]]

LEMMA ClosedIs ==
    ASSUME NEW r \in Monitors, NEW p \in Payload
    PROVE  /\ Kept(r, p) \in Buffers /\ Hour(p.begin) \in Hours
           /\ OnBarClosed(r, p) \in Monitors
           /\ OnBarClosed(r, p).buffer = Kept(r, p)
           /\ LastMinute(p) /\ Hour(p.begin) # r.lastEval =>
                 /\ OnBarClosed(r, p).lastEval = Hour(p.begin)
                 /\ OnBarClosed(r, p).evaluated = r.evaluated \cup {Hour(p.begin)}
                 /\ OnBarClosed(r, p).candles =
                       [r.candles EXCEPT ![Hour(p.begin)] =
                           InsertCandle(@, Held(Kept(r, p), Hour(p.begin)), p)]
           /\ ~(LastMinute(p) /\ Hour(p.begin) # r.lastEval) =>
                 OnBarClosed(r, p) = [r EXCEPT !.buffer = Kept(r, p)]
<1> DEFINE h == Hour(p.begin)
           kept == Kept(r, p)
           held == Held(kept, h)
<1>1. /\ p.begin \in Bars /\ p.seen \in 1..MaxTrades
      /\ r.buffer \in Buffers /\ r.candles \in [Hours -> Candles]
      /\ r.evaluated \subseteq Hours /\ r.lastEval \in Hours \cup {-1}
    BY DEF Payload, Monitors
<1>2. DOMAIN r.buffer \subseteq Bars /\ \A b \in DOMAIN r.buffer : r.buffer[b] \in 1..MaxTrades
    BY <1>1, BufferIs
<1>3. kept = [b \in DOMAIN kept |-> kept[b]] /\ DOMAIN kept = DOMAIN r.buffer \cup {p.begin}
    BY DEF Kept
<1>4. \A b \in DOMAIN kept : kept[b] \in 1..MaxTrades
    BY <1>1, <1>2 DEF Kept
<1>5. kept \in Buffers
    <2> HIDE DEF kept
    <2> QED BY <1>1, <1>2, <1>3, <1>4, BufferIs
<1>6. h \in Hours
    BY <1>1, HourOfBar
<1>7. held \in Buffers
    <2> HIDE DEF kept
    <2>1. held = [b \in DOMAIN held |-> held[b]] /\ DOMAIN held \subseteq DOMAIN kept
        BY DEF Held
    <2>2. \A b \in DOMAIN held : held[b] = kept[b]
        BY DEF Held
    <2> HIDE DEF held
    <2> QED BY <1>1, <1>2, <1>3, <1>4, <2>1, <2>2, BufferIs
<1>8. OnBarClosed(r, p) =
         IF LastMinute(p) /\ h # r.lastEval
         THEN [buffer |-> kept, lastEval |-> h,
               candles |-> [r.candles EXCEPT ![h] = InsertCandle(@, held, p)],
               evaluated |-> r.evaluated \cup {h}]
         ELSE [r EXCEPT !.buffer = kept]
    BY DEF OnBarClosed, Kept, Held
<1>9. InsertCandle(r.candles[h], held, p) \in Candles
    <2> HIDE DEF held
    <2> QED BY <1>1, <1>6, <1>7, InsertedType
<1> HIDE DEF h, kept, held
<1>10. [r.candles EXCEPT ![h] = InsertCandle(@, held, p)] \in [Hours -> Candles]
    BY <1>1, <1>9
<1>11. CASE LastMinute(p) /\ h # r.lastEval
    <2>1. OnBarClosed(r, p) \in Monitors
        BY <1>1, <1>5, <1>6, <1>8, <1>10, <1>11 DEF Monitors
    <2> QED BY <1>5, <1>6, <1>8, <1>11, <2>1 DEF h, kept, held
<1>12. CASE ~(LastMinute(p) /\ h # r.lastEval)
    <2>1. OnBarClosed(r, p) = [r EXCEPT !.buffer = kept]
        BY <1>8, <1>12
    <2>2. OnBarClosed(r, p) \in Monitors /\ OnBarClosed(r, p).buffer = kept
        BY <1>5, <2>1 DEF Monitors
    <2> QED BY <1>5, <1>6, <1>12, <2>1, <2>2 DEF h, kept, held
<1> QED BY <1>11, <1>12

\* What the callbacks of a step do is a walk over the bars it closed.
LEMMA ClosedWalk ==
    ASSUME Monitor \in Monitors, closed' \in Seq(Payload), OnOhlcClosed
    PROVE  \E w : /\ w[0] = Monitor
                  /\ \A k \in 1..Len(closed') : w[k] = OnBarClosed(w[k - 1], closed'[k])
                  /\ buffer' = w[Len(closed')].buffer /\ candles' = w[Len(closed')].candles
                  /\ evaluated' = w[Len(closed')].evaluated
                  /\ lastEval' = w[Len(closed')].lastEval
<1> DEFINE E == closed'
           n == Len(E)
           x0 == Monitor
           G == [k \in 1..n |-> [x \in Monitors |-> OnBarClosed(x, E[k])]]
           Sum(f) == [t \in SUBSET DOMAIN E |->
                         IF t = {} THEN x0 ELSE OnBarClosed(f[t \ {Max(t)}], E[Max(t)])]
           h == CHOOSE f : f = Sum(f)
           w == [k \in 0..n |-> h[1..k]]
<1>1. n \in Nat /\ DOMAIN E = 1..n /\ \A k \in 1..n : E[k] \in Payload
    OBVIOUS
<1>2. /\ buffer' = h[1..n].buffer /\ candles' = h[1..n].candles
      /\ evaluated' = h[1..n].evaluated /\ lastEval' = h[1..n].lastEval
    <2>1. /\ buffer' = h[DOMAIN E].buffer /\ candles' = h[DOMAIN E].candles
          /\ evaluated' = h[DOMAIN E].evaluated /\ lastEval' = h[DOMAIN E].lastEval
        BY Zenon DEF OnOhlcClosed, FoldLeft, MapThenFoldSet, Monitor
    <2> HIDE DEF h
    <2> QED BY <2>1, <1>1
<1>3. x0 \in Monitors
    OBVIOUS
<1>4. \A k \in 1..n : G[k] \in [Monitors -> Monitors]
    BY <1>1, ClosedIs
<1>5. PICK f : IsFold(f, n, Monitors, x0, G)
    <2> HIDE DEF G, n, Sum, h, w, x0
    <2> QED BY <1>1, <1>3, <1>4, FoldExists
<1>6. f = Sum(f)
    <2>1. /\ f \in [SUBSET (1..n) -> Monitors] /\ f[{}] = x0
          /\ \A t \in SUBSET (1..n) :
                t # {} => Max(t) \in t /\ f[t] = G[Max(t)][f[t \ {Max(t)}]]
        <3> HIDE DEF G, n, x0
        <3> QED BY <1>5 DEF IsFold
    <2>2. ASSUME NEW t \in SUBSET (1..n), t # {}
          PROVE  f[t] = OnBarClosed(f[t \ {Max(t)}], E[Max(t)])
        <3>1. Max(t) \in 1..n /\ f[t] = G[Max(t)][f[t \ {Max(t)}]]
            BY <2>1, <2>2
        <3>2. t \ {Max(t)} \in SUBSET (1..n)
            OBVIOUS
        <3>3. f[t \ {Max(t)}] \in Monitors
            BY <2>1, <3>2
        <3> QED BY <3>1, <3>3
    <2>3. \A t \in SUBSET (1..n) : f[t] = Sum(f)[t]
        BY <2>1, <2>2, <1>1
    <2>4. DOMAIN Sum(f) = SUBSET (1..n)
        BY <1>1
    <2>5. Sum(f) = [t \in DOMAIN Sum(f) |-> Sum(f)[t]]
        OBVIOUS
    <2>6. f = [t \in SUBSET (1..n) |-> f[t]]
        BY <2>1
    <2> HIDE DEF Sum, n
    <2> QED BY <2>3, <2>4, <2>5, <2>6
<1>7. h = Sum(h)
    <2> HIDE DEF Sum
    <2> QED BY <1>6
<1>8. h[{}] = x0 /\ \A k \in 1..n : h[1..k] = OnBarClosed(h[1..k - 1], E[k])
    <2>1. \A t \in SUBSET (1..n) :
             h[t] = IF t = {} THEN x0 ELSE OnBarClosed(h[t \ {Max(t)}], E[Max(t)])
        <3> HIDE DEF h
        <3> QED BY <1>1, <1>7
    <2>2. \A k \in 1..n : 1..k \in SUBSET (1..n) /\ Max(1..k) = k /\ (1..k) \ {k} = 1..k - 1 /\ 1..k # {}
        BY <1>1, MaxUpTo
    <2> HIDE DEF h, x0
    <2> QED BY <2>1, <2>2
<1>9. w[0] = x0 /\ w[n] = h[1..n] /\ \A k \in 1..n : w[k] = OnBarClosed(w[k - 1], E[k])
    <2>1. 1..0 = {} /\ 0 \in 0..n /\ n \in 0..n /\ \A k \in 1..n : k \in 0..n /\ k - 1 \in 0..n
        BY <1>1
    <2> HIDE DEF h
    <2> QED BY <1>8, <2>1
<1> HIDE DEF w, h
<1> QED BY <1>2, <1>9
\* The bars to be handed over come after all that is remembered, in order.
Ahead(s) ==
    \A i \in 1..Len(s) :
        /\ \A b \in DOMAIN buffer : b < s[i].begin
        /\ lastEval # -1 => Last1m(lastEval) < s[i].begin
        /\ \A j \in 1..i - 1 : s[j].begin < s[i].begin

\* What k of them have done: each is in the buffer; the hours whose last minute is
\* among them are evaluated, and written from the buffer as it is.
Buffered(x, s, k) ==
    /\ DOMAIN x.buffer = DOMAIN buffer \cup {s[i].begin : i \in 1..k}
    /\ \A b \in DOMAIN buffer : x.buffer[b] = buffer[b]
    /\ \A i \in 1..k : x.buffer[s[i].begin] = s[i].seen
Evaluations(x, s, k) ==
    /\ evaluated \subseteq x.evaluated
    /\ \A h \in x.evaluated \ evaluated : \E i \in 1..k : s[i].begin = Last1m(h)
    /\ \A i \in 1..k : \A h \in Hours : s[i].begin = Last1m(h) => h \in x.evaluated
    /\ x.lastEval = lastEval \/ \E i \in 1..k : s[i].begin = Last1m(x.lastEval)
Written(x, s, k) ==
    \A h \in Hours :
        /\ \A i \in 1..k : s[i].begin = Last1m(h)
                => x.candles[h] = InsertCandle(candles[h], Held(x.buffer, h), s[i])
        /\ (\A i \in 1..k : s[i].begin # Last1m(h)) => x.candles[h] = candles[h]
After(x, s, k) ==
    x \in Monitors /\ Buffered(x, s, k) /\ Evaluations(x, s, k) /\ Written(x, s, k)

\* One bar more.
LEMMA ClosedAfter ==
    ASSUME NEW s \in Seq(Payload), Ahead(s), NEW k \in Nat, k + 1 <= Len(s),
           NEW x, After(x, s, k)
    PROVE  After(OnBarClosed(x, s[k + 1]), s, k + 1)
<1> DEFINE p == s[k + 1]
           y == OnBarClosed(x, p)
           g == Hour(p.begin)
<1>1. Len(s) \in Nat /\ k + 1 \in 1..Len(s) /\ p \in Payload
    OBVIOUS
<1>2. /\ \A b \in DOMAIN buffer : b < p.begin
      /\ lastEval # -1 => Last1m(lastEval) < p.begin
      /\ \A i \in 1..k : s[i].begin < p.begin
    <2>1. \A i \in 1..k : i \in 1..(k + 1) - 1
        OBVIOUS
    <2> QED BY <1>1, <2>1 DEF Ahead
<1>3. \A i \in 1..k : i \in 1..k + 1 /\ s[i] \in Payload
    BY <1>1
<1>4. p.begin \in Bars /\ p.begin \in Nat /\ g \in Hours /\ g \in Nat /\ Hours \subseteq Nat
    BY <1>1, HourOfBar DEF Payload
<1>5. x \in Monitors /\ Buffered(x, s, k) /\ Evaluations(x, s, k) /\ Written(x, s, k)
    BY DEF After
<1>6. p.begin \notin DOMAIN x.buffer
    BY <1>2, <1>4, <1>5 DEF Buffered
<1>7. LastMinute(p) => g # x.lastEval
    <2> SUFFICES ASSUME LastMinute(p), g = x.lastEval PROVE FALSE
        OBVIOUS
    <2>1. p.begin = Last1m(x.lastEval) /\ x.lastEval \in Nat
        BY <1>4 DEF LastMinute
    <2>2. CASE x.lastEval = lastEval
        BY <2>1, <2>2, <1>2, <1>4
    <2>3. CASE \E i \in 1..k : s[i].begin = Last1m(x.lastEval)
        BY <2>1, <2>3, <1>2, <1>4
    <2> QED BY <2>2, <2>3, <1>5 DEF Evaluations
<1>8. /\ y \in Monitors /\ y.buffer = Kept(x, p)
      /\ LastMinute(p) =>
            /\ y.lastEval = g /\ y.evaluated = x.evaluated \cup {g}
            /\ y.candles = [x.candles EXCEPT ![g] = InsertCandle(@, Held(Kept(x, p), g), p)]
      /\ ~LastMinute(p) =>
            y.lastEval = x.lastEval /\ y.evaluated = x.evaluated /\ y.candles = x.candles
    <2>1. ~LastMinute(p) => y = [x EXCEPT !.buffer = Kept(x, p)]
        BY <1>1, <1>5, ClosedIs
    <2>2. [x EXCEPT !.buffer = Kept(x, p)].candles = x.candles
        BY <1>5 DEF Monitors
    <2>3. [x EXCEPT !.buffer = Kept(x, p)].evaluated = x.evaluated
        BY <1>5 DEF Monitors
    <2>4. [x EXCEPT !.buffer = Kept(x, p)].lastEval = x.lastEval
        BY <1>5 DEF Monitors
    <2> QED BY <1>1, <1>5, <1>7, <2>1, <2>2, <2>3, <2>4, ClosedIs
<1>9. LastMinute(p) <=> p.begin = Last1m(g)
    BY DEF LastMinute
<1>10. \A i \in 1..k + 1 : i \in 1..k \/ (i = k + 1 /\ s[i] = p)
    OBVIOUS
<1>11. k + 1 \in 1..k + 1 /\ s[k + 1] = p
    OBVIOUS
<1> HIDE DEF p, y, g
<1>12. Buffered(y, s, k + 1)
    <2>1. /\ DOMAIN y.buffer = DOMAIN x.buffer \cup {p.begin} /\ y.buffer[p.begin] = p.seen
          /\ \A b \in DOMAIN x.buffer : y.buffer[b] = x.buffer[b]
        BY <1>6, <1>8 DEF Kept
    <2>2. {s[i].begin : i \in 1..k + 1} = {s[i].begin : i \in 1..k} \cup {p.begin}
        BY <1>3, <1>10, <1>11
    <2>3. \A i \in 1..k : s[i].begin \in DOMAIN x.buffer
        BY <1>5 DEF Buffered
    <2> QED BY <1>5, <1>10, <2>1, <2>2, <2>3 DEF Buffered
<1>13. Evaluations(y, s, k + 1)
    <2>1. evaluated \subseteq y.evaluated /\ x.evaluated \subseteq y.evaluated
        BY <1>5, <1>8 DEF Evaluations
    <2>2. ASSUME NEW h \in y.evaluated \ evaluated
          PROVE  \E i \in 1..k + 1 : s[i].begin = Last1m(h)
        <3>1. CASE h \in x.evaluated
            BY <3>1, <1>3, <1>5 DEF Evaluations
        <3>2. CASE h \notin x.evaluated
            <4>1. LastMinute(p) /\ h = g
                BY <3>2, <1>8
            <4> QED BY <4>1, <1>9, <1>11
        <3> QED BY <3>1, <3>2
    <2>3. ASSUME NEW i \in 1..k + 1, NEW h \in Hours, s[i].begin = Last1m(h)
          PROVE  h \in y.evaluated
        <3>1. CASE i \in 1..k
            BY <3>1, <2>1, <2>3, <1>5 DEF Evaluations
        <3>2. CASE s[i] = p
            <4>1. h \in Nat /\ g = h
                BY <1>4, <2>3, <3>2, HourOfLast DEF g
            <4> QED BY <4>1, <1>8, <1>9, <2>3, <3>2
        <3> QED BY <1>10, <3>1, <3>2
    <2>4. y.lastEval = lastEval \/ \E i \in 1..k + 1 : s[i].begin = Last1m(y.lastEval)
        <3>1. CASE LastMinute(p)
            BY <3>1, <1>8, <1>9, <1>11
        <3>2. CASE ~LastMinute(p)
            BY <3>2, <1>3, <1>5, <1>8 DEF Evaluations
        <3> QED BY <3>1, <3>2
    <2> QED BY <2>1, <2>2, <2>3, <2>4 DEF Evaluations
<1>14. Written(y, s, k + 1)
    <2> SUFFICES ASSUME NEW h \in Hours
                 PROVE  /\ \A i \in 1..k + 1 : s[i].begin = Last1m(h)
                              => y.candles[h] = InsertCandle(candles[h], Held(y.buffer, h), s[i])
                        /\ (\A i \in 1..k + 1 : s[i].begin # Last1m(h))
                              => y.candles[h] = candles[h]
        BY DEF Written
    <2>1. h \in Nat /\ Last1m(h) \in Nat
        BY <1>4, UpToLast
    <2>2. DOMAIN x.candles = Hours
        BY <1>5 DEF Monitors
    <2>3. CASE p.begin = Last1m(h)
        <3>1. g = h /\ LastMinute(p)
            BY <2>1, <2>3, <1>9, HourOfLast DEF g
        <3>2. \A i \in 1..k : s[i].begin # Last1m(h)
            BY <1>2, <1>4, <2>3
        <3>3. x.candles[h] = candles[h]
            BY <3>2, <1>5 DEF Written
        <3>4. y.candles[h] = InsertCandle(candles[h], Held(y.buffer, h), p)
            BY <3>1, <3>3, <1>8, <2>2
        <3> QED BY <3>2, <3>4, <1>10, <1>11, <2>3
    <2>4. CASE p.begin # Last1m(h)
        <3>1. y.candles[h] = x.candles[h]
            <4>1. CASE LastMinute(p)
                BY <4>1, <2>2, <2>4, <1>8, <1>9
            <4> QED BY <4>1, <1>8
        <3>2. ASSUME NEW i \in 1..k, s[i].begin = Last1m(h)
              PROVE  Held(y.buffer, h) = Held(x.buffer, h)
            <4>1. ~(p.begin <= Last1m(h))
                BY <3>2, <1>2, <1>4, <2>1
            <4>2. p.begin \notin MinutesOf(h)
                <5>1. ~(Hour(p.begin) <= h)
                    BY <4>1, <1>4, <2>1, UpToLast
                <5>2. Hour(p.begin) # h
                    BY <5>1, <2>1
                <5> QED BY <5>2 DEF MinutesOf
            <4> QED BY <4>2, <1>8 DEF Held, Kept
        <3>3. \A i \in 1..k : s[i].begin = Last1m(h)
                 => y.candles[h] = InsertCandle(candles[h], Held(y.buffer, h), s[i])
            BY <3>1, <3>2, <1>5 DEF Written
        <3>4. (\A i \in 1..k : s[i].begin # Last1m(h)) => y.candles[h] = candles[h]
            BY <3>1, <1>5 DEF Written
        <3> QED BY <3>3, <3>4, <2>4, <1>3, <1>10
    <2> QED BY <2>3, <2>4
<1> QED BY <1>8, <1>12, <1>13, <1>14 DEF After, y, p

\* What the callbacks of a step do.
LEMMA MonitorAfter ==
    ASSUME Monitor \in Monitors, closed' \in Seq(Payload), Ahead(closed'), OnOhlcClosed
    PROVE  After(Monitor', closed', Len(closed'))
<1> DEFINE n == Len(closed')
<1>1. PICK w : /\ w[0] = Monitor
               /\ \A k \in 1..n : w[k] = OnBarClosed(w[k - 1], closed'[k])
               /\ buffer' = w[n].buffer /\ candles' = w[n].candles
               /\ evaluated' = w[n].evaluated /\ lastEval' = w[n].lastEval
    BY ClosedWalk
<1>2. n \in Nat
    OBVIOUS
<1> HIDE DEF n
<1> DEFINE S == {m \in Nat : m <= n => After(w[m], closed', m)}
<1>3. 0 \in S
    <2>1. After(Monitor, closed', 0)
        <3>1. 1..0 = {}
            OBVIOUS
        <3>2. Buffered(Monitor, closed', 0)
            BY <3>1 DEF Monitor, Buffered
        <3>3. Evaluations(Monitor, closed', 0)
            BY <3>1 DEF Monitor, Evaluations
        <3>4. Written(Monitor, closed', 0)
            BY <3>1 DEF Monitor, Written
        <3> QED BY <3>2, <3>3, <3>4 DEF After
    <2> QED BY <1>1, <2>1
<1>4. ASSUME NEW m \in Nat, m \in S PROVE m + 1 \in S
    <2> SUFFICES ASSUME m + 1 <= n PROVE After(w[m + 1], closed', m + 1)
        OBVIOUS
    <2>1. m + 1 \in 1..n /\ (m + 1) - 1 = m /\ After(w[m], closed', m)
        BY <1>2, <1>4
    <2>2. w[m + 1] = OnBarClosed(w[m], closed'[m + 1])
        BY <1>1, <2>1
    <2> QED BY <2>1, <2>2, ClosedAfter DEF n
<1>5. Nat \subseteq S
    <2> HIDE DEF S
    <2> QED BY <1>3, <1>4, SetInduction
<1>6. After(w[n], closed', n)
    BY <1>2, <1>5
<1>7. w[n] = Monitor'
    <2>1. w[n] \in Monitors
        BY <1>6 DEF After
    <2> QED BY <1>1, <2>1 DEF Monitors, Monitor
<1> QED BY <1>6, <1>7 DEF n
-----------------------------------------------------------------------------
(***************************************************************************)
(* What a step of the socket brings.                                       *)
(***************************************************************************)
\* The minutes to come have not traded, the bar in flight tells no more trades than
\* there were, and a link is subscribed only while it is open.
LinkInv ==
    /\ \A b \in Bars : b > bar => content[b] = 0
    /\ inflight.begin <= bar
    /\ inflight # None => inflight.seen <= content[inflight.begin]
    /\ awaiting => subscribed
    /\ subscribed => link = "open"

\* A stream that is received has missed a bar newer than the one in flight only in an
\* hour that is known to be broken.
Heard ==
    Receiving => \A b \in Bars : b > inflight.begin /\ content[b] > 0 => Hour(b) \in broken

SocketInv == SocketTypeOK /\ LinkInv /\ Heard

\* The bars surfaced go from the bar that was in flight to the one that is, in order
\* and with every trade, but for those of a broken hour.
Result == [inflight |-> inflight', closed |-> closed']
AsItWas == inflight # None /\ content'[inflight.begin] = content[inflight.begin]
Effect ==
    /\ inflight'.begin >= inflight.begin /\ bar' >= bar
    /\ \A b \in Bars : content'[b] >= content[b] /\ (b # bar => content'[b] = content[b])
    /\ InOrder(Result)
    /\ \A i \in 1..Len(closed') :
          closed'[i].seen = content'[closed'[i].begin] \/ (closed'[i] = inflight /\ AsItWas)
    /\ inflight' # None =>
          \/ inflight'.seen = content'[inflight'.begin]
          \/ inflight' = inflight /\ AsItWas
          \/ Hour(inflight'.begin) \in broken'
    /\ \A b \in Bars :
          content'[b] > 0 /\ b >= inflight.begin /\ b <= inflight'.begin
             => Passed(Result, b) \/ Hour(b) \in broken'

\* The arithmetic of a well-typed socket.
LEMMA SocketFacts ==
    ASSUME SocketTypeOK
    PROVE  /\ bar \in Int /\ inflight.begin \in Int /\ Bars \subseteq Nat /\ MaxTrades \in Nat
           /\ \A b \in Bars : content[b] \in 0..MaxTrades /\ content[b] \in Int
           /\ inflight # None <=> inflight \in Payload
           /\ inflight # None => inflight.begin \in Bars /\ inflight.seen \in 1..MaxTrades
           /\ inflight = None => inflight.begin = -1
<1>1. MaxTrades \in Nat /\ Minutes \in Nat
    BY SocketAssumption
<1>2. Bars \subseteq Nat
    BY <1>1 DEF Bars
<1>3. inflight \in Payload \cup {None} /\ bar \in Bars /\ content \in [Bars -> 0..MaxTrades]
    BY DEF SocketTypeOK
<1>4. None \notin Payload
    BY NoneIsNoBar
<1>5. None.begin = -1 /\ \A p \in Payload : p.begin \in Bars /\ p.seen \in 1..MaxTrades
    BY DEF None, Payload
<1>6. inflight # None <=> inflight \in Payload
    BY <1>3, <1>4
<1>7. inflight.begin \in Int
    <2>1. CASE inflight = None
        <3>1. inflight.begin = -1
            BY <2>1, <1>5
        <3> QED BY <3>1
    <2>2. CASE inflight # None
        <3>1. inflight.begin \in Bars
            BY <2>2, <1>5, <1>6
        <3>2. inflight.begin \in 0..Minutes - 1
            BY <3>1 DEF Bars
        <3> QED BY <3>2, <1>1
    <2> QED BY <2>1, <2>2
<1>8. \A b \in Bars : content[b] \in 0..MaxTrades /\ content[b] \in Int
    BY <1>1, <1>3
<1> QED BY <1>1, <1>2, <1>3, <1>5, <1>6, <1>7, <1>8

\* A step that hands nothing over and sees no trade.
LEMMA QuietEffect ==
    ASSUME SocketInv, bar' >= bar, content' = content, Quiet
    PROVE  Effect
<1>1. inflight' = inflight /\ closed' = << >> /\ inflight.begin \in Int
    BY SocketFacts DEF SocketInv, Quiet
<1>2. \A b \in Bars : content[b] \in Int
    BY SocketFacts DEF SocketInv
<1>3. InOrder(Result)
    BY <1>1 DEF InOrder, Result
<1>4. \A b \in Bars : b >= inflight.begin /\ b <= inflight'.begin => Passed(Result, b)
    <2>1. \A b \in Bars : b \in Int
        BY SocketFacts DEF SocketInv
    <2> QED BY <1>1, <2>1 DEF Passed, Result
<1> QED BY <1>1, <1>2, <1>3, <1>4 DEF Effect, AsItWas

\* Steps of the connection but the snapshot.
Wires ==
    Redial \/ Dial \/ Open \/ Refused \/ Drop \/ Silent \/ HeartbeatClose
    \/ \E system \in Systems : Status(system)

LEMMA WiresKeep ==
    ASSUME SocketInv, Wires, broken \subseteq broken' PROVE SocketInv' /\ Effect
<1> USE DEF SocketInv, SocketTypeOK, LinkInv
<1>1. market' = market /\ Quiet
    BY DEF Wires, Redial, Dial, Open, Refused, Drop, Silent, HeartbeatClose, Ended, Status
<1>2. bar' = bar /\ content' = content /\ inflight' = inflight /\ closed' = << >>
    BY <1>1 DEF market, Quiet
<1>3. Effect
    BY <1>1, <1>2, SocketFacts, QuietEffect
<1>4. MaxAttempt \in Nat
    BY SocketAssumption
<1>5. closed' \in Seq(Payload)
    BY <1>2
<1> DEFINE ConnOK ==
        /\ link' \in {"idle", "backoff", "dialling", "open"} /\ alive' \in BOOLEAN
        /\ state' \in {"starting", "connected", "reconnecting"}
        /\ attempt' \in 0..MaxAttempt /\ subscribed' \in BOOLEAN /\ awaiting' \in BOOLEAN
        /\ awaiting' => subscribed'
        /\ subscribed' => link' = "open"
        /\ ~(link' = "open" /\ alive' /\ subscribed' /\ ~awaiting')
<1>6. ConnOK
    <2>1. CASE Redial
        BY <2>1 DEF Redial
    <2>2. CASE Dial
        BY <2>2 DEF Dial
    <2>3. CASE Open
        BY <2>3 DEF Open
    <2>4. CASE Ended
        <3>1. attempt \in 0..MaxAttempt
            OBVIOUS
        <3>2. attempt' = IF attempt < MaxAttempt THEN attempt + 1 ELSE attempt
            BY <2>4 DEF Ended
        <3>3. attempt' \in 0..MaxAttempt
            BY <1>4, <3>1, <3>2
        <3>4. /\ link' = "idle" /\ alive' = FALSE /\ subscribed' = FALSE /\ awaiting' = FALSE
              /\ state' = state /\ state \in {"starting", "connected", "reconnecting"}
            BY <2>4 DEF Ended
        <3> QED BY <3>3, <3>4
    <2>5. CASE Silent
        BY <2>5 DEF Silent
    <2>6. CASE \E system \in Systems : Status(system)
        BY <2>6, <1>4 DEF Status
    <2> QED BY <2>1, <2>2, <2>3, <2>4, <2>5, <2>6 DEF Wires, Refused, Drop, HeartbeatClose
<1>7. SocketTypeOK' /\ LinkInv'
    BY <1>2, <1>5, <1>6
<1>8. Heard'
    BY <1>6 DEF Heard, Receiving
<1> QED BY <1>3, <1>7, <1>8
\* A message of one entry.
LEMMA OneEntry ==
    ASSUME inflight \in Payload \cup {None}, NEW e \in Entry, HandleOhlc(<<e>>, FALSE)
    PROVE  Result = Entered([inflight |-> inflight, closed |-> << >>], e, FALSE)
<1> DEFINE x0 == [inflight |-> inflight, closed |-> << >>]
<1>1. <<e>> \in Seq(Entry) /\ Len(<<e>>) = 1 /\ <<e>>[1] = e
    OBVIOUS
<1>2. PICK w : /\ w[0] = x0
               /\ \A k \in 1..Len(<<e>>) : w[k] = Entered(w[k - 1], <<e>>[k], FALSE)
               /\ inflight' = w[Len(<<e>>)].inflight /\ closed' = w[Len(<<e>>)].closed
    BY <1>1, HandledWalk
<1>3. w[1] = Entered(x0, e, FALSE) /\ inflight' = w[1].inflight /\ closed' = w[1].closed
    <2>1. 1 \in 1..1 /\ 1 - 1 = 0
        OBVIOUS
    <2> QED BY <1>1, <1>2, <2>1
<1>4. x0 \in Accs
    BY DEF Accs
<1>5. w[1] \in Accs
    <2> HIDE DEF x0
    <2> QED BY <1>3, <1>4, EnteredType
<1> HIDE DEF x0
<1>6. w[1] = [inflight |-> w[1].inflight, closed |-> w[1].closed]
    BY <1>5 DEF Accs
<1> QED BY <1>3, <1>6 DEF Result, x0

\* A late update is ignored.
LEMMA LateIsQuiet == ASSUME SocketInv, Late PROVE Quiet /\ UNCHANGED <<market, conn>>
<1>1. PICK b \in 0..inflight.begin - 1 :
         content[b] > 0 /\ HandleOhlc(<<[begin |-> b, seen |-> content[b]]>>, FALSE)
    BY DEF Late
<1> DEFINE e == [begin |-> b, seen |-> content[b]]
<1>2. /\ inflight \in Payload \cup {None} /\ inflight.begin \in Int /\ bar \in Bars
      /\ inflight.begin <= bar /\ Bars = 0..Minutes - 1 /\ Minutes \in Nat /\ MaxTrades \in Nat
    BY SocketFacts, SocketAssumption DEF SocketInv, SocketTypeOK, LinkInv, Bars
<1>3. b \in Bars /\ b < inflight.begin
    BY <1>1, <1>2
<1>4. e \in Entry
    <2>1. content[b] \in 1..MaxTrades
        BY <1>1, <1>3, SocketFacts DEF SocketInv
    <2> QED BY <1>3, <2>1 DEF Entry, Payload
<1>5. ~Taken([inflight |-> inflight, closed |-> << >>], e, FALSE)
    BY <1>2, <1>3 DEF Taken
<1>6. Result = [inflight |-> inflight, closed |-> << >>]
    <2>1. HandleOhlc(<<e>>, FALSE)
        BY <1>1
    <2> HIDE DEF e
    <2> QED BY <2>1, <1>2, <1>4, <1>5, OneEntry DEF Entered
<1> QED BY <1>6 DEF Result, Quiet, Late

\* A minute passes.
LEMMA MinuteKeeps ==
    ASSUME SocketInv, NextMinute, broken \subseteq broken' PROVE SocketInv' /\ Effect
<1>1. /\ bar' = bar + 1 /\ bar' \in Bars /\ content' = content /\ conn' = conn
      /\ inflight' = inflight /\ closed' = << >> /\ Quiet
    BY DEF NextMinute, Quiet
<1>2. bar \in Int /\ inflight.begin \in Int /\ Bars \subseteq Nat
    BY SocketFacts DEF SocketInv
<1>3. Effect
    BY <1>1, <1>2, QuietEffect
<1>4. SocketTypeOK'
    BY <1>1 DEF SocketInv, SocketTypeOK, conn
<1>5. LinkInv'
    BY <1>1, <1>2 DEF SocketInv, LinkInv, conn
<1>6. Heard'
    BY <1>1 DEF SocketInv, Heard, Receiving, conn
<1> QED BY <1>3, <1>4, <1>5, <1>6 DEF SocketInv

\* A trade, received or not.
LEMMA TradeKeeps ==
    ASSUME SocketInv, Trade, broken' = broken \cup Missed PROVE SocketInv' /\ Effect
<1> DEFINE n == content[bar] + 1
           e == [begin |-> bar, seen |-> n]
<1>1. /\ bar \in Bars /\ bar \in Int /\ inflight.begin \in Int /\ Bars \subseteq Nat
      /\ content \in [Bars -> 0..MaxTrades] /\ content[bar] \in 0..MaxTrades /\ MaxTrades \in Nat
      /\ inflight \in Payload \cup {None} /\ inflight.begin <= bar
      /\ \A b \in Bars : content[b] \in 0..MaxTrades /\ content[b] \in Int
      /\ \A b \in Bars : b > bar => content[b] = 0
    BY SocketFacts DEF SocketInv, SocketTypeOK, LinkInv
<1>2. /\ content' = [content EXCEPT ![bar] = n] /\ content[bar] < MaxTrades
      /\ bar' = bar /\ conn' = conn
    BY DEF Trade
<1>3. n \in 1..MaxTrades /\ n > content[bar] /\ n \in Int
    BY <1>1, <1>2
<1>4. /\ content'[bar] = n /\ content' \in [Bars -> 0..MaxTrades]
      /\ \A b \in Bars : b # bar => content'[b] = content[b]
    BY <1>1, <1>2, <1>3
<1> HIDE DEF n
<1>5. /\ \A b \in Bars : content'[b] >= content[b] /\ (b # bar => content'[b] = content[b])
      /\ \A b \in Bars : b > bar => content'[b] = 0
    BY <1>1, <1>3, <1>4
<1>6. CASE Receiving
    <2>1. HandleOhlc(<<e>>, FALSE)
        BY <1>4, <1>6 DEF Trade
    <2>2. e \in Payload /\ e \in Entry
        BY <1>1, <1>3 DEF Entry, Payload
    <2>3. Result = Entered([inflight |-> inflight, closed |-> << >>], e, FALSE)
        <3> HIDE DEF e
        <3> QED BY <1>1, <2>1, <2>2, OneEntry
    <2>4. /\ inflight' = e
          /\ closed' = IF inflight # None /\ bar # inflight.begin THEN <<inflight>> ELSE << >>
        <3>1. ~(n = 0) /\ Taken([inflight |-> inflight, closed |-> << >>], e, FALSE)
            BY <1>1, <1>3 DEF Taken
        <3>2. Append(<< >>, inflight) = <<inflight>>
            OBVIOUS
        <3> QED BY <2>3, <3>1, <3>2 DEF Entered, Result
    <2>5. e # None
        BY <2>2, NoneIsNoBar
    <2>6. SocketTypeOK'
        <3>1. closed' \in Seq(Payload)
            BY <1>1, <2>4
        <3> QED BY <1>1, <1>2, <1>4, <2>2, <2>4, <3>1 DEF SocketInv, SocketTypeOK, conn
    <2>7. LinkInv'
        BY <1>1, <1>2, <1>3, <1>4, <1>5, <2>4 DEF SocketInv, LinkInv, conn
    <2>8. Heard'
        <3>1. \A b \in Bars : b > bar => content'[b] = 0
            BY <1>5
        <3> QED BY <1>2, <2>4, <3>1 DEF Heard
    <2>9. CASE inflight # None /\ bar # inflight.begin
        <3>1. closed' = <<inflight>> /\ Len(closed') = 1 /\ closed'[1] = inflight
            BY <2>4, <2>9
        <3>2. inflight.begin < bar /\ inflight.begin \in Bars
            BY <1>1, <2>9, SocketFacts DEF SocketInv
        <3>3. AsItWas
            BY <1>4, <2>9, <3>2 DEF AsItWas
        <3>4. InOrder(Result)
            <4>1. \A i \in 1..1 : i = 1 /\ 1..i - 1 = {}
                OBVIOUS
            <4> QED BY <1>1, <2>4, <3>1, <3>2, <4>1 DEF InOrder, Result
        <3>5. ASSUME NEW b \in Bars, content'[b] > 0, b >= inflight.begin, b <= bar
              PROVE  Passed(Result, b) \/ Hour(b) \in broken'
            <4>1. CASE b = bar
                BY <4>1, <2>4 DEF Passed, Result
            <4>2. CASE b = inflight.begin
                <5>1. 1 \in 1..Len(closed') /\ closed'[1].begin = b
                    BY <4>2, <3>1
                <5> QED BY <5>1 DEF Passed, Result
            <4>3. CASE b # bar /\ b # inflight.begin
                <5>1. b > inflight.begin /\ content[b] > 0
                    BY <1>1, <1>4, <3>5, <4>3
                <5> QED BY <5>1, <1>6 DEF SocketInv, Heard
            <4> QED BY <4>1, <4>2, <4>3
        <3>6. \A i \in 1..Len(closed') : closed'[i] = inflight /\ AsItWas
            BY <3>1, <3>3
        <3> QED BY <1>1, <1>2, <1>4, <1>5, <2>4, <2>6, <2>7, <2>8, <3>2, <3>4, <3>5, <3>6
                DEF Effect, SocketInv
    <2>10. CASE ~(inflight # None /\ bar # inflight.begin)
        <3>1. closed' = << >> /\ Len(closed') = 0
            BY <2>4, <2>10
        <3>2. InOrder(Result)
            BY <3>1 DEF InOrder, Result
        <3>3. ASSUME NEW b \in Bars, content'[b] > 0, b >= inflight.begin, b <= bar
              PROVE  Passed(Result, b) \/ Hour(b) \in broken'
            <4>1. CASE b = bar
                BY <4>1, <2>4 DEF Passed, Result
            <4>2. CASE b # bar
                <5>1. b > inflight.begin /\ content[b] > 0
                    <6>1. inflight = None => inflight.begin = -1
                        BY SocketFacts DEF SocketInv
                    <6>2. b > inflight.begin
                        BY <1>1, <2>10, <3>3, <4>2, <6>1
                    <6> QED BY <1>4, <3>3, <4>2, <6>2
                <5> QED BY <5>1, <1>6 DEF SocketInv, Heard
            <4> QED BY <4>1, <4>2
        <3> QED BY <1>1, <1>2, <1>4, <1>5, <2>4, <2>6, <2>7, <2>8, <3>1, <3>2, <3>3
                DEF Effect, SocketInv
    <2> QED BY <2>9, <2>10
<1>7. CASE ~Receiving
    <2>1. inflight' = inflight /\ closed' = << >>
        BY <1>7 DEF Trade, Quiet
    <2>2. SocketTypeOK'
        BY <1>1, <1>2, <1>4, <2>1 DEF SocketInv, SocketTypeOK, conn
    <2>3. inflight # None => inflight.begin \in Bars /\ inflight.seen \in 1..MaxTrades
        BY SocketFacts DEF SocketInv
    <2>4. LinkInv'
        <3>1. inflight # None => inflight.seen <= content'[inflight.begin]
            <4> SUFFICES ASSUME inflight # None PROVE inflight.seen <= content'[inflight.begin]
                OBVIOUS
            <4>1. inflight.seen <= content[inflight.begin]
                BY DEF SocketInv, LinkInv
            <4>2. content'[inflight.begin] \in Int
                BY <1>1, <1>4, <2>3
            <4> QED BY <1>1, <1>5, <2>3, <4>1, <4>2
        <3> QED BY <1>2, <1>5, <2>1, <3>1 DEF SocketInv, LinkInv, conn
    <2>5. Heard'
        BY <1>2, <1>7 DEF Heard, Receiving, conn
    <2>6. InOrder(Result)
        BY <2>1 DEF InOrder, Result
    <2>7. inflight # None => AsItWas \/ Hour(inflight.begin) \in broken'
        <3>1. CASE inflight.begin = bar
            <4>1. content' # content
                BY <1>3, <1>4
            <4> QED BY <4>1, <3>1, <1>7 DEF Missed
        <3>2. CASE inflight.begin # bar
            BY <3>2, <1>4, <2>3 DEF AsItWas
        <3> QED BY <3>1, <3>2
    <2>8. \A b \in Bars : b >= inflight.begin /\ b <= inflight.begin => Passed(Result, b)
        BY <1>1, <2>1 DEF Passed, Result
    <2> QED BY <1>1, <1>2, <1>5, <2>1, <2>2, <2>4, <2>5, <2>6, <2>7, <2>8 DEF Effect, SocketInv
<1> QED BY <1>6, <1>7
\* What a snapshot brings is honest.
LEMMA SnapshotIsHonest ==
    ASSUME SocketInv
    PROVE  /\ Honest(Snapshot, content) /\ Len(Snapshot) = SnapshotLen
           /\ \A i \in 1..SnapshotLen : Snapshot[i].begin = bar - SnapshotLen + i
           /\ \A i \in 1..SnapshotLen : Snapshot[i].begin \in Bars =>
                 Snapshot[i].seen = content[Snapshot[i].begin]
<1>1. /\ SnapshotLen \in Nat /\ MaxTrades \in Nat /\ bar \in Int
      /\ \A b \in Bars : content[b] \in 0..MaxTrades
    BY SocketFacts, SocketAssumption DEF SocketInv
<1> DEFINE at(i) == bar - SnapshotLen + i
           E == Snapshot
<1>2. E = [i \in 1..SnapshotLen |->
              [begin |-> at(i), seen |-> IF at(i) \in Bars THEN content[at(i)] ELSE 0]]
    BY DEF Snapshot
<1>3. \A i \in 1..SnapshotLen :
         /\ E[i] = [begin |-> at(i), seen |-> IF at(i) \in Bars THEN content[at(i)] ELSE 0]
         /\ at(i) \in Int /\ E[i].begin = at(i)
    BY <1>1, <1>2
<1>4. \A i, j \in 1..SnapshotLen : j < i => at(j) < at(i)
    BY <1>1
<1> HIDE DEF at, E
<1>5. ASSUME NEW i \in 1..SnapshotLen
      PROVE  E[i] \in Entry /\ (E[i].seen > 0 => E[i].seen = content[E[i].begin])
    <2>1. CASE at(i) \in Bars /\ content[at(i)] # 0
        <3>1. content[at(i)] \in 1..MaxTrades
            BY <1>1, <2>1
        <3>2. E[i] = [begin |-> at(i), seen |-> content[at(i)]]
            BY <1>3, <2>1
        <3>3. E[i] \in Payload
            BY <2>1, <3>1, <3>2 DEF Payload
        <3> QED BY <3>2, <3>3 DEF Entry
    <2>2. CASE ~(at(i) \in Bars /\ content[at(i)] # 0)
        <3>1. E[i] = [begin |-> at(i), seen |-> 0]
            BY <1>3, <2>2
        <3>2. at(i) \in Int
            BY <1>3
        <3>3. E[i] \in [begin : Int, seen : {0}]
            BY <3>1, <3>2
        <3> QED BY <3>1, <3>3 DEF Entry
    <2> QED BY <2>1, <2>2
<1>6. E \in Seq(Entry) /\ Len(E) = SnapshotLen
    <2>1. E \in [1..SnapshotLen -> Entry]
        BY <1>2, <1>5
    <2> QED BY <1>1, <2>1
<1>7. \A i \in 1..SnapshotLen : \A j \in 1..i - 1 : E[j].begin < E[i].begin
    <2>1. \A i \in 1..SnapshotLen : \A j \in 1..i - 1 : j \in 1..SnapshotLen /\ j < i
        BY <1>1
    <2>2. \A i \in 1..SnapshotLen : E[i].begin = at(i)
        BY <1>3
    <2> SUFFICES ASSUME NEW i \in 1..SnapshotLen, NEW j \in 1..i - 1
                 PROVE  E[j].begin < E[i].begin
        OBVIOUS
    <2>3. j \in 1..SnapshotLen /\ j < i
        BY <2>1
    <2>4. E[j].begin = at(j) /\ E[i].begin = at(i)
        BY <2>2, <2>3
    <2>5. at(j) < at(i)
        BY <1>4, <2>3
    <2> QED BY <2>4, <2>5
<1>8. Honest(E, content)
    BY <1>5, <1>6, <1>7 DEF Honest
<1> QED BY <1>3, <1>6, <1>8 DEF E, at

\* A snapshot brings every bar since the one in flight that is not too old.
LEMMA SnapshotKeeps ==
    ASSUME SocketInv, ReceiveSnapshot, broken' = broken \cup Missed
    PROVE  SocketInv' /\ Effect
<1> DEFINE E == Snapshot
<1>1. /\ bar \in Bars /\ bar \in Int /\ inflight.begin \in Int /\ SnapshotLen \in Nat
      /\ content \in [Bars -> 0..MaxTrades] /\ MaxTrades \in Nat
      /\ inflight \in Payload \cup {None} /\ inflight.begin <= bar
      /\ \A b \in Bars : content[b] \in Int /\ b \in Int
      /\ \A b \in Bars : b > bar => content[b] = 0
      /\ \A b \in Bars : b >= 0
    BY SocketFacts, SocketAssumption DEF SocketInv, SocketTypeOK, LinkInv
<1>2. /\ bar' = bar /\ content' = content /\ link' = link /\ alive' = alive /\ state' = state
      /\ attempt' = attempt /\ subscribed' = subscribed
      /\ link = "open" /\ awaiting /\ awaiting' = FALSE /\ HandleOhlc(E, TRUE)
    BY DEF ReceiveSnapshot, market
<1>3. /\ Honest(E, content) /\ Honest(E, content') /\ Len(E) = SnapshotLen
      /\ \A i \in 1..SnapshotLen : E[i].begin = bar - SnapshotLen + i
      /\ \A i \in 1..SnapshotLen : E[i].begin \in Bars => E[i].seen = content[E[i].begin]
    BY <1>2, SnapshotIsHonest
<1>4. SoFar(Result, E, SnapshotLen, content)
    <2> HIDE DEF E
    <2> QED BY <1>1, <1>2, <1>3, Handled DEF Result
<1> HIDE DEF E
<1>5. Result.inflight = inflight' /\ Result.closed = closed'
    BY DEF Result
<1>6. /\ inflight' \in Payload \cup {None} /\ closed' \in Seq(Payload)
      /\ InOrder(Result) /\ inflight'.begin >= inflight.begin
      /\ inflight'.begin = inflight.begin
           \/ \E j \in 1..SnapshotLen : inflight'.begin = E[j].begin
    BY <1>4, <1>5 DEF SoFar, Accs, Newest
<1>7. /\ inflight' = inflight \/ (inflight' # None /\ inflight'.seen = content[inflight'.begin])
      /\ \A i \in 1..Len(closed') :
            closed'[i] = inflight \/ closed'[i].seen = content[closed'[i].begin]
    BY <1>4, <1>5 DEF SoFar, Told
<1>8. inflight' \in Payload => inflight'.begin \in Bars
    BY DEF Payload
<1>9. inflight'.begin \in Int /\ inflight'.begin <= bar
    <2>1. ASSUME NEW j \in 1..SnapshotLen
          PROVE  E[j].begin \in Int /\ E[j].begin <= bar
        BY <1>1, <1>3
    <2> QED BY <1>1, <1>6, <2>1
<1>10. ASSUME NEW b \in Bars, content[b] > 0, b > inflight.begin
       PROVE  Passed(Result, b) \/ Hour(b) \in broken'
    <2>1. b <= bar
        BY <1>1, <1>10
    <2>2. CASE b <= bar - SnapshotLen
        <3>1. b \in (inflight.begin + 1)..(bar - SnapshotLen)
            BY <1>1, <1>10, <2>2
        <3> QED BY <1>2, <3>1 DEF Missed
    <2>3. CASE b > bar - SnapshotLen
        <3> DEFINE i == b - bar + SnapshotLen
        <3>1. i \in 1..SnapshotLen /\ bar - SnapshotLen + i = b
            BY <1>1, <2>1, <2>3
        <3>2. E[i].begin = b /\ E[i].seen = content[b]
            BY <1>3, <3>1
        <3> HIDE DEF i
        <3> QED BY <1>4, <1>10, <3>1, <3>2 DEF SoFar, Covers
    <2> QED BY <1>1, <2>2, <2>3
<1>11. inflight # None => Passed(Result, inflight.begin)
    BY <1>4 DEF SoFar, Covers
<1>12. Effect
    <2>1. \A i \in 1..Len(closed') :
             closed'[i].seen = content'[closed'[i].begin] \/ (closed'[i] = inflight /\ AsItWas)
        <3>1. \A i \in 1..Len(closed') : closed'[i] \in Payload
            BY <1>6
        <3> QED BY <1>2, <1>7, <3>1, NoneIsNoBar DEF AsItWas
    <2>2. inflight' # None =>
             \/ inflight'.seen = content'[inflight'.begin]
             \/ inflight' = inflight /\ AsItWas
        BY <1>2, <1>7 DEF AsItWas
    <2>3. ASSUME NEW b \in Bars, content'[b] > 0, b >= inflight.begin
          PROVE  Passed(Result, b) \/ Hour(b) \in broken'
        <3>1. CASE b = inflight.begin
            <4>1. inflight # None
                BY <1>1, <3>1 DEF None
            <4> QED BY <1>11, <3>1, <4>1
        <3>2. CASE b # inflight.begin
            BY <1>1, <1>2, <1>10, <2>3, <3>2
        <3> QED BY <3>1, <3>2
    <2> QED BY <1>1, <1>2, <1>6, <2>1, <2>2, <2>3 DEF Effect
<1>13. SocketTypeOK'
    BY <1>2, <1>6 DEF SocketInv, SocketTypeOK
<1>14. LinkInv'
    <2>1. inflight' # None => inflight'.seen <= content'[inflight'.begin]
        <3> SUFFICES ASSUME inflight' # None PROVE inflight'.seen <= content[inflight'.begin]
            BY <1>2
        <3>1. CASE inflight' = inflight
            BY <3>1 DEF SocketInv, LinkInv
        <3>2. CASE inflight'.seen = content[inflight'.begin]
            <4>1. content[inflight'.begin] \in Int
                BY <1>1, <1>6, <1>8
            <4> QED BY <3>2, <4>1
        <3> QED BY <1>7, <3>1, <3>2
    <2> QED BY <1>1, <1>2, <1>9, <2>1 DEF SocketInv, LinkInv
<1>15. Heard'
    <2> SUFFICES ASSUME NEW b \in Bars, b > inflight'.begin, content[b] > 0
                 PROVE  Hour(b) \in broken'
        BY <1>2 DEF Heard
    <2>1. b > inflight.begin
        BY <1>1, <1>6, <1>9
    <2>2. ~Passed(Result, b)
        <3>1. \A i \in 1..Len(closed') : closed'[i].begin < inflight'.begin /\ closed'[i].begin \in Int
            <4>1. \A i \in 1..Len(closed') : closed'[i] \in Payload
                BY <1>6
            <4>2. \A i \in 1..Len(closed') : closed'[i].begin \in Bars
                BY <4>1 DEF Payload
            <4> QED BY <1>1, <1>5, <1>6, <4>2 DEF InOrder
        <3> QED BY <1>1, <1>5, <1>9, <3>1 DEF Passed
    <2> QED BY <1>10, <2>1, <2>2
<1> QED BY <1>12, <1>13, <1>14, <1>15 DEF SocketInv

\* Every step of the socket.
LEMMA SocketKeeps ==
    ASSUME SocketInv, SocketNext, broken' = broken \cup Missed PROVE SocketInv' /\ Effect
<1>1. CASE NextMinute
    BY <1>1, MinuteKeeps
<1>2. CASE Trade
    BY <1>2, TradeKeeps
<1>3. CASE Late
    <2>1. /\ Quiet /\ bar' = bar /\ content' = content /\ conn' = conn
          /\ inflight' = inflight /\ closed' = << >>
        BY <1>3, LateIsQuiet DEF Quiet, market
    <2>2. bar \in Int
        BY SocketFacts DEF SocketInv
    <2>3. SocketTypeOK' /\ LinkInv'
        BY <2>1 DEF SocketInv, SocketTypeOK, LinkInv, conn
    <2>4. Heard'
        BY <2>1 DEF SocketInv, Heard, Receiving, conn
    <2> QED BY <2>1, <2>2, <2>3, <2>4, QuietEffect DEF SocketInv
<1>4. CASE Wires
    BY <1>4, WiresKeep
<1>5. CASE ReceiveSnapshot
    BY <1>5, SnapshotKeeps
<1> QED BY <1>1, <1>2, <1>3, <1>4, <1>5 DEF SocketNext, Connection, Wires
-----------------------------------------------------------------------------
(***************************************************************************)
(* The invariant of the monitor.                                           *)
(***************************************************************************)
ThreadsOK ==
    /\ rest \in [Pollers -> Hours \cup {-1, Off}] /\ lost \subseteq Hours
    /\ fallback \in BOOLEAN /\ timing \in BOOLEAN /\ alert \in BOOLEAN

\* All that is remembered is older than the bar in flight.
MemoryInv ==
    /\ \A b \in DOMAIN buffer : b < inflight.begin /\ buffer[b] <= content[b]
    /\ lastEval # -1 => Last1m(lastEval) < inflight.begin

\* The rows hold nothing that has not happened.
RowsInv ==
    /\ \A h \in Hours : \A b \in DOMAIN candles[h].seen :
          b \in MinutesOf(h) /\ candles[h].seen[b] <= content[b]
    /\ \A h \in evaluated : h < Hour(bar)

\* An hour that is not broken is tracked until a later bar is in flight, and from
\* then on it is done, if its last minute traded.
Tracked(h) ==
    \A b \in Traded(h) :
        /\ b < inflight.begin => b \in DOMAIN buffer /\ buffer[b] = content[b]
        /\ b = inflight.begin => inflight.seen = content[b]
Done(h) ==
    /\ h \in evaluated
    /\ candles[h].seen = FromRest(h)
    /\ candles[h].close = CloseOf(FromRest(h))
HoursInv ==
    \A h \in Hours \ broken :
        /\ Last1m(h) < inflight.begin /\ Last1m(h) \in Traded(h) => Done(h)
        /\ Last1m(h) >= inflight.begin => Tracked(h)

MonitorInv == Monitor \in Monitors /\ ThreadsOK /\ MemoryInv /\ RowsInv /\ HoursInv

\* What the type of the monitor says of its parts.
LEMMA MonitorFacts ==
    ASSUME Monitor \in Monitors
    PROVE  /\ DOMAIN buffer \subseteq Bars /\ \A b \in DOMAIN buffer : buffer[b] \in 1..MaxTrades
           /\ candles \in [Hours -> Candles] /\ evaluated \subseteq Hours
           /\ lastEval \in Hours \cup {-1}
           /\ \A h \in Hours : /\ DOMAIN candles[h].seen \subseteq Bars
                               /\ \A b \in DOMAIN candles[h].seen :
                                     candles[h].seen[b] \in 1..MaxTrades
<1>1. /\ buffer \in Buffers /\ candles \in [Hours -> Candles] /\ evaluated \subseteq Hours
      /\ lastEval \in Hours \cup {-1}
    BY DEF Monitor, Monitors
<1>2. \A h \in Hours : candles[h].seen \in Buffers
    BY <1>1 DEF Candles
<1> QED BY <1>1, <1>2, BufferIs

\* A write of all that traded leaves all that traded.
LEMMA WholeInserted ==
    ASSUME NEW f, f = [b \in DOMAIN f |-> f[b]], \A b \in DOMAIN f : f[b] \in Nat \ {0},
           NEW c, DOMAIN c.seen \subseteq DOMAIN f,
           \A b \in DOMAIN c.seen : c.seen[b] \in Nat /\ c.seen[b] <= f[b],
           NEW p
    PROVE  InsertCandle(c, f, p) = [seen |-> f, close |-> p]
<1> DEFINE At(g, b) == IF b \in DOMAIN g THEN g[b] ELSE 0
<1>1. DOMAIN c.seen \cup DOMAIN f = DOMAIN f
    OBVIOUS
<1>2. ASSUME NEW b \in DOMAIN f PROVE Max2(At(c.seen, b), At(f, b)) = f[b]
    <2>1. At(f, b) = f[b] /\ f[b] \in Nat /\ f[b] > 0
        OBVIOUS
    <2>2. At(c.seen, b) \in Nat /\ At(c.seen, b) <= f[b]
        BY <2>1
    <2> HIDE DEF At
    <2> QED BY <2>1, <2>2 DEF Max2
<1>3. [b \in DOMAIN f |-> Max2(At(c.seen, b), At(f, b))] = f
    <2> HIDE DEF At
    <2> QED BY <1>2
<1>4. InsertCandle(c, f, p) =
         [seen |-> [b \in DOMAIN c.seen \cup DOMAIN f |-> Max2(At(c.seen, b), At(f, b))],
          close |-> p]
    BY DEF InsertCandle
<1> QED BY <1>1, <1>3, <1>4

\* Minutes have a last one.
LEMMA LastOf ==
    ASSUME NEW T \in SUBSET Bars, T # {}
    PROVE  \E b \in T : \A c \in T : c <= b
<1> DEFINE R == {Minutes - b : b \in T}
<1>1. Minutes \in Nat /\ \A b \in T : b \in 0..Minutes - 1
    BY SocketAssumption DEF Bars
<1>2. R \subseteq Nat /\ R # {}
    BY <1>1
<1>3. PICK x \in R : \A y \in R : <<y, x>> \notin OpToRel(<, Nat)
    <2> HIDE DEF R
    <2> QED BY <1>2, WFMin, NatLessThanWellFounded
<1>4. PICK b \in T : x = Minutes - b
    OBVIOUS
<1>5. ASSUME NEW c \in T PROVE c <= b
    <2>1. Minutes - c \in R /\ Minutes - c \in Nat /\ x \in Nat
        BY <1>2
    <2>2. ~(Minutes - c < x)
        BY <1>3, <2>1 DEF OpToRel
    <2> QED BY <1>1, <1>4, <2>2
<1> QED BY <1>5

\* The close of what traded is a bar; it is the last minute of the hour, if that traded.
LEMMA CloseIs ==
    ASSUME NEW h \in Hours, NEW trades, NEW T \in SUBSET MinutesOf(h), T # {},
           \A b \in T : trades[b] \in 1..MaxTrades
    PROVE  /\ CloseOf([b \in T |-> trades[b]]) \in Payload
           /\ Last1m(h) \in T =>
                 CloseOf([b \in T |-> trades[b]]) = [begin |-> Last1m(h), seen |-> trades[Last1m(h)]]
<1> DEFINE f == [b \in T |-> trades[b]]
           last == CHOOSE b \in T : \A c \in T : c <= b
<1>1. T \subseteq Bars
    BY DEF MinutesOf
<1>2. last \in T /\ \A c \in T : c <= last
    BY <1>1, LastOf
<1>3. CloseOf(f) = [begin |-> last, seen |-> f[last]]
    BY DEF CloseOf
<1> HIDE DEF last
<1>4. f[last] = trades[last] /\ trades[last] \in 1..MaxTrades
    BY <1>2
<1>5. CloseOf(f) \in Payload
    BY <1>1, <1>2, <1>3, <1>4 DEF Payload
<1>6. ASSUME Last1m(h) \in T PROVE last = Last1m(h)
    <2>1. last \in Nat /\ Hour(last) = h /\ h \in Nat
        BY <1>1, <1>2, HourOfBar DEF MinutesOf
    <2>2. last <= Last1m(h) /\ Last1m(h) \in Nat
        BY <2>1, HourBounds
    <2> QED BY <1>2, <1>6, <2>1, <2>2
<1> QED BY <1>3, <1>4, <1>5, <1>6
-----------------------------------------------------------------------------
(***************************************************************************)
(* The monitor over a step of the socket.                                  *)
(***************************************************************************)
\* The bars closed come after all that is remembered.
LEMMA ClosedAhead ==
    ASSUME SocketInv, SocketInv', Effect, Monitor \in Monitors, MemoryInv
    PROVE  /\ closed' \in Seq(Payload) /\ Ahead(closed')
           /\ \A i \in 1..Len(closed') :
                 /\ closed'[i] \in Payload /\ closed'[i].begin \in Bars
                 /\ inflight.begin <= closed'[i].begin /\ closed'[i].begin < inflight'.begin
<1>1. closed' \in Seq(Payload)
    BY DEF SocketInv, SocketTypeOK
<1>2. \A i \in 1..Len(closed') : closed'[i] \in Payload
    BY <1>1
<1>3. \A i \in 1..Len(closed') : closed'[i].begin \in Bars
    BY <1>2 DEF Payload
<1>4. \A i \in 1..Len(closed') :
         /\ inflight.begin <= closed'[i].begin /\ closed'[i].begin < inflight'.begin
         /\ \A j \in 1..i - 1 : closed'[j].begin < closed'[i].begin
    BY DEF Effect, InOrder, Result
<1>5. inflight.begin \in Int /\ \A b \in Bars : b \in Int
    BY SocketFacts DEF SocketInv
<1>6. DOMAIN buffer \subseteq Bars /\ lastEval \in Hours \cup {-1}
    BY MonitorFacts
<1>7. \A b \in DOMAIN buffer : b < inflight.begin
    BY DEF MemoryInv
<1>8. lastEval # -1 => Last1m(lastEval) < inflight.begin /\ Last1m(lastEval) \in Int
    <2> SUFFICES ASSUME lastEval # -1 PROVE Last1m(lastEval) \in Int
        BY DEF MemoryInv
    <2>1. lastEval \in Nat
        BY <1>6, HourOfBar DEF SocketInv, SocketTypeOK, Hours
    <2>2. 0 \in Nat
        OBVIOUS
    <2>3. Last1m(lastEval) \in Nat
        BY <2>1, <2>2, UpToLast
    <2> QED BY <2>3
<1>9. Ahead(closed')
    <2> SUFFICES ASSUME NEW i \in 1..Len(closed')
                 PROVE  /\ \A b \in DOMAIN buffer : b < closed'[i].begin
                        /\ lastEval # -1 => Last1m(lastEval) < closed'[i].begin
                        /\ \A j \in 1..i - 1 : closed'[j].begin < closed'[i].begin
        BY DEF Ahead
    <2>1. closed'[i].begin \in Int
        BY <1>3, <1>5
    <2>2. \A b \in DOMAIN buffer : b \in Int
        BY <1>5, <1>6
    <2> QED BY <1>4, <1>5, <1>7, <1>8, <2>1, <2>2
<1> QED BY <1>1, <1>2, <1>3, <1>4, <1>9

\* What the callbacks leave, part by part.
LEMMA StepAfter ==
    ASSUME SocketInv, SocketInv', Effect, Monitor \in Monitors, MemoryInv, OnOhlcClosed
    PROVE  /\ Monitor' \in Monitors
           /\ DOMAIN buffer' = DOMAIN buffer \cup {closed'[i].begin : i \in 1..Len(closed')}
           /\ \A b \in DOMAIN buffer : buffer'[b] = buffer[b]
           /\ \A i \in 1..Len(closed') : buffer'[closed'[i].begin] = closed'[i].seen
           /\ evaluated \subseteq evaluated'
           /\ \A h \in evaluated' \ evaluated :
                 \E i \in 1..Len(closed') : closed'[i].begin = Last1m(h)
           /\ \A i \in 1..Len(closed') : \A h \in Hours :
                 closed'[i].begin = Last1m(h) => h \in evaluated'
           /\ lastEval' = lastEval \/ \E i \in 1..Len(closed') : closed'[i].begin = Last1m(lastEval')
           /\ \A h \in Hours :
                 /\ \A i \in 1..Len(closed') : closed'[i].begin = Last1m(h)
                       => candles'[h] = InsertCandle(candles[h], Held(buffer', h), closed'[i])
                 /\ (\A i \in 1..Len(closed') : closed'[i].begin # Last1m(h))
                       => candles'[h] = candles[h]
<1>1. After(Monitor', closed', Len(closed'))
    BY ClosedAhead, MonitorAfter
<1>2. /\ Monitor'.buffer = buffer' /\ Monitor'.candles = candles'
      /\ Monitor'.evaluated = evaluated' /\ Monitor'.lastEval = lastEval'
    BY DEF Monitor
<1>3. Monitor' \in Monitors
    BY <1>1 DEF After
<1>4. Buffered(Monitor', closed', Len(closed'))
    BY <1>1 DEF After
<1>5. Evaluations(Monitor', closed', Len(closed'))
    BY <1>1 DEF After
<1>6. Written(Monitor', closed', Len(closed'))
    BY <1>1 DEF After
<1> HIDE DEF Monitor
<1>7. /\ DOMAIN buffer' = DOMAIN buffer \cup {closed'[i].begin : i \in 1..Len(closed')}
      /\ \A b \in DOMAIN buffer : buffer'[b] = buffer[b]
      /\ \A i \in 1..Len(closed') : buffer'[closed'[i].begin] = closed'[i].seen
    BY <1>2, <1>4 DEF Buffered
<1>8. /\ evaluated \subseteq evaluated'
      /\ \A h \in evaluated' \ evaluated :
            \E i \in 1..Len(closed') : closed'[i].begin = Last1m(h)
      /\ \A i \in 1..Len(closed') : \A h \in Hours :
            closed'[i].begin = Last1m(h) => h \in evaluated'
      /\ lastEval' = lastEval \/ \E i \in 1..Len(closed') : closed'[i].begin = Last1m(lastEval')
    BY <1>2, <1>5 DEF Evaluations
<1>9. \A h \in Hours :
         /\ \A i \in 1..Len(closed') : closed'[i].begin = Last1m(h)
               => candles'[h] = InsertCandle(candles[h], Held(buffer', h), closed'[i])
         /\ (\A i \in 1..Len(closed') : closed'[i].begin # Last1m(h))
               => candles'[h] = candles[h]
    BY <1>2, <1>6 DEF Written
<1> QED BY <1>3, <1>7, <1>8, <1>9

\* The memory stays behind the bar in flight, and tells no trade that was not.
LEMMA MemoryKept ==
    ASSUME SocketInv, SocketInv', Effect, Monitor \in Monitors, MemoryInv, OnOhlcClosed
    PROVE  MemoryInv'
<1>1. /\ \A i \in 1..Len(closed') :
            /\ closed'[i] \in Payload /\ closed'[i].begin \in Bars
            /\ closed'[i].begin < inflight'.begin
    BY ClosedAhead
<1>2. /\ inflight.begin \in Int /\ inflight'.begin \in Int /\ inflight.begin <= inflight'.begin
      /\ \A b \in Bars : b \in Int /\ content[b] \in Int /\ content'[b] \in Int /\ content[b] <= content'[b]
    <2>1. inflight'.begin \in Int
        <3>1. inflight' \in Payload \cup {None}
            BY DEF SocketInv, SocketTypeOK
        <3>2. inflight' \in Payload => inflight'.begin \in Bars
            BY DEF Payload
        <3>3. inflight' = None => inflight'.begin = -1
            BY DEF None
        <3>4. \A b \in Bars : b \in Int
            BY SocketFacts DEF SocketInv
        <3>5. -1 \in Int
            OBVIOUS
        <3> QED BY <3>1, <3>2, <3>3, <3>4, <3>5
    <2>2. content' \in [Bars -> 0..MaxTrades] /\ MaxTrades \in Nat
        BY SocketFacts DEF SocketInv, SocketTypeOK
    <2> QED BY <2>1, <2>2, SocketFacts DEF SocketInv, Effect
<1>3. DOMAIN buffer \subseteq Bars /\ \A b \in DOMAIN buffer : buffer[b] \in Int
    BY MonitorFacts, SocketFacts DEF SocketInv
<1>4. ASSUME NEW b \in DOMAIN buffer' PROVE b < inflight'.begin /\ buffer'[b] <= content'[b]
    <2>1. CASE b \in DOMAIN buffer
        <3>1. b < inflight.begin /\ buffer[b] <= content[b] /\ buffer'[b] = buffer[b]
            BY <2>1, StepAfter DEF MemoryInv
        <3>2. b \in Bars /\ buffer[b] \in Int
            BY <2>1, <1>3
        <3> QED BY <3>1, <3>2, <1>2
    <2>2. CASE \E i \in 1..Len(closed') : b = closed'[i].begin
        <3>1. PICK i \in 1..Len(closed') : b = closed'[i].begin
            BY <2>2
        <3>2. buffer'[b] = closed'[i].seen /\ b \in Bars /\ b < inflight'.begin
            BY <3>1, <1>1, StepAfter
        <3>3. CASE closed'[i].seen = content'[b]
            BY <3>2, <3>3, <1>2
        <3>4. CASE closed'[i] = inflight /\ AsItWas
            <4>1. inflight.seen <= content[b] /\ inflight.seen \in Int
                <5>1. inflight # None
                    BY <3>4 DEF AsItWas
                <5> QED BY <3>1, <3>4, <5>1, SocketFacts DEF SocketInv, LinkInv
            <4> QED BY <3>1, <3>2, <3>4, <4>1, <1>2
        <3> QED BY <3>1, <3>2, <3>3, <3>4 DEF Effect
    <2> QED BY <2>1, <2>2, StepAfter
<1>5. lastEval' # -1 => Last1m(lastEval') < inflight'.begin
    <2>1. CASE lastEval' = lastEval
        <3> SUFFICES ASSUME lastEval # -1 PROVE Last1m(lastEval) < inflight'.begin
            BY <2>1
        <3>1. Last1m(lastEval) < inflight.begin
            BY DEF MemoryInv
        <3>2. Last1m(lastEval) \in Int
            <4>1. lastEval \in Nat
                BY MonitorFacts, HourOfBar DEF SocketInv, SocketTypeOK
            <4>2. 0 \in Nat
                OBVIOUS
            <4> QED BY <4>1, <4>2, UpToLast
        <3> QED BY <3>1, <3>2, <1>2
    <2>2. CASE \E i \in 1..Len(closed') : closed'[i].begin = Last1m(lastEval')
        BY <2>2, <1>1
    <2> QED BY <2>1, <2>2, StepAfter
<1> QED BY <1>4, <1>5 DEF MemoryInv
\* The numbers on both sides of a step.
LEMMA StepFacts ==
    ASSUME SocketInv, SocketInv', Effect
    PROVE  /\ bar \in Int /\ bar' \in Int /\ bar <= bar'
           /\ inflight.begin \in Int /\ inflight'.begin \in Int
           /\ inflight.begin <= bar /\ inflight'.begin <= bar' /\ inflight.begin <= inflight'.begin
           /\ \A b \in Bars : /\ b \in Nat /\ content[b] \in 0..MaxTrades /\ content'[b] \in 0..MaxTrades
                              /\ content[b] <= content'[b] /\ (b # bar => content'[b] = content[b])
           /\ MaxTrades \in Nat
           /\ inflight.begin \in Bars => inflight # None
           /\ inflight'.begin \in Bars => inflight' # None
<1>1. /\ inflight' \in Payload \cup {None} /\ content' \in [Bars -> 0..MaxTrades]
      /\ bar' \in Bars /\ bar' >= bar /\ inflight.begin <= inflight'.begin
    BY SocketFacts DEF SocketInv, SocketTypeOK, Effect
<1>2. \A b \in Bars : b \in Int /\ b \in Nat
    BY SocketFacts DEF SocketInv
<1>3. inflight'.begin \in Int
    <2>1. inflight' \in Payload => inflight'.begin \in Bars
        BY DEF Payload
    <2>2. inflight' = None => inflight'.begin = -1
        BY DEF None
    <2>3. -1 \in Int
        OBVIOUS
    <2> QED BY <1>1, <1>2, <2>1, <2>2, <2>3
<1>4. -1 \notin Bars
    BY <1>2
<1>5. inflight.begin \in Bars => inflight # None
    BY <1>4 DEF None
<1>6. inflight'.begin \in Bars => inflight' # None
    BY <1>4 DEF None
<1>7. bar' \in Int
    BY <1>1, <1>2
<1>8. inflight.begin <= bar /\ inflight'.begin <= bar'
    BY DEF SocketInv, LinkInv
<1>9. \A b \in Bars : /\ content'[b] \in 0..MaxTrades /\ content[b] \in 0..MaxTrades
                      /\ content[b] <= content'[b] /\ (b # bar => content'[b] = content[b])
    BY <1>1, SocketFacts DEF SocketInv, Effect
<1> QED BY <1>1, <1>2, <1>3, <1>5, <1>6, <1>7, <1>8, <1>9, SocketFacts DEF SocketInv

\* Of an hour that was tracked and is not broken, all that traded before the bar now
\* in flight is in the buffer, as it was.
LEMMA CaughtUp ==
    ASSUME SocketInv, SocketInv', Effect, MonitorInv, OnOhlcClosed, broken \subseteq broken',
           NEW h \in Hours, h \notin broken', Last1m(h) >= inflight.begin,
           NEW b \in MinutesOf(h), content'[b] > 0
    PROVE  /\ b < inflight'.begin => b \in DOMAIN buffer' /\ buffer'[b] = content'[b]
           /\ b = inflight'.begin => inflight'.seen = content'[b]
<1>1. b \in Bars /\ Hour(b) = h /\ b \in Nat
    BY StepFacts DEF MinutesOf
<1>2. Tracked(h)
    BY DEF MonitorInv, HoursInv
<1>3. \A i \in 1..Len(closed') :
         /\ closed'[i].begin = b => b \in DOMAIN buffer' /\ buffer'[b] = closed'[i].seen
         /\ closed'[i].seen = content'[closed'[i].begin] \/ (closed'[i] = inflight /\ AsItWas)
    BY StepAfter DEF MonitorInv, Effect
<1>4. b = inflight.begin /\ AsItWas => inflight.seen = content'[b]
    <2> SUFFICES ASSUME b = inflight.begin, AsItWas PROVE inflight.seen = content'[b]
        OBVIOUS
    <2>1. content'[b] = content[b]
        BY DEF AsItWas
    <2>2. b \in Traded(h)
        BY <1>1, <2>1 DEF Traded
    <2> QED BY <1>2, <2>1, <2>2 DEF Tracked
<1>5. ASSUME b < inflight'.begin PROVE b \in DOMAIN buffer' /\ buffer'[b] = content'[b]
    <2>1. CASE b < inflight.begin
        <3>1. b # bar
            BY <1>1, <2>1, StepFacts
        <3>2. content'[b] = content[b] /\ b \in Traded(h)
            BY <1>1, <3>1, StepFacts DEF Traded
        <3>3. b \in DOMAIN buffer /\ buffer[b] = content[b]
            BY <1>2, <2>1, <3>2 DEF Tracked
        <3> QED BY <3>2, <3>3, StepAfter DEF MonitorInv
    <2>2. CASE b >= inflight.begin
        <3>1. b <= inflight'.begin /\ b # inflight'.begin
            BY <1>1, <1>5, StepFacts
        <3>2. Passed(Result, b)
            BY <1>1, <2>2, <3>1 DEF Effect
        <3>3. PICK i \in 1..Len(closed') : closed'[i].begin = b
            BY <3>1, <3>2 DEF Passed, Result
        <3>4. b \in DOMAIN buffer' /\ buffer'[b] = closed'[i].seen
            BY <1>3, <3>3
        <3>5. closed'[i].seen = content'[b] \/ (closed'[i] = inflight /\ AsItWas)
            BY <1>3, <3>3
        <3> QED BY <1>4, <3>3, <3>4, <3>5
    <2> QED BY <1>1, <2>1, <2>2, StepFacts
<1>6. ASSUME b = inflight'.begin PROVE inflight'.seen = content'[b]
    <2>1. inflight' # None
        BY <1>1, <1>6, StepFacts
    <2>2. \/ inflight'.seen = content'[b]
          \/ inflight' = inflight /\ AsItWas
          \/ Hour(b) \in broken'
        BY <1>6, <2>1 DEF Effect
    <2> QED BY <1>1, <1>4, <1>6, <2>2
<1> QED BY <1>5, <1>6

\* The hour, written.
LEMMA HourWritten ==
    ASSUME SocketInv, SocketInv', Effect, MonitorInv, MemoryInv', OnOhlcClosed,
           broken \subseteq broken',
           NEW h \in Hours, h \notin broken', Last1m(h) >= inflight.begin,
           Last1m(h) < inflight'.begin, Last1m(h) \in MinutesOf(h), content'[Last1m(h)] > 0
    PROVE  Done(h)'
<1> DEFINE T == {b \in MinutesOf(h) : content'[b] > 0}
           l == Last1m(h)
<1>1. l \in Bars /\ l \in Nat /\ h \in Nat /\ l \in T
    BY HourOfBar DEF MinutesOf, SocketInv, SocketTypeOK
<1>2. Passed(Result, l)
    <2>1. l <= inflight'.begin /\ Hour(l) = h
        BY <1>1, StepFacts DEF MinutesOf
    <2> QED BY <1>1, <2>1 DEF Effect
<1>3. PICK i \in 1..Len(closed') : closed'[i].begin = l
    BY <1>1, <1>2, StepFacts DEF Passed, Result
<1>4. /\ candles'[h] = InsertCandle(candles[h], Held(buffer', h), closed'[i])
      /\ h \in evaluated' /\ buffer'[l] = closed'[i].seen
    BY <1>3, StepAfter DEF MonitorInv
<1>5. \A b \in T : b \in DOMAIN buffer' /\ buffer'[b] = content'[b]
    <2> SUFFICES ASSUME NEW b \in T PROVE b \in DOMAIN buffer' /\ buffer'[b] = content'[b]
        OBVIOUS
    <2>1. b \in Nat /\ Hour(b) = h /\ b <= Last1m(Hour(b))
        BY HourBounds, StepFacts DEF MinutesOf
    <2>2. b < inflight'.begin
        BY <1>1, <2>1, StepFacts
    <2> QED BY <2>2, CaughtUp
<1>6. \A b \in DOMAIN buffer' \cap MinutesOf(h) : b \in T
    <2> SUFFICES ASSUME NEW b \in DOMAIN buffer' \cap MinutesOf(h) PROVE content'[b] > 0
        OBVIOUS
    <2>1. b \in Bars /\ content'[b] \in 0..MaxTrades /\ MaxTrades \in Nat
        BY StepFacts DEF MinutesOf
    <2>2. buffer'[b] <= content'[b]
        BY DEF MemoryInv
    <2>3. buffer'[b] \in 1..MaxTrades
        <3>1. buffer' \in Buffers
            BY StepAfter DEF MonitorInv, Monitor, Monitors
        <3> QED BY <3>1, BufferIs
    <2> QED BY <2>1, <2>2, <2>3
<1>7. Held(buffer', h) = [b \in T |-> content'[b]]
    <2>1. DOMAIN buffer' \cap MinutesOf(h) = T
        BY <1>5, <1>6
    <2> HIDE DEF T
    <2> QED BY <1>5, <2>1 DEF Held
<1>8. /\ \A b \in T : content'[b] \in Nat \ {0} /\ content'[b] \in 1..MaxTrades
      /\ DOMAIN candles[h].seen \subseteq T
      /\ \A b \in DOMAIN candles[h].seen :
            candles[h].seen[b] \in Nat /\ candles[h].seen[b] <= content'[b]
    <2>1. \A b \in T : content'[b] \in 0..MaxTrades /\ MaxTrades \in Nat
        BY StepFacts DEF MinutesOf
    <2>2. ASSUME NEW b \in DOMAIN candles[h].seen
          PROVE  b \in T /\ candles[h].seen[b] \in Nat /\ candles[h].seen[b] <= content'[b]
        <3>1. b \in MinutesOf(h) /\ candles[h].seen[b] <= content[b]
            BY DEF MonitorInv, RowsInv
        <3>2. candles[h].seen[b] \in 1..MaxTrades
            BY MonitorFacts DEF MonitorInv
        <3>3. /\ content[b] \in 0..MaxTrades /\ content'[b] \in 0..MaxTrades
              /\ content[b] <= content'[b] /\ MaxTrades \in Nat
            BY <3>1, StepFacts DEF MinutesOf
        <3> QED BY <3>1, <3>2, <3>3
    <2> QED BY <2>1, <2>2
<1>9. InsertCandle(candles[h], [b \in T |-> content'[b]], closed'[i])
         = [seen |-> [b \in T |-> content'[b]], close |-> closed'[i]]
    <2> DEFINE f == [b \in T |-> content'[b]]
    <2>1. f = [b \in DOMAIN f |-> f[b]] /\ DOMAIN f = T /\ \A b \in T : f[b] = content'[b]
        OBVIOUS
    <2> HIDE DEF f, T
    <2>2. InsertCandle(candles[h], f, closed'[i]) = [seen |-> f, close |-> closed'[i]]
        BY <1>8, <2>1, WholeInserted
    <2> QED BY <2>2 DEF f
<1>10. closed'[i] = [begin |-> l, seen |-> content'[l]]
    <2>1. closed'[i] \in Payload
        BY ClosedAhead DEF MonitorInv
    <2>2. closed'[i].seen = content'[l]
        BY <1>1, <1>4, <1>5
    <2> QED BY <1>3, <2>1, <2>2 DEF Payload
<1>11. CloseOf([b \in T |-> content'[b]]) = [begin |-> l, seen |-> content'[l]]
    <2>1. T \in SUBSET MinutesOf(h) /\ T # {} /\ \A b \in T : content'[b] \in 1..MaxTrades
        BY <1>1, <1>8
    <2> HIDE DEF T
    <2> QED BY <1>1, <2>1, CloseIs
<1>12. FromRest(h)' = [b \in T |-> content'[b]]
    BY DEF FromRest, Traded
<1>13. candles'[h] = [seen |-> [b \in T |-> content'[b]], close |-> closed'[i]]
    BY <1>4, <1>7, <1>9
<1>14. candles'[h].seen = [b \in T |-> content'[b]] /\ candles'[h].close = closed'[i]
    <2> HIDE DEF T
    <2> QED BY <1>13
<1>15. candles'[h].close = CloseOf(FromRest(h)')
    BY <1>10, <1>11, <1>12, <1>14
<1> HIDE DEF T
<1> QED BY <1>4, <1>12, <1>14, <1>15 DEF Done, CloseOf
\* A candle written tells no more than its parts.
LEMMA InsertedBound ==
    ASSUME NEW trades, NEW c, NEW f, NEW p,
           \A b \in DOMAIN c.seen : c.seen[b] \in Nat /\ trades[b] \in Nat /\ c.seen[b] <= trades[b],
           \A b \in DOMAIN f : f[b] \in Nat /\ trades[b] \in Nat /\ f[b] <= trades[b],
           NEW b \in DOMAIN InsertCandle(c, f, p).seen
    PROVE  /\ b \in DOMAIN c.seen \/ b \in DOMAIN f
           /\ InsertCandle(c, f, p).seen[b] <= trades[b]
<1> DEFINE At(g, x) == IF x \in DOMAIN g THEN g[x] ELSE 0
<1>1. InsertCandle(c, f, p).seen =
         [x \in DOMAIN c.seen \cup DOMAIN f |-> Max2(At(c.seen, x), At(f, x))]
    BY DEF InsertCandle
<1>2. b \in DOMAIN c.seen \/ b \in DOMAIN f
    BY <1>1
<1>3. InsertCandle(c, f, p).seen[b] = Max2(At(c.seen, b), At(f, b))
    BY <1>1, <1>2
<1>4. /\ At(c.seen, b) \in Nat /\ At(f, b) \in Nat /\ trades[b] \in Nat
      /\ At(c.seen, b) <= trades[b] /\ At(f, b) <= trades[b]
    BY <1>2
<1> HIDE DEF At
<1> QED BY <1>2, <1>3, <1>4 DEF Max2

\* An hour in which nothing trades is as it was.
LEMMA SameHour ==
    ASSUME NEW h, \A b \in MinutesOf(h) : content'[b] = content[b]
    PROVE  Traded(h)' = Traded(h) /\ FromRest(h)' = FromRest(h)
<1>1. Traded(h)' = Traded(h)
    BY DEF Traded
<1>2. FromRest(h)' = [b \in Traded(h)' |-> content'[b]]
    BY DEF FromRest
<1>3. \A b \in Traded(h) : content'[b] = content[b]
    BY DEF Traded
<1> QED BY <1>1, <1>2, <1>3 DEF FromRest

LEMMA HoursKept ==
    ASSUME SocketInv, SocketInv', Effect, MonitorInv, MemoryInv', OnOhlcClosed,
           broken \subseteq broken'
    PROVE  HoursInv'
<1> SUFFICES ASSUME NEW h \in Hours, h \notin broken'
             PROVE  /\ Last1m(h) < inflight'.begin /\ Last1m(h) \in Traded(h)' => Done(h)'
                    /\ Last1m(h) >= inflight'.begin => Tracked(h)'
    BY DEF HoursInv
<1>1. h \in Nat /\ Last1m(h) \in Nat
    <2>1. h \in Nat
        BY HourOfBar DEF SocketInv, SocketTypeOK
    <2>2. 0 \in Nat
        OBVIOUS
    <2> QED BY <2>1, <2>2, UpToLast
<1>2. /\ inflight.begin \in Int /\ inflight'.begin \in Int /\ inflight.begin <= inflight'.begin
      /\ inflight.begin <= bar /\ bar \in Int
    BY StepFacts
<1>3. \A b \in MinutesOf(h) : b \in Bars /\ b \in Nat /\ b <= Last1m(h)
    BY StepFacts, HourBounds DEF MinutesOf
<1>4. ASSUME Last1m(h) < inflight'.begin, Last1m(h) \in Traded(h)' PROVE Done(h)'
    <2>1. Last1m(h) \in MinutesOf(h) /\ content'[Last1m(h)] > 0
        BY <1>4 DEF Traded
    <2>2. CASE Last1m(h) >= inflight.begin
        BY <2>1, <2>2, <1>4, HourWritten
    <2>3. CASE Last1m(h) < inflight.begin
        <3>1. \A b \in MinutesOf(h) : content'[b] = content[b]
            <4>1. \A b \in MinutesOf(h) : b # bar
                BY <2>3, <1>1, <1>2, <1>3
            <4> QED BY <4>1, <1>3, StepFacts
        <3>2. Traded(h)' = Traded(h) /\ FromRest(h)' = FromRest(h)
            BY <3>1, SameHour
        <3>3. Done(h)
            BY <2>3, <3>2, <1>4 DEF MonitorInv, HoursInv
        <3>4. \A i \in 1..Len(closed') : closed'[i].begin # Last1m(h)
            <4>1. \A i \in 1..Len(closed') : inflight.begin <= closed'[i].begin /\ closed'[i].begin \in Bars
                BY ClosedAhead DEF MonitorInv
            <4>2. \A i \in 1..Len(closed') : closed'[i].begin \in Nat
                BY <4>1, StepFacts
            <4> QED BY <2>3, <4>1, <4>2, <1>1, <1>2
        <3>5. candles'[h] = candles[h] /\ evaluated \subseteq evaluated'
            BY <3>4, StepAfter DEF MonitorInv
        <3> HIDE DEF Traded, FromRest
        <3> QED BY <3>2, <3>3, <3>5 DEF Done, CloseOf
    <2> QED BY <2>2, <2>3, <1>1, <1>2
<1>5. ASSUME Last1m(h) >= inflight'.begin PROVE Tracked(h)'
    <2>1. Last1m(h) >= inflight.begin
        BY <1>1, <1>2, <1>5
    <2>2. \A b \in Traded(h)' : b \in MinutesOf(h) /\ content'[b] > 0
        BY DEF Traded
    <2>3. ASSUME NEW b \in MinutesOf(h), content'[b] > 0
          PROVE  /\ b < inflight'.begin => b \in DOMAIN buffer' /\ buffer'[b] = content'[b]
                 /\ b = inflight'.begin => inflight'.seen = content'[b]
        BY <2>1, <2>3, CaughtUp
    <2> QED BY <2>2, <2>3 DEF Tracked
<1> QED BY <1>4, <1>5

LEMMA RowsKept ==
    ASSUME SocketInv, SocketInv', Effect, MonitorInv, MemoryInv', OnOhlcClosed
    PROVE  RowsInv'
<1>1. ASSUME NEW h \in Hours, NEW b \in DOMAIN candles'[h].seen
      PROVE  b \in MinutesOf(h) /\ candles'[h].seen[b] <= content'[b]
    <2>1. \A x \in DOMAIN candles[h].seen :
             /\ x \in MinutesOf(h) /\ candles[h].seen[x] \in Nat
             /\ content'[x] \in Nat /\ candles[h].seen[x] <= content'[x]
        <3> SUFFICES ASSUME NEW x \in DOMAIN candles[h].seen
                     PROVE  /\ x \in MinutesOf(h) /\ candles[h].seen[x] \in Nat
                            /\ content'[x] \in Nat /\ candles[h].seen[x] <= content'[x]
            OBVIOUS
        <3>1. x \in MinutesOf(h) /\ candles[h].seen[x] <= content[x]
            BY DEF MonitorInv, RowsInv
        <3>2. candles[h].seen[x] \in 1..MaxTrades /\ x \in Bars
            BY <3>1, MonitorFacts DEF MonitorInv, MinutesOf
        <3>3. /\ content[x] \in 0..MaxTrades /\ content'[x] \in 0..MaxTrades
              /\ content[x] <= content'[x] /\ MaxTrades \in Nat
            BY <3>2, StepFacts
        <3> QED BY <3>1, <3>2, <3>3
    <2>2. CASE \A i \in 1..Len(closed') : closed'[i].begin # Last1m(h)
        <3>1. candles'[h] = candles[h]
            BY <2>2, StepAfter DEF MonitorInv
        <3> QED BY <1>1, <2>1, <3>1
    <2>3. CASE \E i \in 1..Len(closed') : closed'[i].begin = Last1m(h)
        <3> DEFINE f == Held(buffer', h)
        <3>1. PICK i \in 1..Len(closed') : closed'[i].begin = Last1m(h)
            BY <2>3
        <3>2. candles'[h] = InsertCandle(candles[h], f, closed'[i])
            BY <3>1, StepAfter DEF MonitorInv
        <3>3. \A x \in DOMAIN f : /\ x \in MinutesOf(h) /\ f[x] \in Nat
                                  /\ content'[x] \in Nat /\ f[x] <= content'[x]
            <4> SUFFICES ASSUME NEW x \in DOMAIN f
                         PROVE  /\ x \in MinutesOf(h) /\ f[x] \in Nat
                                /\ content'[x] \in Nat /\ f[x] <= content'[x]
                OBVIOUS
            <4>1. x \in DOMAIN buffer' /\ x \in MinutesOf(h) /\ f[x] = buffer'[x]
                BY DEF Held
            <4>2. buffer'[x] <= content'[x]
                BY <4>1 DEF MemoryInv
            <4>3. buffer'[x] \in 1..MaxTrades
                <5>1. buffer' \in Buffers
                    BY StepAfter DEF MonitorInv, Monitor, Monitors
                <5> QED BY <4>1, <5>1, BufferIs
            <4>4. content'[x] \in 0..MaxTrades /\ MaxTrades \in Nat
                BY <4>1, StepFacts DEF MinutesOf
            <4> QED BY <4>1, <4>2, <4>3, <4>4
        <3>4. b \in DOMAIN InsertCandle(candles[h], f, closed'[i]).seen
            BY <1>1, <3>2
        <3> HIDE DEF f
        <3>5. /\ b \in DOMAIN candles[h].seen \/ b \in DOMAIN f
              /\ InsertCandle(candles[h], f, closed'[i]).seen[b] <= content'[b]
            BY <2>1, <3>3, <3>4, InsertedBound
        <3> QED BY <2>1, <3>2, <3>3, <3>5
    <2> QED BY <2>2, <2>3
<1>2. ASSUME NEW h \in evaluated' PROVE h < Hour(bar')
    <2>1. bar \in Nat /\ bar' \in Nat /\ bar <= bar'
        BY StepFacts DEF SocketInv, SocketTypeOK
    <2>2. Hour(bar) \in Nat /\ Hour(bar') \in Nat /\ Hour(bar) <= Hour(bar')
        BY <2>1, HourBounds, HourMonotone
    <2>3. h \in Nat
        <3>1. evaluated' \subseteq Hours
            BY StepAfter DEF MonitorInv, Monitor, Monitors
        <3> QED BY <3>1, HourOfBar DEF SocketInv, SocketTypeOK
    <2>4. CASE h \in evaluated
        <3>1. h < Hour(bar)
            BY <2>4 DEF MonitorInv, RowsInv
        <3> QED BY <2>2, <2>3, <3>1
    <2>5. CASE h \notin evaluated
        <3>1. PICK i \in 1..Len(closed') : closed'[i].begin = Last1m(h)
            BY <1>2, <2>5, StepAfter DEF MonitorInv
        <3>2. Last1m(h) < inflight'.begin /\ Last1m(h) \in Nat
            BY <2>1, <2>3, <3>1, ClosedAhead, UpToLast DEF MonitorInv
        <3>3. ~(bar' <= Last1m(h))
            BY <2>1, <3>2, StepFacts
        <3>4. ~(Hour(bar') <= h)
            BY <2>1, <2>3, <3>3, UpToLast
        <3> QED BY <2>2, <2>3, <3>4
    <2> QED BY <2>4, <2>5
<1>3. RowsInv' <=>
         /\ \A h \in Hours : \A b \in DOMAIN candles'[h].seen :
               b \in MinutesOf(h) /\ candles'[h].seen[b] <= content'[b]
         /\ \A h \in evaluated' : h < Hour(bar')
    BY DEF RowsInv, Hour
<1> QED BY <1>1, <1>2, <1>3
-----------------------------------------------------------------------------
(***************************************************************************)
(* The other threads, and a restart.                                       *)
(***************************************************************************)
LEMMA IdleKeepsSocket == ASSUME SocketInv, Idle PROVE SocketInv'
<1>1. /\ bar' = bar /\ content' = content /\ link' = link /\ alive' = alive /\ state' = state
      /\ attempt' = attempt /\ subscribed' = subscribed /\ awaiting' = awaiting
      /\ inflight' = inflight /\ broken' = broken /\ closed' = << >>
    BY DEF Idle, market, conn
<1> QED BY <1>1 DEF SocketInv, SocketTypeOK, LinkInv, Heard, Receiving

\* An hour written from the exchange holds what the exchange knows.
Rewritten(h) ==
    candles'[h] = InsertCandle(candles[h], FromRest(h), CloseOf(FromRest(h)))

LEMMA RewrittenIs ==
    ASSUME SocketInv, MonitorInv, NEW h \in Hours, Traded(h) # {}, Rewritten(h)
    PROVE  /\ candles'[h] = [seen |-> FromRest(h), close |-> CloseOf(FromRest(h))]
           /\ candles'[h] \in Candles
<1>1. \A b \in MinutesOf(h) : /\ b \in Bars /\ content[b] \in 0..MaxTrades /\ MaxTrades \in Nat
    BY SocketFacts DEF SocketInv, MinutesOf
<1>2. \A b \in Traded(h) : b \in MinutesOf(h) /\ b \in Bars /\ content[b] \in 1..MaxTrades
    BY <1>1 DEF Traded
<1> DEFINE f == FromRest(h)
<1>3. /\ DOMAIN f = Traded(h) /\ f = [b \in DOMAIN f |-> f[b]]
      /\ \A b \in DOMAIN f : f[b] = content[b]
    BY DEF FromRest
<1>4. /\ DOMAIN candles[h].seen \subseteq Traded(h)
      /\ \A b \in DOMAIN candles[h].seen :
            candles[h].seen[b] \in Nat /\ candles[h].seen[b] <= content[b]
    <2> SUFFICES ASSUME NEW b \in DOMAIN candles[h].seen
                 PROVE  /\ b \in Traded(h) /\ candles[h].seen[b] \in Nat
                        /\ candles[h].seen[b] <= content[b]
        OBVIOUS
    <2>1. b \in MinutesOf(h) /\ candles[h].seen[b] <= content[b]
        BY DEF MonitorInv, RowsInv
    <2>2. candles[h].seen[b] \in 1..MaxTrades
        BY MonitorFacts DEF MonitorInv
    <2>3. content[b] > 0 /\ candles[h].seen[b] \in Nat
        BY <2>1, <2>2, <1>1
    <2> QED BY <2>1, <2>3 DEF Traded
<1>5. f \in Buffers
    <2>1. DOMAIN f \subseteq Bars /\ \A b \in DOMAIN f : f[b] \in 1..MaxTrades
        BY <1>2, <1>3
    <2> HIDE DEF f
    <2> QED BY <1>3, <2>1, BufferIs
<1>6. CloseOf(f) \in Payload
    <2>1. Traded(h) \in SUBSET MinutesOf(h) /\ f = [b \in Traded(h) |-> content[b]]
        BY DEF Traded, FromRest
    <2>2. CloseOf([b \in Traded(h) |-> content[b]]) \in Payload
        BY <1>2, <2>1, CloseIs
    <2> QED BY <2>1, <2>2
<1>7. /\ \A b \in DOMAIN f : f[b] \in Nat \ {0}
      /\ DOMAIN candles[h].seen \subseteq DOMAIN f
      /\ \A b \in DOMAIN candles[h].seen :
            candles[h].seen[b] \in Nat /\ candles[h].seen[b] <= f[b]
    <2> HIDE DEF f
    <2> QED BY <1>1, <1>2, <1>3, <1>4
<1> DEFINE p == CloseOf(f)
<1>8. candles'[h] = InsertCandle(candles[h], f, p)
    BY DEF Rewritten
<1> HIDE DEF f, p
<1>9. candles'[h] = [seen |-> f, close |-> p]
    BY <1>3, <1>7, <1>8, WholeInserted
<1>10. candles'[h] \in Candles
    BY <1>5, <1>6, <1>9 DEF Candles, p
<1> QED BY <1>9, <1>10 DEF f, p

\* Hours written from the exchange stay whole, and what is remembered is not touched.
LEMMA RestKeeps ==
    ASSUME SocketInv, MonitorInv, Idle, buffer' = buffer, lastEval' = lastEval,
           evaluated \subseteq evaluated',
           \A h \in evaluated' \ evaluated : h \in Hours /\ h < Hour(bar),
           candles' = [h \in Hours |-> candles'[h]],
           \A h \in Hours : candles'[h] = candles[h] \/ (Traded(h) # {} /\ Rewritten(h))
    PROVE  Monitor' \in Monitors /\ MemoryInv' /\ RowsInv' /\ HoursInv'
<1>1. bar' = bar /\ content' = content /\ inflight' = inflight /\ broken' = broken
    BY DEF Idle, market
<1>2. /\ buffer \in Buffers /\ candles \in [Hours -> Candles] /\ evaluated \subseteq Hours
      /\ lastEval \in Hours \cup {-1}
    BY DEF MonitorInv, Monitor, Monitors
<1>3. ASSUME NEW h \in Hours
      PROVE  /\ candles'[h] \in Candles
             /\ candles'[h] # candles[h] =>
                   candles'[h].seen = FromRest(h) /\ candles'[h].close = CloseOf(FromRest(h))
    <2>1. CASE candles'[h] = candles[h]
        BY <2>1, <1>2
    <2>2. CASE Traded(h) # {} /\ Rewritten(h)
        <3>1. /\ candles'[h] = [seen |-> FromRest(h), close |-> CloseOf(FromRest(h))]
              /\ candles'[h] \in Candles
            BY <2>2, RewrittenIs
        <3> HIDE DEF FromRest, CloseOf
        <3> QED BY <3>1
    <2> QED BY <2>1, <2>2
<1>4. Monitor' \in Monitors
    <2>1. candles' \in [Hours -> Candles] /\ evaluated' \subseteq Hours
        BY <1>2, <1>3
    <2>2. Monitor' = [buffer |-> buffer, candles |-> candles', evaluated |-> evaluated',
                      lastEval |-> lastEval]
        BY DEF Monitor
    <2> QED BY <1>2, <2>1, <2>2 DEF Monitors
<1>5. MemoryInv'
    BY <1>1 DEF MonitorInv, MemoryInv, Last1m
<1>6. \A h : Traded(h)' = Traded(h) /\ FromRest(h)' = FromRest(h)
    BY <1>1, SameHour
<1>7. RowsInv'
    <2>1. ASSUME NEW h \in Hours, NEW b \in DOMAIN candles'[h].seen
          PROVE  b \in MinutesOf(h) /\ candles'[h].seen[b] <= content'[b]
        <3>1. CASE candles'[h] = candles[h]
            BY <2>1, <3>1, <1>1 DEF MonitorInv, RowsInv
        <3>2. CASE candles'[h] # candles[h]
            <4>1. candles'[h].seen = [x \in Traded(h) |-> content[x]]
                BY <3>2, <1>3 DEF FromRest
            <4>2. b \in Traded(h) /\ candles'[h].seen[b] = content[b]
                BY <2>1, <4>1
            <4>3. b \in MinutesOf(h) /\ b \in Bars
                BY <4>2 DEF Traded, MinutesOf
            <4>4. content[b] \in Int
                BY <4>3, SocketFacts DEF SocketInv
            <4> QED BY <4>2, <4>3, <4>4, <1>1
        <3> QED BY <3>1, <3>2
    <2>2. \A h \in evaluated' : h < Hour(bar')
        BY <1>1 DEF MonitorInv, RowsInv
    <2>3. RowsInv' <=>
             /\ \A h \in Hours : \A b \in DOMAIN candles'[h].seen :
                   b \in MinutesOf(h) /\ candles'[h].seen[b] <= content'[b]
             /\ \A h \in evaluated' : h < Hour(bar')
        BY DEF RowsInv, Hour
    <2> QED BY <2>1, <2>2, <2>3
<1>8. HoursInv'
    <2> SUFFICES ASSUME NEW h \in Hours, h \notin broken
                 PROVE  /\ Last1m(h) < inflight'.begin /\ Last1m(h) \in Traded(h)' => Done(h)'
                        /\ Last1m(h) >= inflight'.begin => Tracked(h)'
        BY <1>1 DEF HoursInv
    <2>1. Last1m(h) >= inflight'.begin => Tracked(h)'
        BY <1>1, <1>6 DEF MonitorInv, HoursInv, Tracked
    <2>2. ASSUME Last1m(h) < inflight'.begin, Last1m(h) \in Traded(h)' PROVE Done(h)'
        <3>1. Done(h)
            BY <2>2, <1>1, <1>6 DEF MonitorInv, HoursInv
        <3>2. /\ h \in evaluated'
              /\ candles'[h].seen = FromRest(h) /\ candles'[h].close = CloseOf(FromRest(h))
            BY <3>1, <1>3 DEF Done
        <3> HIDE DEF FromRest
        <3> QED BY <3>2, <1>6 DEF Done, CloseOf
    <2> QED BY <2>1, <2>2
<1> QED BY <1>4, <1>5, <1>7, <1>8
LEMMA RestPollKeeps ==
    ASSUME SocketInv, MonitorInv, NEW t \in Pollers, RestPoll(t) PROVE MonitorInv'
<1> DEFINE h == LatestHour
<1>1. h \in Hours /\ h < Hour(bar)
    <2>1. bar \in Bars
        BY DEF SocketInv, SocketTypeOK
    <2>2. Hour(bar) \in 0..Hour(Minutes - 1) /\ Hour(bar) - 1 >= 0 /\ Hours \subseteq Nat
        BY <2>1, HourOfBar DEF RestPoll, LatestHour, Hours
    <2>3. Hour(Minutes - 1) \in Nat
        <3>1. Minutes - 1 \in Nat
            BY SocketAssumption
        <3> QED BY <3>1, HourBounds
    <2>4. Hour(bar) - 1 \in 0..Hour(Minutes - 1) /\ Hour(bar) - 1 < Hour(bar)
        BY <2>2, <2>3
    <2> QED BY <2>4 DEF LatestHour, Hours
<1>2. /\ Idle /\ buffer' = buffer /\ lastEval' = lastEval
      /\ evaluated' \in {evaluated, evaluated \cup {h}} /\ Traded(h) # {}
      /\ lost' \in {lost, lost \cup {h}}
      /\ candles' \in {candles, RestWritten}
      /\ RestWritten = [candles EXCEPT ![h] = InsertCandle(@, FromRest(h), CloseOf(FromRest(h)))]
      /\ fallback' = fallback /\ timing' = timing /\ alert' = alert
      /\ rest' = [rest EXCEPT ![t] = h]
    BY DEF RestPoll, RestWritten
<1>3. DOMAIN candles = Hours
    BY MonitorFacts DEF MonitorInv
<1> HIDE DEF h
<1>4. /\ candles' = [g \in Hours |-> candles'[g]]
      /\ \A g \in Hours : candles'[g] = candles[g] \/ (Traded(g) # {} /\ Rewritten(g))
    <2>1. \/ candles' = [g \in Hours |->
                IF g = h THEN InsertCandle(candles[g], FromRest(g), CloseOf(FromRest(g)))
                ELSE candles[g]]
          \/ candles' = candles /\ candles = [g \in Hours |-> candles[g]]
        BY <1>1, <1>2, <1>3, MonitorFacts DEF MonitorInv
    <2>2. candles' = [g \in Hours |-> candles'[g]]
        BY <2>1
    <2>3. ASSUME NEW g \in Hours PROVE candles'[g] = candles[g] \/ (Traded(g) # {} /\ Rewritten(g))
        BY <2>1, <1>2 DEF Rewritten
    <2> QED BY <2>2, <2>3
<1>5. Monitor' \in Monitors /\ MemoryInv' /\ RowsInv' /\ HoursInv'
    BY <1>1, <1>2, <1>4, RestKeeps
<1>6. ThreadsOK'
    BY <1>1, <1>2 DEF MonitorInv, ThreadsOK
<1> QED BY <1>5, <1>6 DEF MonitorInv

LEMMA ObserverPollKeeps == ASSUME SocketInv, MonitorInv, ObserverPoll PROVE MonitorInv'
<1>1. /\ Idle /\ buffer' = buffer /\ lastEval' = lastEval /\ evaluated' = evaluated
      /\ candles' = PolledCandles
      /\ fallback' = fallback /\ timing' = timing /\ alert' = alert /\ rest' = rest
      /\ lost' = lost
    BY DEF ObserverPoll, watch, Watching
<1>2. /\ candles' = [h \in Hours |-> candles'[h]]
      /\ \A h \in Hours : candles'[h] = candles[h] \/ (Traded(h) # {} /\ Rewritten(h))
    BY <1>1 DEF PolledCandles, Rewritten
<1>3. Monitor' \in Monitors /\ MemoryInv' /\ RowsInv' /\ HoursInv'
    BY <1>1, <1>2, RestKeeps
<1>4. ThreadsOK'
    BY <1>1 DEF MonitorInv, ThreadsOK
<1> QED BY <1>3, <1>4 DEF MonitorInv

\* Steps of the monitor thread, and the end of a REST thread.
ThreadStep == StartTimer \/ Engage \/ Recover \/ \E t \in Pollers : RestExit(t)
LEMMA ThreadsKeep ==
    ASSUME SocketInv, MonitorInv, ThreadStep PROVE MonitorInv'
<1>1. Idle /\ hourly' = hourly
    BY DEF ThreadStep, StartTimer, Engage, Recover, RestExit, Watching
<1>2. /\ buffer' = buffer /\ candles' = candles /\ evaluated' = evaluated /\ lastEval' = lastEval
    BY <1>1 DEF hourly
<1>3. candles = [h \in Hours |-> candles[h]]
    BY MonitorFacts DEF MonitorInv
<1>4. Monitor' \in Monitors /\ MemoryInv' /\ RowsInv' /\ HoursInv'
    BY <1>1, <1>2, <1>3, RestKeeps
<1>5. ThreadsOK'
    <2>1. /\ lost' = lost /\ fallback' \in BOOLEAN /\ timing' \in BOOLEAN /\ alert' \in BOOLEAN
          /\ rest' = rest \/ \E t \in Pollers, v \in {-1, Off} : rest' = [rest EXCEPT ![t] = v]
        <3>1. Unused # {} => (CHOOSE t \in Unused : TRUE) \in Pollers
            BY DEF Unused
        <3> QED BY <3>1 DEF ThreadStep, StartTimer, Engage, Recover, RestExit, Watching,
                            MonitorInv, ThreadsOK
    <2>2. rest' \in [Pollers -> Hours \cup {-1, Off}]
        BY <2>1 DEF MonitorInv, ThreadsOK
    <2> QED BY <2>1, <2>2 DEF MonitorInv, ThreadsOK
<1> QED BY <1>4, <1>5 DEF MonitorInv

\* A restart forgets everything in memory: no hour is in progress.
LEMMA RestartKeeps ==
    ASSUME SocketInv, MonitorInv, Restart PROVE SocketInv' /\ MonitorInv'
<1>1. /\ bar' = bar /\ content' = content /\ link' = "idle" /\ alive' = FALSE /\ state' = "starting"
      /\ attempt' = 0 /\ subscribed' = FALSE /\ awaiting' = FALSE /\ inflight' = None
      /\ closed' = << >> /\ buffer' = [b \in {} |-> 0] /\ lastEval' = -1
      /\ fallback' = FALSE /\ timing' = FALSE /\ rest' = [t \in Pollers |-> Off]
      /\ lost' = lost /\ candles' = candles /\ evaluated' = evaluated /\ alert' = alert
    BY DEF Restart, market
<1>2. bar \in Nat /\ MaxAttempt \in Nat /\ None.begin = -1
    <2>1. bar \in 0..Minutes - 1 /\ Minutes \in Nat /\ MaxAttempt \in Nat
        BY SocketAssumption DEF SocketInv, SocketTypeOK, Bars
    <2> QED BY <2>1 DEF None
<1>3. SocketTypeOK'
    <2>1. bar' \in Bars /\ content' \in [Bars -> 0..MaxTrades]
        BY <1>1 DEF SocketInv, SocketTypeOK
    <2>2. attempt' \in 0..MaxAttempt
        BY <1>1, <1>2
    <2>3. inflight' \in Payload \cup {None} /\ closed' \in Seq(Payload)
        BY <1>1
    <2> QED BY <1>1, <2>1, <2>2, <2>3 DEF SocketTypeOK
<1>4. LinkInv'
    BY <1>1, <1>2 DEF SocketInv, LinkInv
<1>5. Heard'
    BY <1>1 DEF Heard, Receiving
<1>6. Monitor' \in Monitors
    <2>1. buffer' \in Buffers
        <3>1. buffer' \in [{} -> 1..MaxTrades]
            BY <1>1
        <3> QED BY <3>1 DEF Buffers
    <2>2. candles \in [Hours -> Candles] /\ evaluated \subseteq Hours
        BY MonitorFacts DEF MonitorInv
    <2>3. Monitor' = [buffer |-> buffer', candles |-> candles, evaluated |-> evaluated,
                      lastEval |-> -1]
        BY <1>1 DEF Monitor
    <2> QED BY <2>1, <2>2, <2>3 DEF Monitors
<1>7. ThreadsOK'
    BY <1>1 DEF MonitorInv, ThreadsOK
<1>8. MemoryInv'
    BY <1>1 DEF MemoryInv
<1>9. RowsInv'
    BY <1>1 DEF MonitorInv, RowsInv, Hour
<1>10. HoursInv'
    <2> SUFFICES ASSUME NEW h \in Hours
                 PROVE  ~(Last1m(h) < -1) /\ Tracked(h)'
        BY <1>1, <1>2 DEF HoursInv
    <2>1. Last1m(h) \in Nat
        <3>1. h \in Nat
            BY HourOfBar DEF SocketInv, SocketTypeOK
        <3>2. 0 \in Nat
            OBVIOUS
        <3> QED BY <3>1, <3>2, UpToLast
    <2>2. \A b \in Traded(h)' : b \in Nat
        BY SocketFacts DEF SocketInv, Traded, MinutesOf
    <2>3. Tracked(h)'
        BY <2>2, <1>1, <1>2 DEF Tracked
    <2> QED BY <2>1, <2>3
<1> QED BY <1>3, <1>4, <1>5, <1>6, <1>7, <1>8, <1>9, <1>10 DEF SocketInv, MonitorInv

\* A step of the socket with its callbacks.
LEMMA SocketStepKeeps ==
    ASSUME SocketInv, MonitorInv, SocketStep PROVE SocketInv' /\ MonitorInv' /\ Ahead(closed')
<1>1. SocketNext /\ OnOhlcClosed /\ OnStateChange /\ broken' = broken \cup Missed
    BY DEF SocketStep
<1>2. SocketInv' /\ Effect /\ broken \subseteq broken'
    BY <1>1, SocketKeeps
<1>3. Monitor \in Monitors /\ MemoryInv
    BY DEF MonitorInv
<1>4. Monitor' \in Monitors
    BY <1>1, <1>2, <1>3, StepAfter
<1>5. MemoryInv'
    BY <1>1, <1>2, <1>3, MemoryKept
<1>6. RowsInv'
    BY <1>1, <1>2, <1>5, RowsKept
<1>7. HoursInv'
    BY <1>1, <1>2, <1>5, HoursKept
<1>8. ThreadsOK'
    <2>1. fallback' = fallback /\ timing' = timing /\ rest' = rest /\ lost' = lost
        BY DEF SocketStep
    <2>2. alert' \in BOOLEAN
        BY DEF SocketStep, OnStateChange, MonitorInv, ThreadsOK
    <2> QED BY <2>1, <2>2 DEF MonitorInv, ThreadsOK
<1>9. Ahead(closed')
    BY <1>2, <1>3, ClosedAhead
<1> QED BY <1>2, <1>4, <1>5, <1>6, <1>7, <1>8, <1>9 DEF MonitorInv

-----------------------------------------------------------------------------
(***************************************************************************)
(* The theorems.                                                           *)
(***************************************************************************)
GateInv == SocketInv /\ MonitorInv

LEMMA GateInit == Init => GateInv
<1> SUFFICES ASSUME Init PROVE GateInv
    OBVIOUS
<1>1. /\ bar = 0 /\ content = [b \in Bars |-> 0] /\ link = "idle" /\ alive = FALSE
      /\ state = "starting" /\ attempt = 0 /\ subscribed = FALSE /\ awaiting = FALSE
      /\ inflight = None /\ closed = << >> /\ buffer = [b \in {} |-> 0]
      /\ candles = [h \in Hours |-> NoCandle] /\ evaluated = {} /\ lastEval = -1
      /\ fallback = FALSE /\ timing = FALSE /\ rest = [t \in Pollers |-> Off]
      /\ alert = FALSE /\ broken = {} /\ lost = {}
    BY DEF Init, SocketInit
<1>2. 0 \in Bars /\ MaxTrades \in Nat /\ MaxAttempt \in Nat /\ None.begin = -1
    <2>1. Minutes \in Nat /\ Minutes > 0 /\ MaxTrades \in Nat /\ MaxAttempt \in Nat
        BY SocketAssumption
    <2> QED BY <2>1 DEF Bars, None
<1>3. SocketTypeOK
    <2>1. closed \in Seq(Payload) /\ inflight \in Payload \cup {None}
        BY <1>1
    <2>2. bar \in Bars /\ content \in [Bars -> 0..MaxTrades] /\ attempt \in 0..MaxAttempt
        BY <1>1, <1>2
    <2> QED BY <1>1, <2>1, <2>2 DEF SocketTypeOK
<1>4. LinkInv /\ Heard
    BY <1>1, <1>2 DEF LinkInv, Heard, Receiving
<1>5. [b \in {} |-> 0] \in Buffers
    <2>1. [b \in {} |-> 0] \in [{} -> 1..MaxTrades]
        OBVIOUS
    <2> QED BY <2>1 DEF Buffers
<1>6. Monitor \in Monitors
    <2>1. NoCandle \in Candles
        BY <1>5 DEF NoCandle, Candles
    <2> QED BY <1>1, <1>5, <2>1 DEF Monitor, Monitors
<1>7. ThreadsOK
    BY <1>1 DEF ThreadsOK
<1>8. MemoryInv
    BY <1>1 DEF MemoryInv
<1>9. RowsInv
    BY <1>1 DEF RowsInv, NoCandle
<1>10. HoursInv
    <2>1. \A h : Traded(h) = {}
        BY <1>1 DEF Traded, MinutesOf
    <2> QED BY <2>1 DEF HoursInv, Tracked
<1> QED BY <1>3, <1>4, <1>6, <1>7, <1>8, <1>9, <1>10 DEF GateInv, SocketInv, MonitorInv

LEMMA GateStep == ASSUME GateInv, [Next]_vars PROVE GateInv'
<1> USE DEF GateInv
<1>1. CASE SocketStep
    BY <1>1, SocketStepKeeps
<1>2. CASE ThreadStep
    <2>1. Idle
        BY <1>2 DEF ThreadStep, StartTimer, Engage, Recover, RestExit, Watching
    <2> QED BY <1>2, <2>1, ThreadsKeep, IdleKeepsSocket
<1>3. ASSUME NEW t \in Pollers, RestPoll(t) PROVE GateInv'
    <2>1. Idle
        BY <1>3 DEF RestPoll
    <2> QED BY <1>3, <2>1, RestPollKeeps, IdleKeepsSocket
<1>4. CASE ObserverPoll
    <2>1. Idle
        BY <1>4 DEF ObserverPoll, Watching
    <2> QED BY <1>4, <2>1, ObserverPollKeeps, IdleKeepsSocket
<1>5. CASE Restart
    BY <1>5, RestartKeeps
<1>6. CASE UNCHANGED vars
    <2>1. /\ bar' = bar /\ content' = content /\ link' = link /\ alive' = alive /\ state' = state
          /\ attempt' = attempt /\ subscribed' = subscribed /\ awaiting' = awaiting
          /\ inflight' = inflight /\ closed' = closed
          /\ buffer' = buffer /\ candles' = candles /\ evaluated' = evaluated
          /\ lastEval' = lastEval /\ fallback' = fallback /\ timing' = timing /\ rest' = rest
          /\ alert' = alert /\ broken' = broken /\ lost' = lost
        BY <1>6 DEF vars, socketVars, market, conn, hourly, watch, history
    <2>2. SocketInv'
        BY <2>1 DEF SocketInv, SocketTypeOK, LinkInv, Heard, Receiving
    <2>3. Monitor' \in Monitors /\ ThreadsOK' /\ MemoryInv' /\ RowsInv'
        BY <2>1 DEF MonitorInv, Monitor, ThreadsOK, MemoryInv, RowsInv, Last1m, Hour
    <2>4. \A h : Traded(h)' = Traded(h) /\ FromRest(h)' = FromRest(h)
        BY <2>1, SameHour
    <2>5. \A h : (Tracked(h) => Tracked(h)') /\ (Done(h) => Done(h)')
        <3> HIDE DEF FromRest, Traded
        <3> QED BY <2>1, <2>4 DEF Tracked, Done, CloseOf
    <2>6. HoursInv'
        BY <2>1, <2>4, <2>5 DEF MonitorInv, HoursInv, Last1m
    <2> QED BY <2>2, <2>3, <2>6 DEF MonitorInv
<1> QED BY <1>1, <1>2, <1>3, <1>4, <1>5, <1>6 DEF Next, ThreadStep

\* The invariant holds, for every length of the hour and of the snapshot, and any
\* number of minutes, trades and restarts.
THEOREM GateInvariant == Spec => []GateInv
<1>1. Init => GateInv
    BY GateInit
<1>2. GateInv /\ [Next]_vars => GateInv'
    BY GateStep
<1> QED BY <1>1, <1>2, PTL DEF Spec

\* The monitor and its socket are well typed, and the gate is evaluated on completed
\* hours only: socket and REST thread, GateMonitor._on_ohlc_closed and _rest_poll_once.
THEOREM MonitorTypes == Spec => []TypeOK
<1>1. GateInv => TypeOK
    <2> SUFFICES ASSUME GateInv PROVE TypeOK
        OBVIOUS
    <2> USE DEF GateInv, SocketInv, MonitorInv
    <2>1. \A h \in Hours : DOMAIN candles[h].seen \subseteq MinutesOf(h)
        BY DEF RowsInv
    <2>2. evaluated \subseteq 0..Hour(bar) - 1
        <3>1. Hour(bar) \in Nat
            BY HourOfBar DEF SocketTypeOK
        <3>2. \A h \in evaluated : h \in Nat /\ h < Hour(bar)
            BY MonitorFacts, HourOfBar DEF RowsInv, SocketTypeOK
        <3> QED BY <3>1, <3>2
    <2>3. DOMAIN buffer \subseteq Bars /\ lastEval \in Hours \cup {-1}
        BY MonitorFacts
    <2> QED BY <2>1, <2>2, <2>3 DEF TypeOK, ThreadsOK
<1> QED BY <1>1, GateInvariant, PTL

\* An hour the stream saw whole is written whole, with its true close, and evaluated,
\* once a later bar is in flight: reconnections, snapshots, REST and restarts do not
\* lose it (GateMonitor._on_ohlc_closed).
THEOREM WholeHoursAlwaysEvaluated == Spec => []WholeHourEvaluated
<1>1. GateInv => WholeHourEvaluated
    <2> SUFFICES ASSUME GateInv, NEW h \in Hours, h \notin broken, Last1m(h) \in Traded(h),
                        inflight.begin > Last1m(h)
                 PROVE  Done(h)
        BY DEF WholeHourEvaluated, Done
    <2>1. Last1m(h) < inflight.begin
        <3>1. Last1m(h) \in Bars
            BY DEF Traded, MinutesOf
        <3>2. Last1m(h) \in Int /\ inflight.begin \in Int
            BY <3>1, SocketFacts DEF GateInv, SocketInv
        <3> QED BY <3>2
    <2> QED BY <2>1 DEF GateInv, MonitorInv, HoursInv
<1> QED BY <1>1, GateInvariant, PTL

\* No bar reaches the monitor twice, or after a newer one, while the process lives
\* (KrakenWebSocketClient._handle_ohlc).
THEOREM BarsAlwaysInOrder == Spec => BarsInOrder
<1> DEFINE InStep == \A i \in DOMAIN closed' :
                        /\ closed'[i].begin \notin DOMAIN buffer
                        /\ \A b \in DOMAIN buffer : b < closed'[i].begin
                        /\ \A j \in 1..i - 1 : closed'[j].begin < closed'[i].begin
<1>1. ASSUME GateInv, [Next]_vars PROVE [InStep]_vars
    <2>1. CASE SocketStep
        <3>1. Ahead(closed') /\ closed' \in Seq(Payload)
            BY <1>1, <2>1, SocketStepKeeps DEF GateInv, SocketInv, SocketTypeOK
        <3>2. DOMAIN closed' = 1..Len(closed') /\ \A i \in 1..Len(closed') : closed'[i] \in Payload
            BY <3>1
        <3>3. \A i \in 1..Len(closed') : closed'[i].begin \in Int
            <4>1. \A i \in 1..Len(closed') : closed'[i].begin \in Bars
                BY <3>2 DEF Payload
            <4>2. \A b \in Bars : b \in Int
                BY <1>1, SocketFacts DEF GateInv, SocketInv
            <4> QED BY <4>1, <4>2
        <3>4. \A i \in 1..Len(closed') : closed'[i].begin \notin DOMAIN buffer
            BY <3>1, <3>3 DEF Ahead
        <3> QED BY <3>1, <3>2, <3>4 DEF Ahead
    <2>2. CASE Idle \/ Restart
        <3>1. closed' = << >>
            BY <2>2 DEF Idle, Restart
        <3> QED BY <3>1
    <2>3. CASE ThreadStep \/ ObserverPoll \/ \E t \in Pollers : RestPoll(t)
        <3>1. Idle
            BY <2>3 DEF ThreadStep, StartTimer, Engage, Recover, RestExit, RestPoll,
                        ObserverPoll, Watching
        <3> QED BY <2>2, <3>1
    <2> QED BY <1>1, <2>1, <2>2, <2>3 DEF Next, ThreadStep
<1>2. Spec => [][InStep]_vars
    <2> HIDE DEF InStep
    <2> QED BY <1>1, GateInvariant, PTL DEF Spec
<1> QED BY <1>2 DEF BarsInOrder
=============================================================================

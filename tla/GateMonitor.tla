---------------------------- MODULE GateMonitor -----------------------------
(***************************************************************************)
(* magi/gate_monitor.py on top of KrakenSocket: minute bars become hourly  *)
(* candles, an hour whose last minute closed is written and the gate       *)
(* evaluated; a monitor thread watches the state of the socket and runs a  *)
(* REST thread while it is down; alerts tell of an outage.  The observer's *)
(* poll writes the same candles, and the process may restart.              *)
(*                                                                         *)
(* A candle is the payload of every minute it holds (its range) and its    *)
(* closing payload; the volume, which each write replaces, is left out.    *)
(*                                                                         *)
(* FirstMinute, DownForGood, NotOnFallback and RunningHour are faulty      *)
(* variants of the definition after them, for the mutant runs.             *)
(***************************************************************************)
EXTENDS KrakenSocket

CONSTANTS
    HourLen,   \* minutes of an hour
    Restarts,  \* bound: restarts of the process
    Pollers    \* bound: REST threads at a time

ASSUME MonitorAssumption == HourLen \in Nat \ {0} /\ Restarts \in Nat

VARIABLES
    buffer,    \* _bars_1m_by_hour: the payload of every buffered minute
    candles,   \* candles of timeframe 1h
    evaluated, \* history: hours on whose close the gate was evaluated
    lastEval,  \* _last_evaluated_hour, or -1
    fallback,  \* _rest_fallback_active
    timing,    \* _ws_down_since is set
    rest,      \* of each REST thread: Off, or the hour it saw last (-1: none yet)
    alert,     \* an unresolved gate_ws_down row exists
    restarts,
    broken,    \* history: hours of which the stream missed something
    lost       \* history: hours a REST thread marked and then failed on

hourly  == <<buffer, candles, evaluated, lastEval>>
watch   == <<fallback, timing, rest, alert>>
history == <<restarts, broken, lost>>
vars == <<socketVars, hourly, watch, history>>

Hour(b) == b \div HourLen
Hours == 0..Hour(Minutes - 1)
MinutesOf(h) == {b \in Bars : Hour(b) = h}
Last1m(h) == h * HourLen + HourLen - 1
NoCandle == [seen |-> [b \in {} |-> 0], close |-> None]
Off == -2

Max2(a, b) == IF a > b THEN a ELSE b

\* insert_candle: high and low are merged, the close is the newest write's.
InsertCandle(old, seen, close) ==
    LET all == DOMAIN old.seen \cup DOMAIN seen
        At(f, b) == IF b \in DOMAIN f THEN f[b] ELSE 0
    IN  [seen |-> [b \in all |-> Max2(At(old.seen, b), At(seen, b))], close |-> close]

\* What the exchange knows of an hour, from the minutes that have traded.
Traded(h) == {b \in MinutesOf(h) : content[b] > 0}
FromRest(h) == [b \in Traded(h) |-> content[b]]
CloseOf(seen) ==
    LET last == CHOOSE b \in DOMAIN seen : \A c \in DOMAIN seen : c <= b
    IN  [begin |-> last, seen |-> seen[last]]

Init ==
    /\ SocketInit
    /\ buffer = [b \in {} |-> 0]
    /\ candles = [h \in Hours |-> NoCandle]
    /\ evaluated = {} /\ lastEval = -1
    /\ fallback = FALSE /\ timing = FALSE /\ alert = FALSE
    /\ rest = [t \in Pollers |-> Off]
    /\ restarts = 0 /\ broken = {} /\ lost = {}

-----------------------------------------------------------------------------
(***************************************************************************)
(* The callbacks, in the thread of the socket.                             *)
(***************************************************************************)
\* _on_ohlc_closed: the bar is buffered; the last minute of an hour not yet
\* evaluated writes the hour and evaluates the gate.
FirstMinute(p) == p.begin % HourLen = 0
LastMinute(p) == p.begin = Last1m(Hour(p.begin))
OnBarClosed(r, p) ==
    LET h    == Hour(p.begin)
        kept == [b \in DOMAIN r.buffer \cup {p.begin} |->
                    IF b = p.begin THEN p.seen ELSE r.buffer[b]]
        held == [b \in DOMAIN kept \cap MinutesOf(h) |-> kept[b]]
    IN  IF LastMinute(p) /\ h # r.lastEval
        THEN [buffer |-> kept, lastEval |-> h,
              candles |-> [r.candles EXCEPT ![h] = InsertCandle(@, held, p)],
              evaluated |-> r.evaluated \cup {h}]
        ELSE [r EXCEPT !.buffer = kept]

OnOhlcClosed ==
    LET r == FoldLeft(LAMBDA acc, p : OnBarClosed(acc, p),
                      [buffer |-> buffer, candles |-> candles, evaluated |-> evaluated,
                       lastEval |-> lastEval], closed')
    IN  /\ buffer' = r.buffer /\ candles' = r.candles
        /\ evaluated' = r.evaluated /\ lastEval' = r.lastEval

\* _on_state_change: reconnecting resolves the alerts; a flapping link may warn.
OnStateChange ==
    alert' \in IF state' = state THEN {alert}
               ELSE IF state' = "connected" THEN {FALSE}
               ELSE {alert, TRUE}

\* Hours the stream does not see whole: a trade of the bar in flight that nobody
\* received, and minutes that no snapshot brings any more.
Missed ==
    (IF content' # content /\ ~Receiving /\ bar = inflight.begin THEN {Hour(bar)} ELSE {})
    \cup (IF awaiting /\ ~awaiting' /\ link' = "open"
          THEN {Hour(b) : b \in (inflight.begin + 1)..(bar - SnapshotLen)} ELSE {})
SocketStep ==
    /\ SocketNext
    /\ OnOhlcClosed /\ OnStateChange
    /\ broken' = broken \cup Missed
    /\ UNCHANGED <<fallback, timing, rest, restarts, lost>>

-----------------------------------------------------------------------------
(***************************************************************************)
(* The monitor thread, _tick_rest_fallback, every two seconds.             *)
(***************************************************************************)
Idle == UNCHANGED <<market, conn, inflight, restarts, broken>> /\ closed' = <<>>
Watching == Idle /\ UNCHANGED lost

DownForGood == state = "disconnected"
Down == state # "connected"
StartTimer ==
    /\ Down /\ ~timing /\ timing' = TRUE
    /\ UNCHANGED <<hourly, fallback, rest, alert>> /\ Watching

\* The grace of a minute is over: a REST thread starts, beside that of an earlier
\* outage which has not looked at the flag since, and now stays.
Unused == {t \in Pollers : rest[t] = Off}
Engage ==
    /\ Down /\ timing /\ ~fallback /\ Unused # {}
    /\ fallback' = TRUE /\ alert' = TRUE
    /\ rest' = [rest EXCEPT ![CHOOSE t \in Unused : TRUE] = -1]
    /\ UNCHANGED <<hourly, timing>> /\ Watching

NotOnFallback == timing /\ ~fallback
Watched == timing \/ fallback
Recover ==
    /\ ~Down /\ Watched
    /\ fallback' = FALSE /\ timing' = FALSE
    /\ UNCHANGED <<hourly, rest, alert>> /\ Watching

(***************************************************************************)
(* A REST thread: the latest completed hour, if it has not seen it yet, is *)
(* marked as seen, written and evaluated; the memory of the socket's       *)
(* thread is not.  The write or the evaluation may raise: the exception is *)
(* logged and the mark stays.                                              *)
(***************************************************************************)
RunningHour == Hour(bar)
LatestHour == Hour(bar) - 1
RestWritten ==
    [candles EXCEPT ![LatestHour] =
        InsertCandle(@, FromRest(LatestHour), CloseOf(FromRest(LatestHour)))]
RestPoll(t) ==
    /\ fallback /\ rest[t] # Off
    /\ LatestHour >= 0 /\ LatestHour # rest[t] /\ Traded(LatestHour) # {}
    /\ rest' = [rest EXCEPT ![t] = LatestHour]
    /\ \/ /\ candles' = RestWritten
          /\ evaluated' = evaluated \cup {LatestHour} /\ UNCHANGED lost
       \/ /\ candles' \in {candles, RestWritten}
          /\ lost' = lost \cup {LatestHour} /\ UNCHANGED evaluated
    /\ UNCHANGED <<buffer, lastEval, fallback, timing, alert>> /\ Idle

RestExit(t) ==
    /\ rest[t] # Off /\ ~fallback
    /\ rest' = [rest EXCEPT ![t] = Off]
    /\ UNCHANGED <<hourly, fallback, timing, alert>> /\ Watching

\* observer.poll_cycle: the candles of the exchange, the current hour included.
PolledCandles ==
    [h \in Hours |-> IF Traded(h) = {} THEN candles[h]
                     ELSE InsertCandle(candles[h], FromRest(h), CloseOf(FromRest(h)))]
ObserverPoll ==
    /\ candles' = PolledCandles /\ candles' # candles
    /\ UNCHANGED <<buffer, evaluated, lastEval, watch>> /\ Watching

\* The process restarts: the rows stay, the memory of every thread is new.
Restart ==
    /\ restarts < Restarts /\ restarts' = restarts + 1
    /\ link' = "idle" /\ alive' = FALSE /\ state' = "starting" /\ attempt' = 0
    /\ subscribed' = FALSE /\ awaiting' = FALSE /\ inflight' = None /\ closed' = <<>>
    /\ buffer' = [b \in {} |-> 0] /\ lastEval' = -1
    /\ fallback' = FALSE /\ timing' = FALSE /\ rest' = [t \in Pollers |-> Off]
    /\ broken' = broken \cup {Hour(bar)}
                       \cup (IF inflight = None THEN {} ELSE {Hour(inflight.begin)})
    /\ UNCHANGED <<market, candles, evaluated, alert, lost>>

Next ==
    \/ SocketStep
    \/ StartTimer \/ Engage \/ Recover
    \/ \E t \in Pollers : RestPoll(t) \/ RestExit(t)
    \/ ObserverPoll
    \/ Restart

Spec == Init /\ [][Next]_vars

\* The monitor and the REST threads run whatever the socket does.
FairSpec ==
    /\ Spec
    /\ WF_vars(StartTimer) /\ WF_vars(Engage) /\ WF_vars(Recover)
    /\ \A t \in Pollers : WF_vars(RestPoll(t)) /\ WF_vars(RestExit(t))

-----------------------------------------------------------------------------
(***************************************************************************)
(* Properties.                                                             *)
(***************************************************************************)
\* The type invariant of the monitor and its socket; no hour is evaluated as
\* completed while it runs.
TypeOK ==
    /\ SocketTypeOK
    /\ DOMAIN buffer \subseteq Bars
    /\ \A h \in Hours : DOMAIN candles[h].seen \subseteq MinutesOf(h)
    /\ evaluated \subseteq 0..Hour(bar) - 1
    /\ lastEval \in Hours \cup {-1} /\ rest \in [Pollers -> Hours \cup {-1, Off}]
    /\ lost \subseteq Hours
    /\ fallback \in BOOLEAN /\ timing \in BOOLEAN /\ alert \in BOOLEAN

\* The bars handed to the monitor move forward, over reconnections, snapshots
\* and late updates: none comes twice and none after a newer one, as long as the
\* process lives (KrakenWebSocketClient._handle_ohlc).
BarsInOrder ==
    [][\A i \in DOMAIN closed' :
          /\ closed'[i].begin \notin DOMAIN buffer
          /\ \A b \in DOMAIN buffer : b < closed'[i].begin
          /\ \A j \in 1..i - 1 : closed'[j].begin < closed'[i].begin]_vars

\* An hour the stream saw whole, and whose last minute traded, has a candle with
\* every trade and its true close, and has been evaluated, once a later bar is
\* in flight (the aggregation of GateMonitor).
WholeHourEvaluated ==
    \A h \in Hours :
        /\ h \notin broken /\ Last1m(h) \in Traded(h)
        /\ inflight.begin > Last1m(h)
        => /\ h \in evaluated
           /\ candles[h].seen = FromRest(h)
           /\ candles[h].close = CloseOf(FromRest(h))

\* While the socket stays down, a completed hour is evaluated through REST, unless
\* the next hour completes before the poll or the poll fails between its mark and
\* the evaluation (GateMonitor._rest_fallback_loop).
HoursToComplete == Hours \ {Hour(Minutes - 1)}
Overdue(h) == Hour(bar) = h + 1 /\ Traded(h) # {} /\ state # "connected"
Relieved(h) == h \in evaluated \/ state = "connected" \/ Hour(bar) > h + 1
OutageEvaluated ==
    \A h \in HoursToComplete : Overdue(h) ~> (Relieved(h) \/ h \in lost)

\* Once the socket is connected, and stays so, every REST thread ends, however
\* many a flapping link has started.
FallbackStops ==
    <>[](state = "connected") => <>[](\A t \in Pollers : rest[t] = Off)


=============================================================================

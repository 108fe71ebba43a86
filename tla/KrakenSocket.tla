---------------------------- MODULE KrakenSocket ----------------------------
(***************************************************************************)
(* grid/exchanges/kraken_ws.py, the public stream of Kraken: the thread    *)
(* that dials, backs off and reconnects, the watcher that closes a silent  *)
(* link, the subscription gated by the exchange's status, and the closing  *)
(* of minute bars, told from the first message of the next bar.            *)
(*                                                                         *)
(* A bar is known by its minute, its payload by the number of trades it    *)
(* holds.  A trade is reported when it happens, to a subscribed live link  *)
(* only; a snapshot brings the last SnapshotLen minutes as they are then.  *)
(*                                                                         *)
(* TakenAnyway is a faulty variant of Taken, for the mutant runs.          *)
(***************************************************************************)
EXTENDS Integers, Sequences, FiniteSets, SequencesExt

CONSTANTS
    Minutes,      \* bound: the minutes considered
    MaxTrades,    \* bound: trades of a minute
    SnapshotLen,  \* minutes a snapshot brings
    MaxAttempt    \* length of RECONNECT_BACKOFF_SEC: attempts past it are alike

ASSUME SocketAssumption == {Minutes, MaxTrades, SnapshotLen, MaxAttempt} \subseteq Nat \ {0}

Bars == 0..Minutes - 1
Payload == [begin : Bars, seen : 1..MaxTrades]
None == [begin |-> -1, seen |-> 0]

VARIABLES
    bar,        \* the current minute
    content,    \* trades of every minute so far
    link,       \* the connection thread: idle, backoff, dialling, open
    alive,      \* an open link still carries messages
    state,      \* what the client tells its callers
    attempt,    \* _reconnect_attempt
    subscribed, \* _subscribed
    awaiting,   \* the snapshot of this subscription has not come yet
    inflight,   \* _inflight_ohlc of the minute interval, or None
    closed      \* bars this step hands to on_ohlc_closed, in order

market == <<bar, content>>
conn   == <<link, alive, state, attempt, subscribed, awaiting>>
socketVars == <<market, conn, inflight, closed>>

SocketInit ==
    /\ bar = 0 /\ content = [b \in Bars |-> 0]
    /\ link = "idle" /\ alive = FALSE /\ state = "starting" /\ attempt = 0
    /\ subscribed = FALSE /\ awaiting = FALSE
    /\ inflight = None /\ closed = <<>>

-----------------------------------------------------------------------------
(***************************************************************************)
(* _handle_ohlc: what one entry does to the bar in flight and to the bars  *)
(* surfaced.  A newer bar closes the one in flight, an equal one replaces  *)
(* it unless it comes in a snapshot, an older one is ignored.  An entry    *)
(* without a trade stands for a minute of which nothing was sent.          *)
(***************************************************************************)
TakenAnyway(r, e, snapshot) == TRUE
Taken(r, e, snapshot) ==
    \/ e.begin > r.inflight.begin
    \/ ~snapshot /\ e.begin = r.inflight.begin
Entered(r, e, snapshot) ==
    IF e.seen = 0 \/ ~Taken(r, e, snapshot) THEN r
    ELSE [inflight |-> e,
          closed |-> IF r.inflight # None /\ e.begin # r.inflight.begin
                     THEN Append(r.closed, r.inflight) ELSE r.closed]

HandleOhlc(entries, snapshot) ==
    LET r == FoldLeft(LAMBDA acc, e : Entered(acc, e, snapshot),
                      [inflight |-> inflight, closed |-> <<>>], entries)
    IN  inflight' = r.inflight /\ closed' = r.closed

Quiet == inflight' = inflight /\ closed' = <<>>

\* What a snapshot brings of the last minutes, oldest first.
Snapshot ==
    [i \in 1..SnapshotLen |->
        LET b == bar - SnapshotLen + i
        IN  [begin |-> b, seen |-> IF b \in Bars THEN content[b] ELSE 0]]

-----------------------------------------------------------------------------
(***************************************************************************)
(* The market.                                                             *)
(***************************************************************************)
NextMinute ==
    /\ bar + 1 \in Bars /\ bar' = bar + 1
    /\ UNCHANGED <<content, conn>> /\ Quiet

Receiving == link = "open" /\ alive /\ subscribed /\ ~awaiting

Trade ==
    /\ content[bar] < MaxTrades
    /\ content' = [content EXCEPT ![bar] = @ + 1]
    /\ UNCHANGED <<bar, conn>>
    /\ IF Receiving THEN HandleOhlc(<<[begin |-> bar, seen |-> content'[bar]]>>, FALSE)
                    ELSE Quiet

\* An update of an earlier bar arrives late.
Late ==
    /\ Receiving
    /\ \E b \in 0..inflight.begin - 1 :
          /\ content[b] > 0
          /\ HandleOhlc(<<[begin |-> b, seen |-> content[b]]>>, FALSE)
    /\ UNCHANGED <<market, conn>>

-----------------------------------------------------------------------------
(***************************************************************************)
(* The connection thread, _run_forever_loop and its handlers.              *)
(***************************************************************************)
Redial ==
    /\ link = "idle" /\ attempt > 0
    /\ link' = "backoff" /\ state' = "reconnecting"
    /\ UNCHANGED <<market, alive, attempt, subscribed, awaiting>> /\ Quiet

Dial ==
    /\ link = "backoff" \/ (link = "idle" /\ attempt = 0)
    /\ link' = "dialling" /\ subscribed' = FALSE
    /\ UNCHANGED <<market, alive, state, attempt, awaiting>> /\ Quiet

\* _on_open: connected, before anything is subscribed.
Open ==
    /\ link = "dialling"
    /\ link' = "open" /\ alive' = TRUE /\ state' = "connected"
    /\ UNCHANGED <<market, attempt, subscribed, awaiting>> /\ Quiet

\* run_forever returned: one more attempt; state stays until the next Redial.
Ended ==
    /\ link' = "idle" /\ alive' = FALSE /\ subscribed' = FALSE /\ awaiting' = FALSE
    /\ attempt' = IF attempt < MaxAttempt THEN attempt + 1 ELSE attempt
    /\ UNCHANGED <<market, state>> /\ Quiet

Refused == link = "dialling" /\ Ended
Drop    == link = "open" /\ Ended

\* The link goes dead without a close, until the heartbeat watcher closes it.
Silent ==
    /\ link = "open" /\ alive /\ alive' = FALSE
    /\ UNCHANGED <<market, link, state, attempt, subscribed, awaiting>> /\ Quiet
HeartbeatClose == state = "connected" /\ link = "open" /\ ~alive /\ Ended

\* _handle_status and _subscribe_all: any status but maintenance subscribes once.
Status(system) ==
    /\ link = "open" /\ alive
    /\ system # "maintenance" /\ ~subscribed
    /\ subscribed' = TRUE /\ awaiting' = TRUE /\ attempt' = 0
    /\ UNCHANGED <<market, link, alive, state>> /\ Quiet

ReceiveSnapshot ==
    /\ link = "open" /\ alive /\ awaiting
    /\ awaiting' = FALSE
    /\ HandleOhlc(Snapshot, TRUE)
    /\ UNCHANGED <<market, link, alive, state, attempt, subscribed>>

\* The statuses Kraken sends.
Systems == {"online", "cancel_only", "post_only", "maintenance"}
Connection ==
    \/ Redial \/ Dial \/ Open \/ Refused \/ Drop \/ Silent \/ HeartbeatClose
    \/ \E system \in Systems : Status(system)
    \/ ReceiveSnapshot

SocketNext == NextMinute \/ Trade \/ Late \/ Connection

SocketTypeOK ==
    /\ bar \in Bars /\ content \in [Bars -> 0..MaxTrades]
    /\ link \in {"idle", "backoff", "dialling", "open"} /\ alive \in BOOLEAN
    /\ state \in {"starting", "connected", "reconnecting"}
    /\ attempt \in 0..MaxAttempt /\ subscribed \in BOOLEAN /\ awaiting \in BOOLEAN
    /\ inflight \in Payload \cup {None} /\ closed \in Seq(Payload)
=============================================================================

# A verification project for xrp_grid

xrp_grid trades XRP/USD on a grid: it rests buy orders under and sell orders
over a centre, and answers every fill with an order on the other side.  A
council of three language models supervises it; a deterministic layer of hard
rules stands between the council and the engine, a gate decides when the council
is called, and a collector keeps a tape of the market.  The modules here specify
the deterministic parts, TLC checks them on small instances, and TLAPS proves
the theorems of the `*Proofs` modules for every value of the constants.

`PROJECT.json` maps every definition to the lines it models, lists the hazards
of the code with the properties that watch them, the runs, and for every
property a plausible bug ("mutant") that the property catches.

## 1. The system

| part | state | operations | reached by |
|---|---|---|---|
| `grid/engine.py` | book `paper_orders`, `paper_inventory`, `level_count`; rows of `grid_orders`, `inventory`, `grid_state`, `system_state` | load_state, place_order, simulate_fills, cancel_all_orders, initialise_grid (anchor, arms), apply_magi_decision, evaluate_and_maybe_switch_levels, reconcile_live_fills | scheduler, IPC thread |
| `scheduler.py` | time of the last cycle, date of the last daily call | observer cycle (10 min), council cycle, wake gate (suppression, dwell, throttle), boot, IPC server | main loop, Flask thread |
| `magi/orchestrator.py` | `debate_records`, `magi_gate_events`, `council_stance`, `magi_alerts` | build_world_state, enforce_hard_rules, run_cycle, degradation alerts | run_magi_cycle |
| `magi/council_v2.py`, `magi/agents/*` | none | six sequential seat calls, veto, safe hold | run_cycle |
| `guardrails.py` | kill file, day's loss | check_all_guardrails | scheduler and orchestrator |
| `magi/gate.py` | `magi_gate_events` | edge-detected triggers T1 to T16, W1, W2 | gate monitor, observer, scheduler (live) |
| `magi/gate_monitor.py` | bars by hour, fallback flag, threads | bars to candles, REST fallback | WebSocket callbacks, own threads |
| `grid/exchanges/kraken.py` | rate counter, placed-at times | orders, cancellations, balances | engine (live) |
| `grid/exchanges/kraken_ws.py` | connection state, backoff, open bars | connect, heartbeat, close bars | own threads |
| `grid/shadow_simulator.py` | shadow grids, `shadow_grid_state` | ticks, evaluation, save, load | engine |
| `grid/pnl.py` | none, reads `grid_orders` | FIFO matching, windows, snapshot | dashboard, orchestrator, outcome backfill |
| `magi/spacing_evaluator.py` | none | scores of grid variants over closes | gate, orchestrator |
| `observer.py` | receipts in `debate_records` and `system_state` | outcomes, grades, mirror to Langfuse, dead-man's switch | scheduler, hourly |
| `tape/*` | write queue, gaps, two databases | collect, write, backfill, roll up, append to the warehouse | a service of its own and a timer |
| `database.py` | one SQLite file | queries, deduplication of alerts, grades | all |
| dashboards | none | views, a trigger button, a resolve button | Flask |

Interactions: the scheduler's one loop calls the observer cycle and the council
cycle on one engine object; the Flask thread of `/internal/trigger_magi` calls
the council cycle on the same object without a lock.  The gate monitor's thread
and the scheduler's main thread write gate events, which the loop's wake gate
and the council cycle read and consume.  All share one SQLite file; every helper
of `database.py` commits on its own, so a handler is a sequence of separately
persisted writes.  The tape is a process of its own with its own file; the gate
reads the verdict of its warehouse.

What is hard here: a process that may die between any two of those writes and
resumes from the database; a ladder of fourteen rules in which a later rule may
overwrite an earlier one; orders that compete for one inventory; a market that
moves between two reads of one handler; council seats that fail half way; event
rows stamped, committed, read and consumed by different threads; an exchange
that may have done what it did not answer; streams that drop, go silent and come
back with a snapshot; receipts lost between a delivery and its record; edges
that fire once and are then somebody's memory.

What makes each part correct:

* engine: memory and database agree; spot holdings are never oversold; open
  orders belong to one grid; sells are covered; the exposure cap counts the
  rebuilds that landed and under it nothing is bought;
* hard rules: survival outranks judgement; the mandate of the council is kept; a
  rebuild has a geometry; no pause strips a thin side;
* cycle: an outage decides nothing; no event is lost; a collapse is not for ever;
* live engine: no resting order unknown to the book is held for certain; one
  grid; a fill is noticed; the inventory comes back to the truth;
* scheduler and wake gate: one daily call however often the process restarts, no
  wake inside the throttle, an evidence shift that reaches the council;
* gate: two evaluators tell one story, and a dead monitor is made up for;
* socket and monitor: bars come once and in order, an hour seen whole is
  evaluated whole, an outage is bridged and the bridge is taken down;
* scores: what is owed is delivered, at least once; P&L: a profit once reported
  stands; shadows: no money is made up; alerts: a collapse is on the board;
* tape: every row handed over is accounted for, a hole is never passed off as
  silence, and what is on the tape reaches the warehouse.

## 2. The modules

| module | what it models |
|---|---|
| `HardRules` | `enforce_hard_rules`: one operator per rule, composed in the order of the source. No state. |
| `CouncilCycle` | the council cycle: stamp, world state, deliberation and rules, level switch, apply; records, stance and gate events; fills, stops and gate threads in between. |
| `GridMath` | the arithmetic of `build_grid_levels`, of the anchor's side and of `_down_walk_assess`. No state. |
| `GridEngine` | the paper engine under the scheduler, one action per persisted write. |
| `ExposureCap` | the abstract promise of the exposure cap, which `GridEngine` implements. |
| `WakeGate` | who spends a council cycle and when: gate wakes, floor, backstop, throttle, restarts. |
| `GateTriggers` | the triggers of the gate and the two evaluators that share their edge rows. |
| `SpacingScorer` | the scores of the grid variants the gate watches. No state. |
| `KrakenSocket` | the public stream: dialling, backoff, silent links, snapshots, closing bars. |
| `GateMonitor` | minute bars to candles, the REST fallback, restarts; on top of `KrakenSocket`. |
| `LiveBook` | the live engine's book against Kraken's, one step per exchange call. |
| `FifoMatch` | the filled rows and the round trips matched from them. |
| `OutcomeScores` | outcomes, grades and their mirror with receipts. |
| `ShadowGrid` | the shadow grids and the level switch they cause. |
| `AlertLedger` | the alerts of a degraded council, their deduplication, the operator. |
| `MarketTape` | the tape from the stream to the warehouse. |
| `MCCouncilCycle`, `MCGridEngine`, `MCWakeGate`, `MCGateMonitor`, `MCLiveBook`, `MCMarketTape`, `MCObserver` | instances for TLC. |
| `CouncilCycleProofs`, `GridEngineProofs`, `WakeGateProofs`, `GateMonitorProofs`, `LiveBookProofs`, `MarketTapeProofs`, `ObserverProofs` | the theorems; each extends the modules it is about (`CouncilCycleProofs` also `HardRules`, `GridEngineProofs` also `GridMath`, `ObserverProofs` the modules of the `Observer` run). |
| `RecursionProofs` | lemmas: what the recursive functions and the folds of the models are worth. |

`CouncilCycle` extends `HardRules` and sees the engine as order counts: a rebuild
may be refused, fail, or land on any book.  `GridEngine` extends `GridMath` and
`HardRules` and sees the council as any decision of `Choices`.  `GridEngine`
instantiates `ExposureCap` with its own `walk`.  `GateMonitor` extends
`KrakenSocket`: a step of the socket and the callback it makes are one step.
`GateTriggers` extends `SpacingScorer`.  `MCObserver` extends the five modules
of what happens beside the fills (`GateTriggers`, `FifoMatch`, `OutcomeScores`,
`ShadowGrid`, `AlertLedger`).  They share no row, so it does not multiply their
states: a behaviour picks the part it is about, and the run is their sum.

### HardRules and CouncilCycle

A decision is a record `[grid, risk, stance, tags, source]` for
`grid_action`, `risk_action`, `stance`, `hard_rule_overrides`,
`geometry_source`.  `Facts` holds what the rules read besides the decision.
Ratios are percentages and ages whole hours, capped just above the largest
threshold.  The overrides list is a set, and `[AGENT_DEGRADED:x]` is one tag: no
rule tells the agents apart.  `lossTripped` and `killed` are facts; the closing
round trip of rule 0c is the fact `closing`.

| `CouncilCycle` | code |
|---|---|
| `phase`, `world`, `ballot`, `facts`, `cons` | locals of `run_cycle`; the last three are kept until Apply so that properties can speak of them |
| `records` | R0 columns of the last two `debate_records` rows, as the set of seats on their safe defaults |
| `standing` | `system_state` `council_stance` |
| `gate`, `stamped`, `seen` | `magi_gate_events` rows; those stamped before the world state; those some council was shown (ghost) |
| `stop`, `book` | what the guardrails would report; open orders per side |
| `Stamp`, `BuildWorldState` | `build_world_state`, split at its time stamp because the events are read after it |
| `Decide` | `run_council`, `enforce_hard_rules`, the debate row, `_mark_gate_events_consumed`, the stance |
| `EvaluateLevels`, `Apply` | `evaluate_and_maybe_switch_levels`, `apply_magi_decision` |
| `Blocked`, `StopChanges` | the guardrails of `run_magi_cycle` |
| `WriteEvent`, `CommitEvent` | the gate threads: a row gets its stamp in `_write_event`, its transaction commits later |

### GridMath, GridEngine and ExposureCap

Prices and cash are integer ticks, a holding is a number of rungs (every order
has the size `ORDER_SIZE_XRP`), a spacing is an absolute distance of two levels.
Rounding of prices is left out; rounding of level counts (`round`, half to even)
is kept, and the ladders stop where the code's do.

| `GridEngine` | code |
|---|---|
| `book`, `inv`, `levels` | `paper_orders` with status open, `paper_inventory`, `level_count` |
| `rows`, `snap`, `grid`, `walk` | open `grid_orders`, latest `inventory`, latest `grid_state`, the `down_walk_*` keys |
| `pc`, `job`, `todo`, `filled` | where a handler stands, its locals, the rest of its loop, the fills found |
| `build`, `rebased` | ghosts: the rebuild that new orders belong to; a book that outlived an inventory thrown away at a restart |
| `ObserverTick`, `FillOne`, `PersistFills`, `ReplaceOne`, `ReplacedAll` | `run_observer_cycle` and `simulate_fills` |
| `CancelRow`, `CancelDone` | `_finalize_local_cancel_state`, row by row |
| `BeginRebuild`, `Anchor`, `MarkAnchor`, `PersistAnchor`, `AnchorFails`, `ArmOne`, `RecordGrid`, `DownWalkCount`, `DownWalkPlace`, `DownWalkDate`, `DownWalkFails` | `initialise_grid`, `_execute_anchor` and the three commits of `_down_walk_commit` |
| `Decide`, `KeepLevels`, `SwitchLevels`, `GuardrailsFail`, `SyncInventory` | `run_magi_cycle` and the level switch |
| `ApplyHalt`, `ApplyPause`, `RecordPause`, `ApplyWithoutGrid`, `ApplyMaintain`, `ApplyGuarded`, `ApplyRecentre`, `CancelPaused`, `RecordRisk`, `IntegrityGuard` | the branches of `apply_magi_decision` |
| `LoadState`, `BootObserved`, `KeepBook`, `FirstBoot`, `Crash` | `load_state` and `main` |

Every read of the market is a new choice of a price, so it may move between any
two reads of one handler.  The orders of one fill or cancellation loop are taken
in any order, which includes the dictionary's.  `ExposureCap` has one action per
thing that may happen to the count: a rebuild lands (`Land`), the link window
ends (`Unlink`), and, because the streak, its centre and its date are three rows,
the last two are kept one after the other (`Keep`) and lost until they are
(`Lose`).  That a rebuild landed, the streak itself, is never lost.

### WakeGate, GateTriggers and SpacingScorer

`WakeGate` counts time in hours: the loop passes at least once in an hour in
which the process is up, the gate evaluates at most once.  Evidence is what W2
compares (verdict of the warehouse, cap); a W1 row carries the side and the
centre of the breach, which the episode guard looks up among answered rows.

| `WakeGate` | code |
|---|---|
| `rows` | unconsumed fired W rows of `magi_gate_events` |
| `breaches`, `answered` | unconsumed fired T2 rows, which only a cycle consumes; the W1 and T2 rows a cycle consumed, the breaches the episode guard counts as answered |
| `record`, `floorAt` | newest `debate_records` row; hour of the newest scheduled one |
| `lastCycle`, `lastDate` | `_last_magi_cycle_at`, `last_scheduled_date`: memory of the loop |
| `floors`, `excused`, `shiftAt` | histories: calls of a day, days that could not have one, since when a shift waits |
| `EvaluateGate` | `evaluate_gate`, the T2, W1 and W2 part |
| `DailyFloor`, `Backstop`, `NoQuestion`, `WakeSuppressed`, `WakeDropped`, `WakeDeferred`, `GateWake` | the branches of one pass of the main loop, in its order |
| `Manual` | `/internal/trigger_magi` |
| `Stop`, `StartAwake`, `StartQuiet` | `main`: memory lost, seeds read back from the rows, the startup cycle |
| `Tick`, `Settle` | the hour and the market; a price that has dwelt |

`GateTriggers` takes SQLite's write lock as the unit of atomicity: the first
INSERT of an evaluation takes it until the commit, so what is read after it
belongs to one step, and what is read before it is kept in `seen` and may be
stale.

| `GateTriggers` | code |
|---|---|
| `world` | all the gate reads: bars, grid, indicators, fills, book, skew, streak, verdict |
| `evals`, `fired` | newest `*_eval` rows; triggers fired in the last transaction |
| `at`, `seen` | where each of the two evaluators is; what it read before its lock |
| `quiet`, `alive` | hours since the last row; the monitor's thread |
| `heard` | history: the cap, as somebody knows it who reads the fired W2 rows |
| `MonitorEvaluates`, `GateCommit`, `BookAfterGate`, `BookCommit`, `Rollback` | `evaluate_gate`, `evaluate_book_state_triggers` |
| `Hourly`, `PollEvaluates`, `PollRelies` | the dead-man's switch of `observer.poll_cycle`; a table without a row is silent at once |
| `LiveBookCheck`, `ObserverEnds` | `run_observer_cycle` after the poll |

`SpacingScorer` translates the swing walk of `spacing_evaluator` with integers
(basis points, products instead of quotients), and `_compute_scorer_state`.

### KrakenSocket and GateMonitor

A bar is its minute and the number of trades it holds; a candle is the payloads
of its minutes and its close.

| `KrakenSocket`, `GateMonitor` | code |
|---|---|
| `link`, `alive`, `state`, `attempt`, `subscribed`, `awaiting` | the connection thread, what callers are told, `_reconnect_attempt`, `_subscribed`, the snapshot to come |
| `inflight`, `closed` | `_inflight_ohlc`; the bars a step hands to `on_ohlc_closed` |
| `Redial`, `Dial`, `Open`, `Refused`, `Drop`, `Silent`, `HeartbeatClose` | `_run_forever_loop`, its handlers, the heartbeat watcher |
| `Status`, `ReceiveSnapshot`, `Trade`, `Late` | `_handle_status`, `_subscribe_all`, `_handle_ohlc` |
| `buffer`, `lastEval` | `_bars_1m_by_hour`, `_last_evaluated_hour` |
| `fallback`, `timing`, `rest` | `_rest_fallback_active`, `_ws_down_since`, the REST threads (each with its `last_seen_iv_begin`) |
| `OnOhlcClosed`, `OnStateChange` | the callbacks, part of the socket's step |
| `StartTimer`, `Engage`, `Recover` | `_tick_rest_fallback`; an engagement starts a thread beside one that still sleeps |
| `RestPoll`, `RestExit`, `ObserverPoll`, `Restart` | a REST thread, the observer's candle writes, the process; a poll that has marked its hour may fail before or after it wrote the candle |
| `broken` | history: hours the stream did not see whole |
| `lost` | history: hours a poll marked and then failed on |

### LiveBook

One step per exchange call; each may fail, or fail after it took effect.  Prices
and sizes are left out, the inventory is known to be true, stale or zero.

| `LiveBook` | code |
|---|---|
| `ex`, `aged` | Kraken's orders; those closed longer ago than ClosedOrders is asked for |
| `row`, `book`, `funds` | `grid_orders.status`, open `paper_orders`, `paper_inventory` |
| `CancelAll`, `SendCancel`, `MarkCancelled`, `ClearBook` | `cancel_all_orders`, `cancel_all_open_orders`, `_finalize_local_cancel_state`; what follows depends on who asked (`Onward`): the anchor of a rebuild, the inventory sync after a HALT, nothing after a guardrail stop |
| `Pause`, `MarkPaused`, `SendPause` | `apply_magi_decision`: a side's rows marked order by order, then its cancellations sent |
| `AnchorSent`, `AnchorRefused`, `AnchorUnheard`, `AnchorAnswered`, `AnchorTimeout`, `AssignAnchored` | `_execute_anchor` live |
| `PlaceArm`, `PlaceUnheard`, `LadderDone` | the arms of `initialise_grid` |
| `Maintain`, `SyncFetch`, `SyncAssign`, `CountFunds` | `update_inventory` with `get_balances` |
| `ReadBook`, `AskClosed`, `AskFailed`, `SettleOrder`, `Settled` | `reconcile_live_fills_from_kraken` |
| `Fill`, `Expire`, `Age`, `Restart` | the exchange, the clock, the process |
| `doubts` | history: orders whose last call did not confirm the record |

### FifoMatch, OutcomeScores, ShadowGrid and AlertLedger

| module | state and code |
|---|---|
| `FifoMatch` | `fills` by `filled_at`, `since` for `paper_run_started_utc`; `_fifo_match`, `_compute_window_metrics`, `get_pnl_snapshot` |
| `OutcomeScores` | `age` classes of the cycles, `backfilled`, `graded`, `receipts`; one pass of `poll_cycle` from the outcome backfill to the stance scores, row by row, with the POSTs answered, dropped, or cut by a crash before the receipt; `landed` is what Langfuse has |
| `ShadowGrid` | `shadows` and `saved` rows, `levelCount`, `builtFor`; ticks, flips, mirrored orders, recentring, rolling P&L, the save every few ticks, the load under another key, the switch of the live level count |
| `AlertLedger` | unresolved `magi_alerts`, the persisted tier; `_maybe_fire_degradation_alert`, `insert_alert` with its deduplication, the resolve button |

### MarketTape

| `MarketTape` | code |
|---|---|
| `connected`, `inflight` | `tape/ws_client.py` |
| `queue`, `buf`, `accepted`, `dropped`, `written` | `TapeWriter` |
| `db`, `txn`, `todo` | `ohlc_1m` with its provenance, bars the backfill has inserted and not committed, gaps to ask about |
| `rolled`, `hist` | `rollup_bars`, `ohlc_1m` of the warehouse |
| `Trade`, `Drop`, `Reconnect` | the stream; a snapshot closes the bars it brings |
| `TakeRow`, `Flush` | the writer thread; a flush waits for the write lock |
| `DetectGaps`, `AskRest`, `CommitBackfill` | `_self_assess`, `backfill` |
| `Rollup`, `AppendHistory` | `rollup.run_once`, `warehouse.cmd_append` |
| `Stop`, `Kill` | SIGTERM with a drain; the process dies |

## 3. The runs

| run | question | bounds |
|---|---|---|
| `CouncilRules` | what may leave the rules and reach the book | books of 0 or 3 buys and 0 or 2 sells; three allocations, three ages of the market, cap, scorer; every verdict, stance and risk vote, vetoes, two failures; no gate events |
| `CouncilLedger` | what a cycle records, under failed seats and failed inserts | books of 0 or 1 a side, one world, one event, ten ballots; liveness |
| `Engine` | the paper engine with crashes | prices 5 and 8, geometries of 2 and 3 levels, 14 ticks of cash, cap at a streak of 1, streaks up to 2, two copies per price, two names for rebuilds |
| `Wake` | when a council cycle is spent | days of 2 hours with the call in hour 1, silence of 3 hours, a throttle of 1, breaches answered for 4, hours 0 to 4; two prices, a band of one of them; three verdicts |
| `Monitor` | what becomes of the stream | 3 minutes in hours of 2, 2 trades a minute, snapshots of 2 minutes, 1 backoff step, 2 REST threads, 1 restart; liveness |
| `Live` | the live book against Kraken's | three txids, one of them left by an earlier process, ladders of 1 arm a side, one cycle at a time, 1 restart; liveness |
| `Tape` | what becomes of a bar | 5 minutes, snapshots of 2, a queue of 1, gaps of up to 2 in a window of 4, buckets of 2, 1 restart; liveness |
| `Observer` | what happens beside the fills | gate: four worlds, one evaluation of the monitor, two moves, one fault; P&L: four fills of one or two lots at two prices; scores: three cycles, two of them traced, one with a gap in its candles, one row per sweep, two days, one fault; shadows: 2 and 4 levels, three prices, three ticks a process, three events; alerts: two seats, a window of 1 tick, three ticks, one fault; liveness |
| `VetoHoldsGrid`, `EventsSurface`, `PausedNoBuys`, `WakesSurvive` | four statements of the documentation that the code does not keep | as the runs above |

Why the bounds are enough.  Rules compare counts with 0, 1, 2 and 3 and a book
of three buys and two sells satisfies every such test, while 0 and 3 against 0
is the one-sided and the heavy case.  Two rows of degradation need two failed
cycles and recovery two healthy ones, which the unbounded runs contain.  In the
engine, two prices give a rise, a fall and an equal rebuild, and 14 ticks buy
one anchor and leave a resting buy, or a sell once it fills, so that every
branch of the anchor and both ladders are reached; a cap streak of 1 makes one
step down engage it, and a streak of 2 is beyond it; a streak whose centre was
lost in a crash may count one fall twice, which is why it needs a bound.  In
`Wake`, five hours hold two midnights, a day that passes without a call, a
silence that runs out between two floors and a restart in every hour.  In
`Monitor` three minutes are a whole hour and the beginning of the next, so that
an hour is closed by the stream, by REST, or not at all, and two backoffs are
told from one; a second REST thread may start while the first still sleeps, and
the outage may begin before the hour ends or after it.  In `Live` three orders are
one that rests when the process starts, one to cancel or fill while another is
placed, and an anchor.  In `Tape` five minutes hold a gap of two between settled
bars, and a queue of one is full after one bar.  The gate's four worlds engage
and release the cap, empty a side of the book and take the warehouse away; two
moves let the cap engage and release between two evaluations.

Bounds by guard: `WithinBounds` of `GridEngine` lets no trading handler start
with more than `MaxXrp` rungs, `MaxUsd` ticks or a streak of `MaxStreak` (a
handler in flight may exceed them), and `Copies` limits the orders resting at
one price.  `Pollers` names the REST threads there may be at once: a fallback
that finds them all in use engages when one has ended.  `Builds` may be two
names because `OneGrid` only asks whether two rebuilds differ.  Elsewhere the
clock (`Horizon`, `Minutes`, `LastTick`, `MaxHour`, `LastDay`), the moves, the
events, the fills, the restarts and the faults are counted and end; a txid is
given out once.  A model whose clock has ended and whose threads have nothing
left to do stops where the program would go on, and that is the only reason for
`CHECK_DEADLOCK FALSE` in `Wake`, `Monitor`, `Live`, `Tape`, `Observer` and
`WakesSurvive`.  In the council's and the engine's runs deadlock is checked.

Every passing property has a mutant in `PROJECT.json`.

What the four runs show that the documentation does not say:

* `VetoHoldsGrid`: a rebuild the arbiter vetoed is forced back by rule 6 on a
  one-sided book, with the geometry that was vetoed.
* `EventsSurface`: an event whose transaction is open while the world state is
  built is consumed without having been seen.
* `PausedNoBuys`: the replacement loop buys while longs are paused.
* `WakesSurvive`: live, every observer cycle writes gate rows of its own, so the
  dead-man's switch, which looks at the newest row of any kind and evaluates an
  empty table at once, does not act again once there is a row.  In paper it does
  (`CapShiftTold`).

### Seen while modelling

Behaviour the models have and no property forbids, for a reader who changes the
code:

* engine, live: `cancel_all_open_orders` answers every failure with 0
  (`kraken.py:304-337`), so the docstring of `cancel_all_orders` ("if it raises,
  local sync never runs", `engine.py:577-580`) describes a case that cannot
  happen; the rows are marked cancelled and the orders are in `doubts`.  A
  failed Balance call reads as an empty account until the next one.  Fills of
  more than an hour of downtime are never reconciled, a fill between two
  reconciliations may be recorded as cancelled.  With a second cycler TLC finds
  `OneGrid` violated: the IPC thread takes no lock (`scheduler.py:1196-1234`).
* gate: T2 reads the hour that still runs; T4 and T14 read their priors before
  the lock and may fire twice; an unreadable cap counts as released, so an
  engaged cap is told as released and engaged again; a verdict that changes
  while the feed is stale is not told; a count read long ago may overwrite a
  newer T14_eval row.  No row can reach the dwell of T11, T14 and T16 any more.
* wake gate: a wake may consume a row of the other side; the episode guard
  counts rows as answered that a cycle consumed without a breach in sight, and
  the T2 row of a wake that was suppressed or dropped counts as answered by the
  next cycle, whatever called it.
* monitor: an hour whose last minute had no trade is not materialised by the
  stream, only by REST or the observer; an hour evaluated by REST may be
  evaluated again by the stream; a link that is connected but, in maintenance,
  not subscribed engages no fallback; a `gate_ws_down` warning within the hour
  makes the critical alert of a real outage a repetition that is dropped
  (`gate_monitor.py:206-224`).  A REST thread whose flag is cleared and set again
  within one poll lives on beside the next one, and both poll.  A poll marks its
  hour as seen (`gate_monitor.py:473`) before it writes and evaluates it; when
  either raises, that thread does not try the hour again, although the docstring
  of the loop promises an upsert "if we don't have it" (`450-452`).
  `OutageEvaluated` therefore excepts the hours a poll failed on.
* cycle: `council_v2.py:463-466` says of a council that failed to convene "keep
  what is resting, change nothing".  Its decision does (`OutageDecidesNothing`),
  but `run_magi_cycle` evaluates the level switch before it applies any decision
  other than HALT (`scheduler.py:316-318`), so the cycle of an outage may rebuild
  the book with another number of levels.
* boot: the first-boot check counts the filled orders the process still keeps
  (`scheduler.py:904`), so a fill of the observer cycle at the start, which no
  replacement answers, makes it take the book for a restored one.
* scores: a seat whose grader raises, or a row that can never be resolved, at
  the head of the five rows of the seat sweep blocks the rows behind it; the
  effect score of a day whose outage lasts until midnight is never sent; a
  RECONFIGURE without its 6 h outcome is given up when the arbiter did not wait.
* shadows: a shadow is saved under the spacing it tracks and loaded by the
  placeholder, so a restart resumes a row of another time unless the two agree.
* tape: the window of the rollup is not aligned to its buckets, so the oldest
  bucket of each run is recomputed from a part of its minutes
  (`rollup.py:28-36`, `86-94`); a bar cut by a drop and completed in the
  snapshot is not corrected when it is the one in flight.

### Fairness

The safety properties need none, and `Wake`, `Engine` and `CouncilRules` state
none.

* `CouncilCycle`: weak fairness of the cycle.  The scheduler's daily floor and
  its 25 h backstop start one whenever none runs, seat calls end or raise, and
  the handlers do not block.  Nothing is assumed of fills, gate threads or
  stops.  `CouncilRecovers` states its own premise: the stops end for good, and
  from some point every seat answers and every debate row can be inserted.
* `GateMonitor`: weak fairness of the monitor thread's ticks and of the polls and
  the end of each REST thread, which are loops with a sleep; nothing of the
  exchange, and not that a poll succeeds: `OutageEvaluated` excepts the hours on
  which one failed.
* `LiveBook`: weak fairness of the observer and of a cycle, which the scheduler
  runs every ten minutes and every day; strong fairness of an answered
  ClosedOrders and of an answered Balance: a call repeated for ever does not
  fail for ever.  `InventoryRecovers` states its own premise, that again and again
  some cycle gets as far as `update_inventory`: one that a guardrail stops, or a
  restart cuts off, returns before it, and without the premise TLC finds a
  guardrail that stops every cycle.
* `MarketTape`: weak fairness of the threads and of the warehouse's timer;
  strong fairness of a flush, which the write lock of a backfill may put off,
  and of a complete REST answer.
* `MCObserver`: weak fairness of the observer's hourly poll and of the gate
  evaluations it starts, of a pass over the scores and of the ageing of a cycle.
  The monitor's thread is assumed nothing of: it may die.

## 4. The proofs

`tlapm` checks every leaf; nothing is assumed but the named ASSUMEs of the
constants, which TLC evaluates on every run.  They say that the constants are
sets of the right records, that prices and level counts are positive, that a fee
is no more than a price, that the books are closed under the loss of a side,
that bounds are numbers and seats finite; of the shadows, that the lowest arm of
every ladder has a price (the code's ladders have at most 16 levels and its
spacings are at most 2.5 %) and that a save keeps no more fills than memory does;
of the live book, that the observer is not one of the council's threads.  The
theorems that need one cycle at a time say so in their statement (`Alone`).

Every safety property of the passing runs, invariant or action property, is
stated by a theorem.  The arguments:

* `CouncilCycleProofs`, the rules: they preserve the type of a decision; a stop
  (kill file, day's loss, collapse of the council, skew over the ceiling), once
  set, survives each later rule; a blocked rebuild can only be restored by
  rule 6, whose guard excludes the mandate; under STAND_ASIDE the buys are paused
  or everything is halted, unless a degraded seat froze the grid.  Each is a chain
  of one lemma per group of rules along `EnforceHardRules`.
* `CouncilCycleProofs`, the cycle: the inductive invariant `IInv` adds to `TypeOK`
  that in phases decided and evaluated the decision is `EnforceHardRules` of the
  recorded ballot and facts.  Without it nothing ties `cons` to the rules once
  `Decide` has passed.  The rule invariants and the action properties follow,
  among them `RebuildHasGeometry`, which no run checks.
* `GridEngineProofs`: the ladders are sets of arms, and with one rung of XRP the
  sell ladder is not empty.  The inductive invariant `IInv` adds to the properties
  what holds in the middle of a handler: the locals of a rebuild are in force from
  its first cancellation on, a capped rebuild holds two rungs before its anchor and
  one after, memory is the rows except during a cancellation and while the anchor
  is open, and the anchor in flight is the only row.  One lemma per action, the
  shared shapes of actions (leaving to a rebuild, continuing after one) as lemmas
  of their own.  `BookMatchesRows`, `HoldingsBounded`, `OneGrid`,
  `SnapshotCurrent`, `CappedRebuildSells` and the refinement of `ExposureCap`
  follow for every set of prices and geometries.  The refinement counts a rebuild
  when the first of its three writes commits.  From there to the last of them the
  centre and the link of the abstract count are those the rebuild is about to
  write, and `kept` those of the rows; a crash or a failed write in between is
  `Lose`, never a rebuild uncounted after the first write.
* `GridEngineProofs`, covered sells: `CoverInv` counts.  The sells at rest, with
  those a fill loop has yet to place, are no more than the XRP held
  (`MemoryCover`); the rows a restart would read are no more than the inventory it
  would read (`DurableCover`, with `SnapshotFresh` for when the two agree).
  `SellsCovered` alone is not inductive: a fill takes XRP from the inventory and a
  sell from the book in two writes, and a crash between them meets the old
  snapshot.
* `WakeGateProofs`: `CadenceInv` says that what the loop remembers of its cycles
  is what the rows say, across restarts that read it back; `FloorInv` says the
  same of the date of the daily call, and that a day without one was excused.
* `GateMonitorProofs`, for any set of REST threads whose polls may fail:
  `GateInv` follows an hour from the bar in flight to the
  evaluation.  `Heard` says what the stream has handed over, `RowsInv` that every
  written candle is of bars of its hour, `HoursInv` that of an hour not broken
  the buffer or the rows hold every minute up to the last one heard, and that an
  hour which is over is evaluated.  A closed batch of bars, and the hours a batch
  closes, are folds; they are followed one element at a time (`HandledWalk`,
  `ClosedWalk`), and every intermediate memory satisfies the invariant.
* `LiveBookProofs`: `BookInv` says of the resting orders in no doubt that they
  are in the book and open in the table, that a cancellation that has listed the
  exchange's orders knows all that rest and that none of them is sure once it
  marks rows, and that the book is empty from there to the first arm.
  `NoSilentOrphan` alone is not inductive: `ClearBook` throws the book away and
  only the list of the exchange, read some steps before, says that nothing sure
  was in it.  `Planned` says that every thread has a plan `Onward` knows how to
  continue.  Both safety theorems assume `Alone`; the reconciliation, the
  exchange and restarts interleave as they like.  `LiveTypes`, which no run
  checks, holds for any number of cycles at once: the types, and that a thread
  does not use what it has not asked for.
* `MarketTapeProofs`: `TapeInv` carries the silence of a flat bar back to the
  open transaction and to the question that filled it: only minutes that are
  over are asked about, and a minute that is over cannot trade any more.
  `WriterInv`, which needs none of it, keeps the account of the rows with the
  bound of the queue.
* `ObserverProofs`, gate: `StoryInv` says that what was heard is the cap of the
  newest W2_eval row.  It rests on the prior being read under the write lock; the
  mutant that reads it before breaks it.  Alerts: `AlertInv` adds to the property
  what the step that raises leaves to the step that persists the tier, and that a
  dropped repetition has an unresolved original.  Shadows: `ShadowInv` says that
  every variant, in memory and in its saved row, is sound (its money is what its
  fills left of the budget, its orders have positive prices), whatever fills of
  one tick cascade into each other; the totals are folds, followed one fill at a
  time.  Scores: `AnswerHonest` carries the votes from the POSTs to the receipt:
  what was answered for the row at hand is all that is owed under its kind, which
  needs that no seat is waited for (`OwedIsScored`).
* `ObserverProofs`, profit: the matchings before and after a fill are walked side
  by side, one sell at a time.  They agree on every buy both know; a later buy
  lies behind them in the queue and gets only what a sell has left (`Within`,
  `MatchWalk`), so the round trips of a scope only grow (`TripsGrow`).  The profit
  of a window is a sum over a finite set, which depends on no order, and windows
  that share no fill add up (`ProfitOfParts`, `WindowsAdd`).
* `RecursionProofs`: for the recursive functions and folds of the models, that a
  value exists for every finite argument and obeys its recursion equation; that a
  sum over a finite set exists, is unique and adds over disjoint sets.  They are
  proved without an operator parameter: `SetInduction` takes the induction
  hypothesis as a set of numbers, from the least element it lacks, and
  `SubsetInduction` as a set of subsets of a finite set.

Only model-checked: every liveness property (`CouncilRecovers`,
`OutageEvaluated`, `FallbackStops`, `FillSettles`, `InventoryRecovers`,
`GapsHeal`, `TapeReachesWarehouse`, `CapShiftTold`, `EveryScoreDelivered`), which
is out of the prover's reach.

## 5. Not modelled, and why

* Database writes of the paper engine that fail and are swallowed, and two
  threads on one paper engine: with them `OneGrid` does not hold, and no document
  promises it then.  `LiveBook` has the second cycler as a constant.
* The sub-floor guard at boot (a restored book whose spacing is under the floor
  is cancelled before the first-boot check) and the funds check that ends the
  process at boot; the clamps of a geometry to the configured spacing.
* `place_order`'s concentration cap: `compute_portfolio_metrics` returns a skew
  within 0.5 and the cap is at 0.90, so the branch is dead; for the same reason
  rule 3 (0.85) cannot fire on this input, though the rule itself is modelled.
* A crash between the grid row of a rebuild and the first commit of its streak
  leaves a landed rebuild uncounted; `CapRefinement` counts from that commit on,
  and the model has the crash, as it has those between the three commits.
* Kraken's local rate counter, which delays and never refuses; nonces, signatures
  and parsing.
* In the gate monitor: the insert of an hour's candle that fails on the stream's
  side and is swallowed (`gate_monitor.py:355`), so that the hour is evaluated
  without its row; the failed poll of REST is modelled.
* In the gate: T4 that raises before its INSERT, and a scorer and a cap that
  fail in one evaluation.  In the scores: the values of the grades, the equity
  drift, a mirror that is not configured (`tracing.py:213-214`: every score
  counts as delivered and gets its receipt), and more than one window (they are
  copies of each other).  In the alerts: two cycles at once, and `step_id`,
  which no caller passes.
* In the tape: trades and spreads, which the writer handles as it handles bars;
  the alarms and health events of the collector; the verdict of the warehouse,
  which the gate's worlds contain as an input.
* Language models, prompts, traces, statistics, the field schema of the world
  state, learning, dashboards and reports: input or output without control
  state.  Seat answers are any ballot.  The Coinbase adapter is not built by the
  engine; the scripts of `optimize/` replay files.

## 6. Plan

Modelled first was what trades and what may stop it, then who calls the council
and what the live engine, the streams, the scores and the tape do.  What is left,
in this order:

1. Proofs: the scorer of `SpacingScorer` against a reference definition, and what
   the oldest-first order of a sweep is worth.
2. The paper engine with failed writes and a second thread, and which of its
   properties survive; the sub-floor and funds guards of the start.
3. The tape's alarms and the verdict of its warehouse, as the source of the
   gate's evidence.

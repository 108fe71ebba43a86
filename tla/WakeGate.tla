------------------------------ MODULE WakeGate ------------------------------
(***************************************************************************)
(* Who may spend a council cycle, and when: the gate thread writes wake    *)
(* rows (magi/gate.py, W1 and W2), the main loop of the scheduler decides  *)
(* between the daily call, the silence backstop and a gate wake, the IPC   *)
(* thread runs manual cycles, and the process restarts at any moment.      *)
(*                                                                         *)
(* Time is counted in hours.  The loop passes at least once in an hour in  *)
(* which the process is up (the code: once a minute), the gate evaluates   *)
(* at most once an hour.                                                   *)
(*                                                                         *)
(* SilenceTooLongLate, ThrottleSeedLost and DateSeedLost are faulty        *)
(* variants of the definition after them, for the mutant runs.             *)
(***************************************************************************)
EXTENDS Integers, Sequences, FiniteSets, SequencesExt

CONSTANTS
    DayHours,    \* hours of a day
    DailyHour,   \* MAGI_DAILY_HOUR_EST
    MaxSilence,  \* MAGI_MAX_SILENCE_HOURS
    WakeMin,     \* WAKE_MIN_INTERVAL_MIN, in hours
    AnswerHours, \* how long an answered breach counts as answered (48 h)
    Horizon,     \* bound: the last hour considered
    Evidences,   \* the evidence considered, a subset of Evidence
    Prices,      \* prices, on a grid where a band reaches Width to each side
    Width

None == -1

ASSUME CadenceAssumption ==
    /\ {DayHours, DailyHour, MaxSilence, WakeMin, AnswerHours, Horizon} \subseteq Nat
    /\ DailyHour < DayHours /\ DayHours < MaxSilence /\ MaxSilence < AnswerHours
    /\ WakeMin > 0
ASSUME PricesAssumption == Prices # {} /\ Prices \subseteq Nat /\ Width \in Nat

Sides == {"above", "in", "below"}
Verdicts == {"green", "red", "stale"}
Evidence == [verdict : Verdicts, cap : BOOLEAN]
NoEvidence == [verdict |-> "stale", cap |-> FALSE]
ASSUME EvidencesAssumption == Evidences \subseteq Evidence
        \cup [id : {"W2"}, dir : {"in"}, centre : Prices, at : 0..Horizon]

VARIABLES
    now,         \* hours since the first start
    price,       \* the newest 1m close
    dwelt,       \* every 1m close of the dwell window is on the side of price
    closes,      \* the last two completed 1h closes, newest first
    centre,      \* of the newest grid_state row
    evidence,    \* warehouse verdict and exposure cap, as the gate would read them
    seeded,      \* a W2_eval row exists
    compared,    \* ... and what the newest one holds
    rows,        \* unconsumed fired W rows of magi_gate_events, oldest first
    breaches,    \* unconsumed fired T2 rows; no wake consumes them
    answered,    \* breaches consumed by a council cycle
    record,      \* newest debate_records row: [at, blocks], at None if there is none
    floorAt,     \* hour of the newest row whose trigger is 'scheduled', or None
    up,          \* the process runs
    lastCycle,   \* _last_magi_cycle_at, or None
    lastDate,    \* last_scheduled_date, or None
    passed,      \* the main loop has passed in this hour
    evaluated,   \* the gate has evaluated in this hour
    floors,      \* history: recorded scheduled cycles per day
    excused,     \* history: days on which the daily call could not be recorded
    shiftAt      \* history: since when an evidence shift waits for the council

market   == <<price, dwelt, closes, evidence>>
gateRows == <<seeded, compared, rows, breaches>>
memory   == <<lastCycle, lastDate, passed>>
history  == <<floors, excused, shiftAt>>
vars == <<now, market, centre, gateRows, answered, record, floorAt, up, memory,
          evaluated, history>>

Day(h) == h \div DayHours
HourOfDay(h) == h % DayHours
Days == 0..Day(Horizon)

-----------------------------------------------------------------------------
(***************************************************************************)
(* What the gate and the loop read.                                        *)
(***************************************************************************)
\* The side of the grid band a price is on.
SideOf(p, c) == CASE p > c + Width -> "above"
                  [] p < c - Width -> "below"
                  [] OTHER         -> "in"
PriceSide == SideOf(price, centre)

\* t2_grid_breach: both completed closes out of the band on the same side.
BreachDir == LET s == SideOf(closes[1], centre)
             IN  IF SideOf(closes[2], centre) = s THEN s ELSE "in"

\* w2_stance_evidence_shift: against the newest W2_eval row; a missing verdict
\* on either side is no comparison.
EvidenceShift(old, new) ==
    \/ old.cap # new.cap
    \/ "stale" \notin {old.verdict, new.verdict} /\ old.verdict # new.verdict

\* _t2_episode_already_answered.
Answered(dir) == \E a \in answered : /\ a.dir = dir
                                     /\ a.centre = centre
                                     /\ now - a.at <= AnswerHours

\* _wake_dwell_status of the trigger that is pending.
DwellStatus(id) ==
    CASE id = "W2"           -> "wake"
      [] PriceSide = "in"    -> "drop"
      [] ~dwelt              -> "defer"
      [] Answered(PriceSide) -> "drop_answered"
      [] OTHER               -> "wake"

\* _is_wake_suppressed_nontrading: a blocking tag, veto or halt on the newest row.
Suppressed == record.at # None /\ record.blocks

\* The throttle of gate wakes.
ThrottleOk == lastCycle = None \/ now - lastCycle >= WakeMin

\* should_run_magi.
FloorDue == HourOfDay(now) = DailyHour /\ Day(now) # lastDate

SilenceTooLongLate == lastCycle # None /\ now - lastCycle > MaxSilence
SilenceTooLong == lastCycle # None /\ now - lastCycle >= MaxSilence

\* The row set once a row is written: an older equal one adds nothing.
Written(rs, r) ==
    Append(SelectSeq(rs, LAMBDA o : <<o.id, o.dir, o.centre>> # <<r.id, r.dir, r.centre>>), r)

\* A set of breaches takes in newer ones of the same episode.
Newest(old, new) ==
    {b \in old : \A n \in new : <<n.dir, n.centre>> # <<b.dir, b.centre>>} \cup new

\* _consume_wake_gate_event: every unconsumed fired row of the trigger.
Without(id) == SelectSeq(rows, LAMBDA r : r.id # id)

-----------------------------------------------------------------------------
Init ==
    /\ now = 0
    /\ price \in Prices /\ dwelt = TRUE
    /\ closes = <<price, price>> /\ centre = price
    /\ evidence \in Evidences
    /\ seeded = FALSE /\ compared = NoEvidence /\ rows = <<>>
    /\ breaches = {} /\ answered = {}
    /\ record = [at |-> None, blocks |-> FALSE] /\ floorAt = None
    /\ up = FALSE /\ lastCycle = None /\ lastDate = None /\ passed = FALSE
    /\ evaluated = FALSE
    /\ floors = [d \in Days |-> 0] /\ excused = {} /\ shiftAt = None

(***************************************************************************)
(* The market and the clock.  Price and evidence move with the hour, the   *)
(* bound that keeps the instance small; the hour closes at the old price.  *)
(***************************************************************************)
\* The loop has passed in the hour if the process was up; a daily hour the
\* process was down for has no call.
Tick(p, e) ==
    /\ now < Horizon
    /\ up => passed
    /\ now' = now + 1
    /\ price' = p /\ dwelt' = (dwelt /\ p = price) /\ evidence' = e
    /\ closes' = <<price, closes[1]>>
    /\ passed' = FALSE /\ evaluated' = FALSE
    /\ excused' = IF ~up /\ HourOfDay(now) = DailyHour
                  THEN excused \cup {Day(now)} ELSE excused
    /\ UNCHANGED <<centre, gateRows, answered, record, floorAt, up, lastCycle,
                   lastDate, floors, shiftAt>>

\* The price stays on its side for the dwell window.
Settle ==
    /\ ~dwelt /\ dwelt' = TRUE
    /\ UNCHANGED <<now, price, closes, evidence, centre, gateRows, answered, record,
                   floorAt, up, memory, evaluated, history>>

(***************************************************************************)
(* evaluate_gate, the part that wakes: W1 is the outcome of T2, level      *)
(* triggered, and written beside its row; W2 compares with the newest      *)
(* W2_eval row and replaces it.  W1 is written before W2.                  *)
(***************************************************************************)
T2Row == [dir |-> BreachDir, centre |-> centre, at |-> now]
W1Row == [id |-> "W1", dir |-> BreachDir, centre |-> centre, at |-> now]
W2Row == [id |-> "W2", dir |-> "in", centre |-> centre, at |-> now]
EvaluateGate ==
    LET shifted   == seeded /\ EvidenceShift(compared, evidence)
        afterW1   == IF BreachDir = "in" THEN rows ELSE Written(rows, W1Row)
    IN  /\ up /\ ~evaluated
        /\ evaluated' = TRUE
        /\ seeded' = TRUE /\ compared' = evidence
        /\ rows' = IF shifted THEN Written(afterW1, W2Row) ELSE afterW1
        /\ breaches' = IF BreachDir = "in" THEN breaches ELSE Newest(breaches, {T2Row})
        /\ shiftAt' = IF shifted /\ shiftAt = None THEN now ELSE shiftAt
        /\ UNCHANGED <<now, market, centre, answered, record, floorAt, up, memory,
                       floors, excused>>

(***************************************************************************)
(* run_magi_cycle.  A guardrail may block it, the cycle may end without a  *)
(* row, or it is recorded; it then consumes every pending row, may leave a *)
(* tag that suppresses wakes, and may recentre the grid on the price.      *)
(***************************************************************************)
Blocked(trigger) ==
    /\ lastCycle' = now
    /\ excused' = IF trigger = "scheduled" THEN excused \cup {Day(now)} ELSE excused
    /\ shiftAt' = IF shiftAt = None THEN None ELSE now
    /\ UNCHANGED <<centre, rows, breaches, answered, record, floorAt, floors>>

\* A breach counts as answered by its W1 or its T2 row.  A T2 row outlives the
\* wake that was suppressed or dropped, so the T2 rows cover the W1 rows.
Recorded(trigger, blocks, recentre) ==
    /\ lastCycle' = now
    /\ record' = [at |-> now, blocks |-> blocks]
    /\ floorAt' = IF trigger = "scheduled" THEN now ELSE floorAt
    /\ rows' = <<>> /\ breaches' = {}
    /\ answered' = Newest(answered, breaches)
    /\ centre' = IF recentre THEN price ELSE centre
    /\ floors' = IF trigger = "scheduled" THEN [floors EXCEPT ![Day(now)] = @ + 1] ELSE floors
    /\ shiftAt' = None
    /\ UNCHANGED excused

RunMagiCycle(trigger) ==
    /\ \/ Blocked(trigger)
       \/ \E blocks, recentre \in BOOLEAN : Recorded(trigger, blocks, recentre)
    /\ UNCHANGED <<now, market, seeded, compared, evaluated>>

\* The rows and everything else a pass of the loop without a cycle leaves alone.
Quiet(rs) ==
    /\ rows' = rs
    /\ UNCHANGED <<now, market, centre, seeded, compared, breaches, answered, record,
                   floorAt, lastCycle, lastDate, evaluated, history>>

(***************************************************************************)
(* One pass of the main loop: daily floor, else backstop, else gate wake.  *)
(***************************************************************************)
DailyFloor ==
    /\ FloorDue
    /\ RunMagiCycle("scheduled")
    /\ lastDate' = Day(now)
Backstop ==
    /\ ~FloorDue /\ SilenceTooLong
    /\ RunMagiCycle("backstop_silence")
    /\ UNCHANGED lastDate

Pending == Last(rows).id
WakeQuestion == ~FloorDue /\ ~SilenceTooLong /\ ThrottleOk /\ rows # <<>>
NoQuestion ==
    /\ ~FloorDue /\ ~SilenceTooLong /\ (~ThrottleOk \/ rows = <<>>)
    /\ Quiet(rows)
WakeSuppressed ==
    /\ WakeQuestion /\ Suppressed
    /\ Quiet(Without(Pending))
WakeDropped ==
    /\ WakeQuestion /\ ~Suppressed
    /\ DwellStatus(Pending) \in {"drop", "drop_answered"}
    /\ Quiet(Without(Pending))
WakeDeferred ==
    /\ WakeQuestion /\ ~Suppressed /\ DwellStatus(Pending) = "defer"
    /\ Quiet(rows)
GateWake ==
    /\ WakeQuestion /\ ~Suppressed /\ DwellStatus(Pending) = "wake"
    /\ RunMagiCycle("gate_wake")
    /\ UNCHANGED lastDate

LoopPass ==
    /\ up /\ passed' = TRUE /\ UNCHANGED up
    /\ \/ DailyFloor \/ Backstop \/ NoQuestion \/ WakeSuppressed
       \/ WakeDropped \/ WakeDeferred \/ GateWake

\* /internal/trigger_magi.
Manual ==
    /\ up /\ RunMagiCycle("manual")
    /\ UNCHANGED <<up, lastDate, passed>>

(***************************************************************************)
(* Stop and start.  Memory is lost, rows stay.  The start seeds the        *)
(* throttle from the newest debate row, wakes the council when there is    *)
(* none, the configuration changed, a wake row is pending or the price is  *)
(* out of the band, and marks the daily call as done if today's is on      *)
(* record.                                                                 *)
(***************************************************************************)
Stop ==
    /\ up /\ up' = FALSE
    /\ lastCycle' = None /\ lastDate' = None /\ passed' = FALSE
    /\ UNCHANGED <<now, market, centre, gateRows, answered, record, floorAt,
                   evaluated, history>>

StartupWakes(changed) ==
    record.at = None \/ changed \/ rows # <<>> \/ PriceSide # "in"

ThrottleSeedLost == None
ThrottleSeed == record.at

DateSeedLost(at) == None
DateSeed(at) == IF /\ at # None /\ Day(at) = Day(now)
                   /\ HourOfDay(at) >= DailyHour
                THEN Day(now) ELSE None

StartAwake(changed) ==
    /\ StartupWakes(changed)
    /\ RunMagiCycle("startup")
StartQuiet(changed) ==
    /\ ~StartupWakes(changed)
    /\ lastCycle' = ThrottleSeed
    /\ UNCHANGED <<now, market, centre, gateRows, answered, record, floorAt,
                   evaluated, history>>
Start ==
    /\ ~up /\ up' = TRUE
    /\ \E changed \in BOOLEAN : StartAwake(changed) \/ StartQuiet(changed)
    /\ lastDate' = DateSeed(floorAt')
    /\ UNCHANGED passed

Next ==
    \/ \E p \in Prices, e \in Evidences : Tick(p, e)
    \/ Settle
    \/ EvaluateGate
    \/ LoopPass
    \/ Manual
    \/ Stop
    \/ Start

Spec == Init /\ [][Next]_vars

-----------------------------------------------------------------------------
(***************************************************************************)
(* Properties.                                                             *)
(***************************************************************************)
\* The clock floor (scheduler.should_run_magi and the start that reads the
\* debate rows): however often the process restarts, a day has at most one
\* recorded scheduled call, and once it is over exactly one, unless a guardrail
\* or an outage took the call or the process was down in the daily hour.
OneFloorCallPerDay ==
    \A d \in Days :
        /\ floors[d] <= 1
        /\ d < Day(now) /\ d \notin excused => floors[d] = 1

\* A gate wake is never recorded within WAKE_MIN_INTERVAL_MIN of another recorded
\* cycle, whatever triggered it and however many restarts lie between
\* (scheduler.main: the throttle and the seed of _last_magi_cycle_at).
WakeThrottled ==
    [][up /\ GateWake /\ rows' = <<>> => record.at = None \/ now - record.at >= WakeMin]_vars

\* A shift of the evidence under the standing stance reaches a recorded cycle
\* within the maximum silence, counted from the shift or from the last attempt a
\* guardrail or an outage took: although its row may be consumed unanswered by
\* the suppression and an edge never fires twice, the floor, the backstop and
\* the start bring the council back (scheduler.main).
ShiftReachesCouncil ==
    up /\ passed /\ shiftAt # None => now - shiftAt < MaxSilence
=============================================================================

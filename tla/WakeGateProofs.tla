--------------------------- MODULE WakeGateProofs ---------------------------
(***************************************************************************)
(* The cadence of the council, for every length of the day, every daily    *)
(* hour and every interval: at most one scheduled call a day however often *)
(* the process restarts, no gate wake within the throttle, and no shift of *)
(* the evidence that waits longer than the maximum silence.                *)
(*                                                                         *)
(* The loop decides from memory (last_scheduled_date,                      *)
(* _last_magi_cycle_at), the properties speak of the rows: the invariant   *)
(* ties the two, and says what a start must rebuild from the rows.         *)
(***************************************************************************)
EXTENDS WakeGate, TLAPS

-----------------------------------------------------------------------------
(***************************************************************************)
(* The calendar: the day and the hour of the day of consecutive hours.     *)
(***************************************************************************)
LEMMA Calendar ==
    ASSUME NEW h \in Nat
    PROVE  /\ Day(h) \in Nat /\ HourOfDay(h) \in 0..DayHours - 1
           /\ h = DayHours * Day(h) + HourOfDay(h)
  <1>1. DayHours \in Nat /\ DayHours > 0  BY CadenceAssumption
  <1>2. h \div DayHours \in Nat  BY <1>1, SMT
  <1>3. h % DayHours \in 0..DayHours - 1  BY <1>1, SMT
  <1>4. h = DayHours * (h \div DayHours) + (h % DayHours)  BY <1>1, SMT
  <1> QED  BY <1>2, <1>3, <1>4 DEF Day, HourOfDay

LEMMA DayMonotone ==
    ASSUME NEW h \in Nat, NEW k \in Nat, h <= k
    PROVE  Day(h) <= Day(k)
  <1> DEFINE q == Day(h)
             r == HourOfDay(h)
             p == Day(k)
             s == HourOfDay(k)
  <1>0. DayHours \in Nat /\ DayHours > 0  BY CadenceAssumption
  <1>1. /\ q \in Nat /\ r \in Nat /\ r < DayHours /\ h = DayHours * q + r
        /\ p \in Nat /\ s \in Nat /\ s < DayHours /\ k = DayHours * p + s
    BY <1>0, Calendar
  <1> HIDE DEF q, r, p, s
  <1>2. ASSUME p < q  PROVE FALSE
    <2>1. q >= p + 1 /\ q - p - 1 \in Nat  BY <1>1, <1>2
    <2>2. DayHours * (q - p - 1) >= 0  BY <2>1, <1>0
    <2>3. DayHours * (q - p - 1) = DayHours * q - DayHours * p - DayHours  BY <1>0, <1>1
    <2> QED  BY <1>0, <1>1, <2>2, <2>3
  <1>3. q <= p  BY <1>1, <1>2
  <1> QED  BY <1>3 DEF q, p

\* An hour later it is the next hour of the same day, or the first of the next
\* day after the last of this one.
LEMMA NextHour ==
    ASSUME NEW h \in Nat
    PROVE  \/ Day(h + 1) = Day(h) /\ HourOfDay(h + 1) = HourOfDay(h) + 1
           \/ /\ Day(h + 1) = Day(h) + 1
              /\ HourOfDay(h) = DayHours - 1 /\ HourOfDay(h + 1) = 0
  <1> DEFINE q == Day(h)
             r == HourOfDay(h)
             p == Day(h + 1)
             s == HourOfDay(h + 1)
  <1>0. DayHours \in Nat /\ DayHours > 0  BY CadenceAssumption
  <1>1. /\ q \in Nat /\ r \in Nat /\ r < DayHours /\ h = DayHours * q + r
        /\ p \in Nat /\ s \in Nat /\ s < DayHours /\ h + 1 = DayHours * p + s
    <2>1. h + 1 \in Nat  OBVIOUS
    <2> QED  BY <1>0, <2>1, Calendar
  <1>2. q <= p  BY DayMonotone
  <1> HIDE DEF q, r, p, s
  <1>3. DayHours * (p - q) = DayHours * p - DayHours * q  BY <1>0, <1>1
  <1>4. DayHours * (p - q) = r + 1 - s  BY <1>0, <1>1, <1>3
  <1>5. CASE p = q
    <2>1. DayHours * (p - q) = 0  BY <1>5, <1>0, <1>1
    <2>2. s = r + 1  BY <2>1, <1>4, <1>1
    <2> QED  BY <1>5, <2>2 DEF q, r, p, s
  <1>6. CASE p = q + 1
    <2>1. DayHours * (p - q) = DayHours  BY <1>6, <1>0, <1>1
    <2>2. r = DayHours - 1 /\ s = 0  BY <2>1, <1>4, <1>1, <1>0
    <2> QED  BY <1>6, <2>2 DEF q, r, p, s
  <1>7. CASE p > q + 1
    <2>1. p - q - 2 \in Nat  BY <1>7, <1>1
    <2>2. DayHours * (p - q - 2) >= 0  BY <2>1, <1>0
    <2>3. DayHours * (p - q - 2) = DayHours * (p - q) - 2 * DayHours  BY <1>0, <1>1
    <2> QED  BY <2>2, <2>3, <1>4, <1>1, <1>0
  <1> QED  BY <1>1, <1>2, <1>5, <1>6, <1>7

\* Every hour considered lies in a day the history counts.
LEMMA DayBound ==
    ASSUME NEW h \in Nat, h <= Horizon
    PROVE  Day(h) \in Days
  <1>1. Horizon \in Nat  BY CadenceAssumption
  <1>2. Day(h) \in Nat /\ Day(Horizon) \in Nat  BY <1>1, Calendar
  <1>3. Day(h) <= Day(Horizon)  BY <1>1, DayMonotone
  <1> QED  BY <1>2, <1>3 DEF Days

-----------------------------------------------------------------------------
(***************************************************************************)
(* The throttle and the maximum silence.                                   *)
(*                                                                         *)
(* While the process runs, its memory knows a cycle no older than the      *)
(* newest recorded one: a start seeds it from the rows or runs a cycle.    *)
(* An evidence shift that waits is no older than that cycle, and once the  *)
(* loop has passed in the hour the cycle is younger than the maximum       *)
(* silence.                                                                *)
(***************************************************************************)
Since == 0..now \cup {None}

ClockTypes ==
    /\ now \in 0..Horizon
    /\ up \in BOOLEAN /\ passed \in BOOLEAN
    /\ record.at \in Since /\ lastCycle \in Since /\ shiftAt \in Since
SeedKnown ==
    up => lastCycle # None /\ record.at <= lastCycle
ShiftAfterCycle ==
    shiftAt # None => record.at <= shiftAt /\ (up => lastCycle <= shiftAt)
PassedRecently ==
    passed => up /\ now - lastCycle < MaxSilence
CadenceInv ==
    ClockTypes /\ SeedKnown /\ ShiftAfterCycle /\ PassedRecently

LEMMA CadenceInit == Init => CadenceInv
  <1> SUFFICES ASSUME Init  PROVE CadenceInv
    OBVIOUS
  <1>1. record.at = None /\ lastCycle = None /\ shiftAt = None /\ now = 0
    BY DEF Init
  <1>2. up = FALSE /\ passed = FALSE  BY DEF Init
  <1>3. Horizon \in Nat  BY CadenceAssumption
  <1>4. ClockTypes
    <2>1. now \in 0..Horizon  BY <1>1, <1>3
    <2>2. None \in Since  BY DEF Since
    <2> QED  BY <1>1, <1>2, <2>1, <2>2 DEF ClockTypes
  <1> QED  BY <1>1, <1>2, <1>4 DEF CadenceInv, SeedKnown, ShiftAfterCycle, PassedRecently

\* A cycle, recorded or blocked, is the newest the memory knows.
LEMMA CycleCadence ==
    ASSUME CadenceInv, NEW trigger, RunMagiCycle(trigger),
           up' = TRUE, passed' \in BOOLEAN
    PROVE  CadenceInv'
  <1>1. now' = now /\ lastCycle' = now  BY DEF RunMagiCycle, Blocked, Recorded
  <1>2. CASE Blocked(trigger)
    <2>1. record'.at = record.at /\ shiftAt' \in {None, now}  BY <1>2 DEF Blocked
    <2> QED  BY <1>1, <2>1, CadenceAssumption
             DEF CadenceInv, ClockTypes, SeedKnown, ShiftAfterCycle, PassedRecently, Since,
                 None
  <1>3. CASE \E blocks, recentre \in BOOLEAN : Recorded(trigger, blocks, recentre)
    <2>1. record'.at = now /\ shiftAt' = None  BY <1>3 DEF Recorded
    <2> QED  BY <1>1, <2>1, CadenceAssumption
             DEF CadenceInv, ClockTypes, SeedKnown, ShiftAfterCycle, PassedRecently, Since,
                 None
  <1> QED  BY <1>2, <1>3 DEF RunMagiCycle

\* A pass that asks no question leaves the cycle, and found it young enough.
LEMMA PassCadence ==
    ASSUME CadenceInv, LoopPass
    PROVE  CadenceInv'
  <1>1. up /\ up' = TRUE /\ passed' = TRUE
    BY DEF LoopPass, CadenceInv, ClockTypes
  <1>2. CASE DailyFloor  BY <1>1, <1>2, CycleCadence DEF DailyFloor
  <1>3. CASE Backstop  BY <1>1, <1>3, CycleCadence DEF Backstop
  <1>4. CASE GateWake  BY <1>1, <1>4, CycleCadence DEF GateWake
  <1>5. ASSUME NEW rs, Quiet(rs), ~SilenceTooLong  PROVE CadenceInv'
    BY <1>1, <1>5, CadenceAssumption
    DEF Quiet, SilenceTooLong, CadenceInv, ClockTypes, SeedKnown, ShiftAfterCycle,
        PassedRecently, Since, None, history
  <1> QED
    BY <1>2, <1>3, <1>4, <1>5
    DEF LoopPass, NoQuestion, WakeSuppressed, WakeDropped, WakeDeferred, WakeQuestion

LEMMA StartCadence ==
    ASSUME CadenceInv, Start
    PROVE  CadenceInv'
  <1>1. up' = TRUE /\ passed' = passed  BY DEF Start
  <1>2. ~up  BY DEF Start
  <1>3. passed' \in BOOLEAN  BY <1>1 DEF CadenceInv, ClockTypes
  <1>4. ASSUME NEW changed \in BOOLEAN, StartAwake(changed)  PROVE CadenceInv'
    BY <1>1, <1>3, <1>4, CycleCadence DEF StartAwake
  <1>5. ASSUME NEW changed \in BOOLEAN, StartQuiet(changed)  PROVE CadenceInv'
    <2>1. record.at # None  BY <1>5 DEF StartQuiet, StartupWakes
    <2>2. /\ now' = now /\ record' = record /\ shiftAt' = shiftAt
          /\ lastCycle' = record.at
      BY <1>5 DEF StartQuiet, ThrottleSeed, history
    <2> QED  BY <1>1, <1>2, <2>1, <2>2
             DEF CadenceInv, ClockTypes, SeedKnown, ShiftAfterCycle, PassedRecently, Since
  <1> QED  BY <1>4, <1>5 DEF Start

LEMMA EvaluateCadence ==
    ASSUME CadenceInv, EvaluateGate
    PROVE  CadenceInv'
  <1>1. /\ now' = now /\ up' = up /\ passed' = passed /\ record' = record
        /\ lastCycle' = lastCycle /\ shiftAt' \in {shiftAt, now}
    BY DEF EvaluateGate, memory
  <1> QED  BY <1>1
           DEF CadenceInv, ClockTypes, SeedKnown, ShiftAfterCycle, PassedRecently, Since,
               None

LEMMA CadenceNext == CadenceInv /\ [Next]_vars => CadenceInv'
  <1> SUFFICES ASSUME CadenceInv, [Next]_vars  PROVE CadenceInv'
    OBVIOUS
  <1> USE DEF CadenceInv, ClockTypes, SeedKnown, ShiftAfterCycle, PassedRecently, Since, None
  <1>1. ASSUME NEW p \in Prices, NEW e \in Evidences, Tick(p, e)  PROVE CadenceInv'
    <2>1. /\ now < Horizon /\ now' = now + 1 /\ passed' = FALSE
          /\ up' = up /\ record' = record /\ lastCycle' = lastCycle /\ shiftAt' = shiftAt
      BY <1>1 DEF Tick
    <2>2. Horizon \in Nat  BY CadenceAssumption
    <2>3. now' \in 0..Horizon /\ 0..now \subseteq 0..now'  BY <2>1, <2>2
    <2> QED  BY <2>1, <2>3
  <1>2. CASE Settle  BY <1>2 DEF Settle, memory, history
  <1>3. CASE EvaluateGate  BY <1>3, EvaluateCadence
  <1>4. CASE LoopPass  BY <1>4, PassCadence
  <1>5. CASE Manual
    <2>1. PICK trigger : RunMagiCycle(trigger)  BY <1>5 DEF Manual
    <2>2. up' = TRUE /\ passed' \in BOOLEAN  BY <1>5 DEF Manual
    <2> QED  BY <2>1, <2>2, CycleCadence
  <1>6. CASE Stop  BY <1>6 DEF Stop, history
  <1>7. CASE Start  BY <1>7, StartCadence
  <1>8. CASE UNCHANGED vars  BY <1>8 DEF vars, memory, history
  <1> QED  BY <1>1, <1>2, <1>3, <1>4, <1>5, <1>6, <1>7, <1>8 DEF Next

\* Every reachable state keeps the throttle seeded and the silence bounded
\* (scheduler.main, the seed of _last_magi_cycle_at and the passes of the loop).
THEOREM CadenceKept == Spec => []CadenceInv
  BY CadenceInit, CadenceNext, PTL DEF Spec

\* No gate wake is recorded within the throttle of a recorded cycle, for every
\* throttle and however many restarts lie between (scheduler.main).
THEOREM GateWakesThrottled == Spec => WakeThrottled
  <1>1. CadenceInv /\ [Next]_vars
        => [up /\ GateWake /\ rows' = <<>> => record.at = None \/ now - record.at >= WakeMin]_vars
    <2> SUFFICES ASSUME CadenceInv, up, GateWake, record.at # None
                 PROVE  now - record.at >= WakeMin
      OBVIOUS
    <2>1. lastCycle # None /\ now - lastCycle >= WakeMin
      BY DEF GateWake, WakeQuestion, ThrottleOk, CadenceInv, SeedKnown
    <2> QED  BY <2>1, CadenceAssumption DEF CadenceInv, ClockTypes, SeedKnown, Since, None
  <1> QED  BY <1>1, CadenceKept, PTL DEF Spec, WakeThrottled

\* An evidence shift that waits has waited less than the maximum silence whenever
\* the loop has passed, for every maximum silence (scheduler.main).
THEOREM ShiftAlwaysReachesCouncil == Spec => []ShiftReachesCouncil
  <1>1. CadenceInv => ShiftReachesCouncil
    BY CadenceAssumption
    DEF CadenceInv, ClockTypes, SeedKnown, ShiftAfterCycle, PassedRecently, Since, None,
        ShiftReachesCouncil
  <1> QED  BY <1>1, CadenceKept, PTL

-----------------------------------------------------------------------------
(***************************************************************************)
(* The clock floor.                                                        *)
(*                                                                         *)
(* The history of a day and the newest scheduled row tell the same story   *)
(* (FloorRow), the date in memory is today's only if today's call was      *)
(* made or taken (DateKnown), and once the daily hour is over the day is   *)
(* settled (DaySettled): with it, what the hours before the daily hour     *)
(* leave open.                                                             *)
(***************************************************************************)
Today == Day(now)
HourOver == \/ HourOfDay(now) > DailyHour
            \/ HourOfDay(now) = DailyHour /\ passed

FloorTypes ==
    /\ floors \in [Days -> Nat] /\ floorAt \in Since
    /\ lastDate \in Days \cup {None}
FloorOnce ==
    \A d \in Days : floors[d] <= 1 /\ (d > Today => floors[d] = 0)
FloorRow ==
    /\ floorAt # None => HourOfDay(floorAt) = DailyHour
    /\ floors[Today] = 1 => floorAt # None /\ Day(floorAt) = Today
    /\ floorAt # None /\ Day(floorAt) = Today => floors[Today] = 1
DateKnown ==
    up => /\ lastDate <= Today
          /\ floors[Today] = 1 => lastDate = Today
          /\ lastDate = Today => floors[Today] = 1 \/ Today \in excused
DaySettled ==
    \A d \in Days \ excused : d < Today \/ (d = Today /\ HourOver) => floors[d] = 1
FloorInv ==
    FloorTypes /\ FloorOnce /\ FloorRow /\ DateKnown /\ DaySettled

LEMMA TodayType ==
    ASSUME CadenceInv
    PROVE  now \in Nat /\ Today \in Days /\ Today \in Nat /\ HourOfDay(now) \in Nat
  <1>1. now \in Nat /\ now <= Horizon
    <2>1. Horizon \in Nat  BY CadenceAssumption
    <2> QED  BY <2>1 DEF CadenceInv, ClockTypes
  <1> QED  BY <1>1, DayBound, Calendar DEF Today

LEMMA FloorInit == Init => FloorInv
  <1> SUFFICES ASSUME Init  PROVE FloorInv
    OBVIOUS
  <1>1. /\ now = 0 /\ floorAt = None /\ lastDate = None /\ up = FALSE /\ passed = FALSE
        /\ floors = [d \in Days |-> 0]
    BY DEF Init
  <1>2. HourOfDay(0) = 0 /\ Day(0) = 0
    <2>1. 0 \in Nat /\ DayHours \in Nat /\ DayHours > 0  BY CadenceAssumption
    <2>2. 0 = DayHours * Day(0) + HourOfDay(0) /\ Day(0) \in Nat /\ HourOfDay(0) \in Nat
      BY <2>1, Calendar
    <2>3. Day(0) > 0 => DayHours * Day(0) > 0  BY <2>1, <2>2
    <2>4. Day(0) = 0  BY <2>1, <2>2, <2>3
    <2>5. DayHours * Day(0) = 0  BY <2>1, <2>4
    <2> QED  BY <2>2, <2>4, <2>5
  <1>3. 0 \in Days /\ Days \subseteq Nat /\ Horizon \in Nat
    <2>1. Horizon \in Nat  BY CadenceAssumption
    <2>2. Day(Horizon) \in Nat  BY <2>1, Calendar
    <2> QED  BY <2>1, <2>2 DEF Days
  <1>4. FloorTypes  BY <1>1 DEF FloorTypes, Since
  <1>5. FloorOnce  BY <1>1 DEF FloorOnce
  <1>6. FloorRow  BY <1>1, <1>2, <1>3 DEF FloorRow, Today
  <1>7. DateKnown  BY <1>1 DEF DateKnown
  <1>8. DaySettled
    <2>1. Today = 0 /\ ~HourOver
      BY <1>1, <1>2, CadenceAssumption DEF Today, HourOver
    <2> QED  BY <1>3, <2>1 DEF DaySettled
  <1> QED  BY <1>4, <1>5, <1>6, <1>7, <1>8 DEF FloorInv

\* What no call changes: the history, the row and the hour.
SameCalls == now' = now /\ floors' = floors /\ floorAt' = floorAt /\ excused' = excused

LEMMA OtherCycle ==
    ASSUME NEW trigger, RunMagiCycle(trigger), trigger # "scheduled"
    PROVE  SameCalls
  BY DEF RunMagiCycle, Blocked, Recorded, SameCalls

\* With the same calls, what the process remembers is all there is to show.
LEMMA SameCallsFloor ==
    ASSUME FloorInv, SameCalls, lastDate' \in Days \cup {None}, DateKnown', DaySettled'
    PROVE  FloorInv'
  <1>1. Today' = Today /\ Since' = Since  BY DEF SameCalls, Today, Since
  <1>2. FloorTypes'  BY <1>1 DEF FloorInv, FloorTypes, SameCalls
  <1>3. FloorOnce'  BY <1>1 DEF FloorInv, FloorOnce, SameCalls
  <1>4. FloorRow'  BY <1>1 DEF FloorInv, FloorRow, SameCalls
  <1> QED  BY <1>2, <1>3, <1>4 DEF FloorInv

\* ... and nothing when that stays too.
LEMMA SameMemoryFloor ==
    ASSUME FloorInv, SameCalls, lastDate' = lastDate, up' = up, passed' = passed
    PROVE  FloorInv'
  <1>1. Today' = Today /\ HourOver' = HourOver
    BY DEF SameCalls, Today, HourOver
  <1>2. DateKnown'  BY <1>1 DEF FloorInv, DateKnown, SameCalls
  <1>3. DaySettled'  BY <1>1 DEF FloorInv, DaySettled, SameCalls
  <1>4. lastDate' \in Days \cup {None}  BY DEF FloorInv, FloorTypes
  <1> QED  BY <1>2, <1>3, <1>4, SameCallsFloor

\* A pass that is not due for the daily call: in the daily hour memory says it
\* was made or taken.
LEMMA OtherPassFloor ==
    ASSUME CadenceInv, FloorInv, SameCalls, up, up' = TRUE, passed' = TRUE,
           lastDate' = lastDate, ~FloorDue
    PROVE  FloorInv'
  <1>1. Today' = Today  BY DEF SameCalls, Today
  <1>2. DateKnown'  BY <1>1 DEF FloorInv, DateKnown, SameCalls
  <1>3. DaySettled'
    <2> SUFFICES ASSUME NEW d \in Days \ excused, d < Today \/ (d = Today /\ HourOver')
                 PROVE  floors[d] = 1
      BY <1>1 DEF DaySettled, SameCalls
    <2>1. CASE d < Today \/ (d = Today /\ HourOver)
      BY <2>1 DEF FloorInv, DaySettled
    <2>2. CASE d = Today /\ ~HourOver
      <3>1. HourOfDay(now) = DailyHour
        <4>1. HourOver'  BY <2>2, TodayType
        <4> QED  BY <2>2, <4>1 DEF HourOver, SameCalls
      <3>2. lastDate = Today  BY <3>1 DEF FloorDue, Today
      <3> QED  BY <2>2, <3>2 DEF FloorInv, DateKnown
    <2> QED  BY <2>1, <2>2
  <1>4. lastDate' \in Days \cup {None}  BY DEF FloorInv, FloorTypes
  <1> QED  BY <1>2, <1>3, <1>4, SameCallsFloor

-----------------------------------------------------------------------------
(***************************************************************************)
(* The steps that touch the calls, the date or the hour.                   *)
(***************************************************************************)
\* The daily call: due, so none is on record today; a guardrail or an outage
\* may take it.
LEMMA DailyFloorStep ==
    ASSUME CadenceInv, FloorInv, up, up' = TRUE, passed' = TRUE, DailyFloor
    PROVE  FloorInv'
  <1>0. /\ Today \in Days /\ Today \in Nat /\ now \in Nat /\ Days \subseteq Nat
    <2>1. Horizon \in Nat  BY CadenceAssumption
    <2>2. Day(Horizon) \in Nat  BY <2>1, Calendar
    <2> QED  BY <2>2, TodayType DEF Days
  <1>1. now' = now /\ lastDate' = Today /\ RunMagiCycle("scheduled") /\ FloorDue
    BY DEF DailyFloor, RunMagiCycle, Today
  <1>2. Today' = Today /\ Since' = Since  BY <1>1 DEF Today, Since
  <1>3. floors[Today] = 0 /\ HourOfDay(now) = DailyHour
    <2>1. floors[Today] \in Nat /\ floors[Today] <= 1
      BY <1>0 DEF FloorInv, FloorTypes, FloorOnce
    <2>2. lastDate # Today /\ HourOfDay(now) = DailyHour  BY <1>1 DEF FloorDue, Today
    <2>3. floors[Today] # 1  BY <2>2 DEF FloorInv, DateKnown
    <2> QED  BY <2>1, <2>2, <2>3
  <1>4. CASE Blocked("scheduled")
    <2>1. floors' = floors /\ floorAt' = floorAt /\ excused' = excused \cup {Today}
      BY <1>4 DEF Blocked, Today
    <2>2. FloorTypes' /\ FloorOnce'
      BY <1>0, <1>1, <1>2, <2>1 DEF FloorInv, FloorTypes, FloorOnce
    <2>5. FloorRow'  BY <1>2, <2>1 DEF FloorInv, FloorRow
    <2>3. DateKnown'  BY <1>0, <1>1, <1>2, <2>1 DEF DateKnown
    <2>4. DaySettled'
      BY <1>0, <1>1, <1>2, <2>1 DEF FloorInv, DaySettled
    <2> QED  BY <2>2, <2>3, <2>4, <2>5 DEF FloorInv
  <1>5. CASE \E blocks, recentre \in BOOLEAN : Recorded("scheduled", blocks, recentre)
    <2>1. /\ floors' = [floors EXCEPT ![Today] = @ + 1] /\ floorAt' = now
          /\ excused' = excused
      BY <1>5 DEF Recorded, Today
    <2>2. /\ floors' \in [Days -> Nat] /\ floors'[Today] = 1
          /\ \A d \in Days : d # Today => floors'[d] = floors[d]
      BY <1>0, <1>3, <2>1 DEF FloorInv, FloorTypes
    <2>3. FloorTypes'
      BY <1>0, <1>1, <1>2, <2>1, <2>2 DEF FloorTypes, Since
    <2>4. FloorOnce'
      BY <1>0, <1>2, <2>2 DEF FloorInv, FloorOnce
    <2>5. FloorRow'
      <3>1. HourOfDay(floorAt') = DailyHour  BY <1>3, <2>1
      <3>2. Day(floorAt') = Today'  BY <1>2, <2>1 DEF Today
      <3>3. floors'[Today'] = 1  BY <1>2, <2>2
      <3>4. floorAt' # None  BY <1>0, <2>1 DEF None
      <3> QED  BY <3>1, <3>2, <3>3, <3>4 DEF FloorRow
    <2>6. DateKnown'
      BY <1>0, <1>1, <1>2, <2>2 DEF DateKnown
    <2>7. DaySettled'
      BY <1>0, <1>2, <2>1, <2>2 DEF FloorInv, DaySettled
    <2> QED  BY <2>3, <2>4, <2>5, <2>6, <2>7 DEF FloorInv
  <1> QED  BY <1>1, <1>4, <1>5 DEF RunMagiCycle

LEMMA PassFloor ==
    ASSUME CadenceInv, FloorInv, LoopPass
    PROVE  FloorInv'
  <1>1. up /\ up' = TRUE /\ passed' = TRUE
    BY DEF LoopPass, CadenceInv, ClockTypes
  <1>2. CASE DailyFloor  BY <1>1, <1>2, DailyFloorStep
  <1>3. CASE Backstop
    <2>1. SameCalls /\ lastDate' = lastDate /\ ~FloorDue
      BY <1>3, OtherCycle DEF Backstop
    <2> QED  BY <1>1, <2>1, OtherPassFloor
  <1>4. CASE GateWake
    <2>1. SameCalls /\ lastDate' = lastDate /\ ~FloorDue
      BY <1>4, OtherCycle DEF GateWake, WakeQuestion
    <2> QED  BY <1>1, <2>1, OtherPassFloor
  <1>5. ASSUME NEW rs, Quiet(rs), ~FloorDue  PROVE FloorInv'
    <2>1. SameCalls /\ lastDate' = lastDate
      BY <1>5 DEF Quiet, SameCalls, history
    <2> QED  BY <1>1, <1>5, <2>1, OtherPassFloor
  <1> QED
    BY <1>2, <1>3, <1>4, <1>5
    DEF LoopPass, NoQuestion, WakeSuppressed, WakeDropped, WakeDeferred, WakeQuestion

\* The start reads today's call back from its row.
LEMMA StartFloor ==
    ASSUME CadenceInv, FloorInv, Start
    PROVE  FloorInv'
  <1>0. Today \in Days /\ Today \in Nat  BY TodayType
  <1>1. SameCalls
    <2>1. ASSUME NEW changed \in BOOLEAN, StartAwake(changed)  PROVE SameCalls
      BY <2>1, OtherCycle DEF StartAwake
    <2>2. ASSUME NEW changed \in BOOLEAN, StartQuiet(changed)  PROVE SameCalls
      BY <2>2 DEF StartQuiet, SameCalls, history
    <2> QED  BY <2>1, <2>2 DEF Start
  <1>2. up' = TRUE /\ passed' = passed /\ lastDate' = DateSeed(floorAt)
    BY <1>1 DEF Start, SameCalls, DateSeed
  <1>3. Today' = Today /\ (HourOver' = HourOver)
    BY <1>1, <1>2 DEF SameCalls, Today, HourOver
  <1>4. lastDate' \in {Today, None}
    BY <1>2 DEF DateSeed, Today
  <1>5. lastDate' = Today => floors[Today] = 1
    <2>1. lastDate' = Today => floorAt # None /\ Day(floorAt) = Today
      BY <1>0, <1>2 DEF DateSeed, Today, None
    <2> QED  BY <2>1 DEF FloorInv, FloorRow
  <1>6. floors[Today] = 1 => lastDate' = Today
    <2> SUFFICES ASSUME floors[Today] = 1  PROVE lastDate' = Today
      OBVIOUS
    <2>1. floorAt # None /\ Day(floorAt) = Today /\ HourOfDay(floorAt) = DailyHour
      BY DEF FloorInv, FloorRow
    <2>2. HourOfDay(floorAt) >= DailyHour  BY <2>1, CadenceAssumption
    <2> QED  BY <1>2, <2>1, <2>2 DEF DateSeed, Today
  <1>7. DateKnown'
    BY <1>0, <1>1, <1>3, <1>4, <1>5, <1>6 DEF DateKnown, SameCalls, None
  <1>8. DaySettled'  BY <1>1, <1>3 DEF FloorInv, DaySettled, SameCalls
  <1> QED  BY <1>0, <1>1, <1>4, <1>7, <1>8, SameCallsFloor

\* An hour later: the day that is over was settled in its daily hour, if the
\* process was up by the pass the clock waits for, else by the excuse.
LEMMA TickFloor ==
    ASSUME CadenceInv, FloorInv, NEW p, NEW e, Tick(p, e)
    PROVE  FloorInv'
  <1>1. /\ now < Horizon /\ now' = now + 1 /\ passed' = FALSE /\ (up => passed)
        /\ up' = up /\ floors' = floors /\ floorAt' = floorAt /\ lastDate' = lastDate
        /\ excused' = IF ~up /\ HourOfDay(now) = DailyHour
                      THEN excused \cup {Today} ELSE excused
    BY DEF Tick, Today
  <1>2. /\ now \in Nat /\ Today \in Days /\ Today \in Nat /\ HourOfDay(now) \in Nat
        /\ Days \subseteq Nat
    <2>1. Horizon \in Nat  BY CadenceAssumption
    <2>2. Day(Horizon) \in Nat  BY <2>1, Calendar
    <2> QED  BY <2>2, TodayType DEF Days
  <1>3. \/ Today' = Today /\ HourOfDay(now)' = HourOfDay(now) + 1
        \/ /\ Today' = Today + 1
           /\ HourOfDay(now) = DayHours - 1 /\ HourOfDay(now)' = 0
    <2>1. Today' = Day(now + 1) /\ HourOfDay(now)' = HourOfDay(now + 1)
      BY <1>1 DEF Today
    <2> QED  BY <1>2, <2>1, NextHour DEF Today
  <1>4. Today' \in Days
    <2>1. Horizon \in Nat /\ now + 1 \in Nat /\ now + 1 <= Horizon
      BY <1>1, <1>2, CadenceAssumption
    <2> QED  BY <1>1, <2>1, DayBound DEF Today
  <1>5. 0..now \subseteq 0..now'  BY <1>1, <1>2
  <1>6. floorAt # None => Day(floorAt) <= Today /\ Day(floorAt) \in Nat
    <2>1. floorAt # None => floorAt \in Nat /\ floorAt <= now
      BY <1>2 DEF FloorInv, FloorTypes, Since
    <2> QED  BY <1>2, <2>1, DayMonotone, Calendar DEF Today
  <1>7. \A d \in Days : (d <= Today /\ Today' = Today + 1) => d \in excused' \/ floors[d] = 1
    <2> SUFFICES ASSUME NEW d \in Days, d <= Today, Today' = Today + 1, d \notin excused'
                 PROVE  floors[d] = 1
      OBVIOUS
    <2>1. d \notin excused  BY <1>1
    <2>2. CASE d < Today  BY <2>1, <2>2 DEF FloorInv, DaySettled
    <2>3. CASE d = Today
      <3>1. HourOfDay(now) = DayHours - 1  BY <1>2, <1>3
      <3>2. HourOfDay(now) >= DailyHour  BY <3>1, CadenceAssumption
      <3>3. HourOfDay(now) = DailyHour => passed  BY <1>1, <2>3
      <3>4. HourOver  BY <1>2, <3>2, <3>3, CadenceAssumption DEF HourOver
      <3> QED  BY <2>1, <2>3, <3>4 DEF FloorInv, DaySettled
    <2> QED  BY <1>2, <2>2, <2>3
  <1>8. FloorTypes'  BY <1>1, <1>5 DEF FloorInv, FloorTypes, Since
  <1>9. FloorOnce'  BY <1>1, <1>2, <1>3, <1>4 DEF FloorInv, FloorOnce
  <1>10. CASE Today' = Today
    <2>1. FloorRow'  BY <1>1, <1>10 DEF FloorInv, FloorRow
    <2>2. DateKnown'  BY <1>1, <1>10 DEF FloorInv, DateKnown
    <2>3. DaySettled'
      <3> SUFFICES ASSUME NEW d \in Days \ excused', d < Today \/ (d = Today /\ HourOver')
                   PROVE  floors[d] = 1
        BY <1>1, <1>10 DEF DaySettled
      <3>1. d \notin excused  BY <1>1
      <3>2. CASE d < Today  BY <3>1, <3>2 DEF FloorInv, DaySettled
      <3>3. CASE d = Today /\ HourOver'
        <4>1. HourOfDay(now)' = HourOfDay(now) + 1  BY <1>2, <1>3, <1>10
        <4>2. HourOfDay(now)' > DailyHour
          BY <1>1, <3>3 DEF HourOver
        <4>3. HourOfDay(now) >= DailyHour  BY <1>2, <4>1, <4>2, CadenceAssumption
        <4>4. HourOfDay(now) = DailyHour => passed  BY <1>1, <3>1, <3>3
        <4>5. HourOver  BY <1>2, <4>3, <4>4, CadenceAssumption DEF HourOver
        <4> QED  BY <3>1, <3>3, <4>5 DEF FloorInv, DaySettled
      <3> QED  BY <3>2, <3>3
    <2> QED  BY <1>8, <1>9, <2>1, <2>2, <2>3 DEF FloorInv
  <1>11. CASE Today' = Today + 1
    <2>1. floors'[Today'] = 0
      BY <1>1, <1>2, <1>4, <1>11 DEF FloorInv, FloorOnce
    <2>2. FloorRow'
      <3>1. floorAt' # None => HourOfDay(floorAt') = DailyHour
        BY <1>1 DEF FloorInv, FloorRow
      <3>2. floorAt' # None => Day(floorAt') # Today'
        BY <1>1, <1>2, <1>6, <1>11
      <3> QED  BY <2>1, <3>1, <3>2 DEF FloorRow
    <2>3. DateKnown'
      <3>1. up => lastDate <= Today  BY DEF FloorInv, DateKnown
      <3>2. lastDate \in Nat \cup {-1}
        BY <1>2 DEF FloorInv, FloorTypes, None
      <3>3. up' => lastDate' < Today'
        BY <1>1, <1>2, <1>11, <3>1, <3>2
      <3>4. lastDate' \in Int /\ Today' \in Int  BY <1>1, <1>2, <1>11, <3>2
      <3> QED  BY <2>1, <3>3, <3>4 DEF DateKnown
    <2>4. DaySettled'
      <3>1. HourOfDay(now)' = 0  BY <1>2, <1>3, <1>11
      <3>2. ~HourOver'  BY <1>1, <3>1, CadenceAssumption DEF HourOver
      <3>3. \A d \in Days : d < Today' => d <= Today
        BY <1>2, <1>11
      <3> QED  BY <1>1, <1>2, <1>7, <1>11, <3>2, <3>3 DEF DaySettled
    <2> QED  BY <1>8, <1>9, <2>2, <2>3, <2>4 DEF FloorInv
  <1> QED  BY <1>3, <1>10, <1>11

LEMMA FloorNext == CadenceInv /\ FloorInv /\ [Next]_vars => FloorInv'
  <1> SUFFICES ASSUME CadenceInv, FloorInv, [Next]_vars  PROVE FloorInv'
    OBVIOUS
  <1>1. ASSUME NEW p \in Prices, NEW e \in Evidences, Tick(p, e)  PROVE FloorInv'
    BY <1>1, TickFloor
  <1>2. CASE Settle
    <2>1. SameCalls /\ lastDate' = lastDate /\ up' = up /\ passed' = passed
      BY <1>2 DEF Settle, SameCalls, memory, history
    <2> QED  BY <2>1, SameMemoryFloor
  <1>3. CASE EvaluateGate
    <2>1. SameCalls /\ lastDate' = lastDate /\ up' = up /\ passed' = passed
      BY <1>3 DEF EvaluateGate, SameCalls, memory
    <2> QED  BY <2>1, SameMemoryFloor
  <1>4. CASE LoopPass  BY <1>4, PassFloor
  <1>5. CASE Manual
    <2>1. SameCalls /\ lastDate' = lastDate /\ up' = up /\ passed' = passed
      BY <1>5, OtherCycle DEF Manual
    <2> QED  BY <2>1, SameMemoryFloor
  <1>6. CASE Stop
    <2>1. SameCalls /\ lastDate' = None /\ up' = FALSE /\ passed' = FALSE
      BY <1>6 DEF Stop, SameCalls, history
    <2>2. DateKnown'  BY <2>1 DEF DateKnown
    <2>3. Today' = Today /\ (HourOver' => HourOver)
      BY <2>1 DEF SameCalls, Today, HourOver
    <2>4. DaySettled'  BY <2>1, <2>3 DEF FloorInv, DaySettled, SameCalls
    <2> QED  BY <2>1, <2>2, <2>4, SameCallsFloor
  <1>7. CASE Start  BY <1>7, StartFloor
  <1>8. CASE UNCHANGED vars
    <2>1. SameCalls /\ lastDate' = lastDate /\ up' = up /\ passed' = passed
      BY <1>8 DEF vars, SameCalls, memory, history
    <2> QED  BY <2>1, SameMemoryFloor
  <1> QED  BY <1>1, <1>2, <1>3, <1>4, <1>5, <1>6, <1>7, <1>8 DEF Next

\* However often the process restarts, a day has at most one recorded scheduled
\* call, and exactly one once it is over unless the call was taken or the process
\* was down: for every length of the day and every daily hour
\* (scheduler.should_run_magi, the seed of last_scheduled_date).
THEOREM FloorCalledOnce == Spec => []OneFloorCallPerDay
  <1>1. Spec => [](CadenceInv /\ FloorInv)
    BY CadenceInit, CadenceNext, FloorInit, FloorNext, PTL DEF Spec
  <1>2. FloorInv => OneFloorCallPerDay
    BY DEF FloorInv, FloorOnce, DaySettled, OneFloorCallPerDay, Today
  <1> QED  BY <1>1, <1>2, PTL
=============================================================================

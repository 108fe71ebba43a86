---------------------------- MODULE GateTriggers ----------------------------
(***************************************************************************)
(* magi/gate.py: the triggers, the edge state they keep in the *_eval rows *)
(* and the two evaluators that share it: the monitor's thread and the      *)
(* scheduler's main thread, which evaluates the gate when no row has       *)
(* landed for two hours (the dead-man's switch of observer.poll_cycle) and,*)
(* live, the book triggers after every reconciliation.                     *)
(*                                                                         *)
(* A first INSERT takes SQLite's write lock until the commit: everything   *)
(* read after it belongs to one atomic step, everything read before it is  *)
(* in `seen' and may be stale.                                             *)
(*                                                                         *)
(* A world is all the gate reads: the hourly bars (oldest first), the grid,*)
(* the indicators as <<now, before>>, the fills, the book, the skew at the *)
(* last rebuild and now, the down-walk streak and the warehouse verdict.   *)
(* Prices and percentages are integers, spacings are basis points.         *)
(*                                                                         *)
(* PriorBeforeLock and NeverSilent are faulty variants, for the mutant     *)
(* runs.                                                                   *)
(***************************************************************************)
EXTENDS SpacingScorer

CONSTANTS
    Worlds,     \* the worlds the gate may read
    Start,      \* the first of them
    Modes,      \* engines to run: TRUE is live, FALSE is paper
    CapStreak,  \* DOWN_WALK_CAP_STREAK
    MaxQuiet,   \* bound: hours counted since the last row
    Evaluations,\* bound: evaluations of the monitor's thread, which then is dead
    Moves,      \* bound: changes of the world
    GateFaults  \* bound: evaluations, scorers, reads and prices that fail

ASSUME GateAssumption ==
    /\ Start \in Worlds /\ Modes \subseteq BOOLEAN
    /\ MaxQuiet \in Nat /\ MaxQuiet > 2
    /\ Evaluations \in Nat /\ Moves \in Nat /\ GateFaults \in Nat

VARIABLES
    live,    \* not engine.paper
    world,   \* what the database, the exchange and the warehouse say now
    evals,   \* the newest *_eval rows
    fired,   \* triggers whose row fired in the last transaction
    heard,   \* history: the cap as the fired W2 rows tell it
    at,      \* where each evaluator is
    seen,    \* what it read before its lock
    quiet,   \* hours since the last row of magi_gate_events
    alive,   \* evaluations the monitor's thread still lives for
    moves,
    faults

gateVars == <<live, world, evals, fired, heard, at, seen, quiet, alive, moves, faults>>

Threads == {"monitor", "poll"}

-----------------------------------------------------------------------------
(***************************************************************************)
(* The triggers without memory.                                            *)
(***************************************************************************)
Distance(a, b) == IF a < b THEN b - a ELSE a - b
\* max(1, levels // 2): arms of a side.
Pairs(w) == IF w.levels < 4 THEN 1 ELSE w.levels \div 2

Closes(w) == [i \in 1..Len(w.bars) |-> w.bars[i].close]
\* The last two closes, newest first.
LastTwo(w) == [i \in 1..Least(2, Len(w.bars)) |-> w.bars[Len(w.bars) + 1 - i].close]

\* T1: the last two closes are more than 3 % apart.
VelocitySpike(w) ==
    /\ Len(w.bars) > 1
    /\ LET last == LastTwo(w) IN 100 * Distance(last[1], last[2]) > 3 * last[2]

\* T2: the last two closes lie outside the grid, on the same side.
Above(w, c) == 10000 * c > w.centre * (10000 + Pairs(w) * w.spacing)
Below(w, c) == 10000 * c < w.centre * (10000 - Pairs(w) * w.spacing)
GridBreach(w) ==
    /\ w.centre # None /\ Len(w.bars) > 1
    /\ \/ \A i \in 1..2 : Above(w, LastTwo(w)[i])
       \/ \A i \in 1..2 : Below(w, LastTwo(w)[i])

\* T3: the last bar spans four lines of the grid.
Crossed(w) ==
    {i \in -Pairs(w)..Pairs(w) : LET line == w.centre * (10000 + i * w.spacing)
                                     bar  == w.bars[Len(w.bars)]
                                 IN  10000 * bar.low <= line /\ line <= 10000 * bar.high}
RapidTraversal(w) ==
    w.centre # None /\ w.bars # <<>> /\ Cardinality(Crossed(w)) >= 4

\* T16: the close is a whole band below the high of seven days.
Peak(w) == FoldLeft(Most, 0, [i \in 1..Len(w.bars) |-> w.bars[i].high])
DrawdownRung(w) ==
    /\ w.centre # None /\ w.bars # <<>>
    /\ LET close == LastTwo(w)[1]
       IN  (10000 * Most(Peak(w) - close, 0)) \div (Peak(w) * 2 * Pairs(w) * w.spacing) >= 1

\* T11, T12, T13 compare the two newest rows of the indicators.
RegimeTransition(w) == Len(w.regime) = 2 /\ w.regime[1] # w.regime[2]
AdxCross(w) ==
    /\ Len(w.adx) = 2
    /\ \/ w.adx[2] <= 25 /\ 25 < w.adx[1]
       \/ w.adx[2] >= 20 /\ 20 > w.adx[1]
VwapCross(w) ==
    /\ Len(w.vwap) = 2
    /\ \/ w.vwap[2] <= 1 /\ 1 < w.vwap[1]
       \/ w.vwap[2] >= -1 /\ -1 > w.vwap[1]

-----------------------------------------------------------------------------
(***************************************************************************)
(* The triggers with memory: prior is what an *_eval row says.             *)
(***************************************************************************)
\* _hours_since_last_fill: of the fills of the current run, newest first.
IdleHours(w) ==
    LET mine == SelectSeq(w.fills, LAMBDA f : f.inScope)
    IN  IF mine = <<>> THEN None ELSE mine[1].hours

\* _compute_scorer_state, on the candles and the grid of a world.
Score ==
    [w \in Worlds |->
        ScorerState(Closes(w), [levels |-> w.levels, spacing |-> w.spacing])]

\* T4: the first evaluation after 24 hours without a fill.
FillDrought(prior, idle) ==
    prior # None /\ idle # None /\ prior <= 24 /\ idle > 24

\* T6: the best variant beats the deployed one by half, for three evaluations.
\* Rows without a best variant are skipped by the reader of the history.
ScorerImprovement(s, history) ==
    LET ranks == SelectSeq(history, LAMBDA r : r # None)
    IN  /\ s.rank1 # None /\ s.deployed # None
        /\ IF s.deployed > 0 THEN 2 * s.gain >= 3 * s.deployed ELSE s.gain > 0
        /\ Len(ranks) = 2 /\ \A i \in 1..2 : ranks[i] = s.rank1

\* T7: an acceptable variant where the evaluation before had none.
AcceptabilityReturned(prior, acceptable) ==
    prior # None /\ ~prior /\ acceptable

\* T14: one side of the book became empty.
OneSided(w) == (w.buys = 0) # (w.sells = 0)
BookOneSided(prior, w) == OneSided(w) /\ prior # TRUE

\* T15: the skew drifted more than 10 points from the last rebuild.
SkewBreached(w) == w.skewThen # None /\ Distance(w.skewNow, w.skewThen) > 10
SkewDrift(prior, w) == SkewBreached(w) /\ prior # TRUE

\* W2: the verdict or the cap is not what the last W2_eval row says; a
\* missing verdict is no evidence.
CapEngaged(w) == w.streak >= CapStreak
VerdictShifted(prior, now) ==
    prior.verdict # None /\ now.verdict # None /\ prior.verdict # now.verdict
CapShifted(prior, now) == prior # None /\ prior.cap # now.cap
StanceShift(prior, now) ==
    prior # None /\ (CapShifted(prior, now) \/ VerdictShifted(prior, now))

-----------------------------------------------------------------------------
\* An empty database: no row of any kind, and the W2 row the first evaluation
\* will seed.
NothingSeen == [world |-> None, t4 |-> None, t14 |-> None, w2 |-> None]
GateInit ==
    /\ live \in Modes
    /\ world = Start
    /\ evals = [t4 |-> None, t6 |-> <<>>, t7 |-> None, t14 |-> None, t15 |-> None, w2 |-> None]
    /\ fired = {} /\ heard = None
    /\ at = [t \in Threads |-> "idle"]
    /\ seen = [t \in Threads |-> NothingSeen]
    /\ quiet = 0 /\ alive = Evaluations /\ moves = 0 /\ faults = 0

Latest(n, s) == SubSeq(s, 1, IF Len(s) < n THEN Len(s) ELSE n)
Fault(happens) ==
    /\ happens => faults < GateFaults
    /\ faults' = IF happens THEN faults + 1 ELSE faults

\* evaluate_gate and evaluate_book_state_triggers return.
Back(t) == IF at[t] = "last" THEN "idle" ELSE IF t = "poll" THEN "polled" ELSE "idle"
Return(t) ==
    /\ at' = [at EXCEPT ![t] = Back(t)]
    /\ seen' = [seen EXCEPT ![t] = NothingSeen]

(***************************************************************************)
(* evaluate_gate.                                                          *)
(***************************************************************************)
\* Everything read before the T4_eval row: candles, indicators, grid, hours
\* since the last fill and the hours the last T4_eval row recorded.
GateRead(t) ==
    /\ at' = [at EXCEPT ![t] = "read"]
    /\ seen' = [seen EXCEPT ![t] =
                  [world |-> world, t4 |-> evals.t4, t14 |-> None, w2 |-> evals.w2]]
    /\ UNCHANGED <<live, world, evals, fired, heard, quiet, moves, faults>>

\* _prior_w2_state, read under the lock that the T4_eval row took.
PriorBeforeLock(t) == seen[t].w2
Prior(t) == evals.w2

\* The rows of one evaluation.  A scorer that raises leaves no T6_eval and no
\* T7_eval row; a cap that cannot be read counts as released.
GateRows(t, scored, readable) ==
    LET w     == seen[t].world
        now   == [verdict |-> world.verdict, cap |-> readable /\ CapEngaged(world)]
        score == Score[world]
        rows  == {r \in {<<"T1", VelocitySpike(w)>>, <<"T2", GridBreach(w)>>,
                        <<"W1", GridBreach(w)>>, <<"T3", RapidTraversal(w)>>,
                        <<"T4", FillDrought(seen[t].t4, IdleHours(w))>>,
                        <<"T6", scored /\ ScorerImprovement(score, evals.t6)>>,
                        <<"T7", scored /\ AcceptabilityReturned(evals.t7, score.acceptable)>>,
                        <<"T11", RegimeTransition(w)>>, <<"T12", AdxCross(w)>>,
                        <<"T13", VwapCross(w)>>, <<"T16", DrawdownRung(w)>>,
                        <<"W2", StanceShift(Prior(t), now)>>} : r[2]}
    IN  /\ fired' = {r[1] : r \in rows}
        /\ evals' = [evals EXCEPT
                       !.t4 = IdleHours(w),
                       !.t6 = IF scored THEN Latest(2, <<score.rank1>> \o @) ELSE @,
                       !.t7 = IF scored THEN score.acceptable ELSE @,
                       !.w2 = now]
        /\ heard' = IF Prior(t) = None THEN now.cap
                    ELSE IF CapShifted(Prior(t), now) THEN ~heard ELSE heard

GateCommit(t) ==
    /\ at[t] = "read"
    /\ \E scored, readable \in BOOLEAN :
          /\ scored \/ readable
          /\ Fault(~(scored /\ readable))
          /\ GateRows(t, scored, readable)
    /\ at' = [at EXCEPT ![t] = "written"]
    /\ quiet' = 0
    /\ UNCHANGED <<live, world, seen, alive, moves>>

(***************************************************************************)
(* evaluate_book_state_triggers.                                           *)
(***************************************************************************)
\* Counts, skew and the prior of T14 are read before the T14_eval row.
BookRead(t, next) ==
    /\ at' = [at EXCEPT ![t] = next]
    /\ seen' = [seen EXCEPT ![t] =
                  [world |-> world, t4 |-> None, t14 |-> evals.t14, w2 |-> None]]
    /\ UNCHANGED <<live, world, evals, fired, heard, quiet, moves, faults>>

\* The flags of the newest T14_eval and T15_eval rows; the second is read under
\* the lock.
PriorOneSided(t) == seen[t].t14
PriorBreached == evals.t15
BookAfterGate(t) == at[t] = "written" /\ BookRead(t, "book") /\ alive' = alive

BookCommit(t) ==
    /\ at[t] \in {"book", "last"}
    /\ LET w == seen[t].world
       IN  /\ evals' = [evals EXCEPT !.t14 = OneSided(w), !.t15 = SkewBreached(w)]
           /\ fired' = (IF BookOneSided(PriorOneSided(t), w) THEN {"T14"} ELSE {})
                       \cup (IF SkewDrift(PriorBreached, w) THEN {"T15"} ELSE {})
    /\ quiet' = 0
    /\ Return(t)
    /\ UNCHANGED <<live, world, heard, alive, moves, faults>>

\* A row that cannot be written rolls the evaluation back.
Rollback(t) ==
    /\ at[t] \in {"read", "book", "last"}
    /\ Fault(TRUE)
    /\ Return(t)
    /\ UNCHANGED <<live, world, evals, fired, heard, quiet, alive, moves>>

-----------------------------------------------------------------------------
(***************************************************************************)
(* The two evaluators.                                                     *)
(***************************************************************************)
\* An hour closed, or the REST thread brought one.
MonitorEvaluates ==
    /\ alive > 0 /\ at["monitor"] = "idle"
    /\ GateRead("monitor")
    /\ alive' = alive - 1

\* The thread is gone, with what it was doing.
MonitorDies ==
    /\ alive > 0 \/ at["monitor"] # "idle"
    /\ alive' = 0
    /\ at' = [at EXCEPT !["monitor"] = "idle"]
    /\ seen' = [seen EXCEPT !["monitor"] = NothingSeen]
    /\ UNCHANGED <<live, world, evals, fired, heard, quiet, moves, faults>>

\* An hour passes and the next observer cycle begins.
Hourly ==
    /\ at["poll"] = "idle"
    /\ at' = [at EXCEPT !["poll"] = "due"]
    /\ quiet' = IF quiet < MaxQuiet THEN quiet + 1 ELSE quiet
    /\ UNCHANGED <<live, world, evals, fired, heard, seen, alive, moves, faults>>

\* The dead-man's switch of poll_cycle: any row of the last two hours will do,
\* and an empty table is silent.
NoRow == evals.t14 = None /\ evals.w2 = None
NeverSilent == quiet > 24
Silent == NoRow \/ quiet > 2
PollEvaluates == at["poll"] = "due" /\ Silent /\ GateRead("poll") /\ alive' = alive
PollRelies ==
    /\ at["poll"] = "due" /\ ~Silent
    /\ at' = [at EXCEPT !["poll"] = "polled"]
    /\ UNCHANGED <<live, world, evals, fired, heard, seen, quiet, alive, moves, faults>>

\* run_observer_cycle after poll_cycle: live, the book triggers, unless the
\* exchange has no price; nothing in paper.
LiveBookCheck == live /\ at["poll"] = "polled" /\ BookRead("poll", "last") /\ alive' = alive
ObserverEnds ==
    /\ at["poll"] = "polled"
    /\ Fault(live)
    /\ at' = [at EXCEPT !["poll"] = "idle"]
    /\ UNCHANGED <<live, world, evals, fired, heard, seen, quiet, alive, moves>>

\* The engine, the market and the collector go on.
WorldMoves ==
    /\ moves < Moves /\ moves' = moves + 1
    /\ world' \in Worlds \ {world}
    /\ UNCHANGED <<live, evals, fired, heard, at, seen, quiet, alive, faults>>

Evaluating(t) == GateCommit(t) \/ BookAfterGate(t) \/ BookCommit(t)
Polling == Hourly \/ PollEvaluates \/ PollRelies \/ LiveBookCheck \/ ObserverEnds
GateNext ==
    \/ \E t \in Threads : Evaluating(t) \/ Rollback(t)
    \/ MonitorEvaluates \/ MonitorDies \/ Polling \/ WorldMoves

GateSpec ==
    /\ GateInit /\ [][GateNext]_gateVars
    /\ WF_gateVars(Polling) /\ WF_gateVars(Evaluating("poll"))

-----------------------------------------------------------------------------
(***************************************************************************)
(* Properties.                                                             *)
(***************************************************************************)
\* Who reads only the fired W2 rows knows the cap as the last evaluation did:
\* engaged and released alternate, although two threads evaluate
\* (w2_stance_evidence_shift, "fires once, not hourly").
CapStoryHolds == evals.w2 # None => heard = evals.w2.cap

\* The fired rows catch up with the cap again and again, whatever it does and
\* whichever evaluation failed.
Told == []<>(heard = CapEngaged(world))

\* In paper the observer's poll sees to it when the monitor's thread is dead
\* (observer.py:1191-1209).
ShiftTold == ~live => Told

\* scheduler.py:823-827 says so of either mode: "W-wakes survive a dead monitor".
WakesSurvive == Told
=============================================================================

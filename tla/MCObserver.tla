----------------------------- MODULE MCObserver -----------------------------
(***************************************************************************)
(* An instance of what an observer cycle does beside the fills themselves: *)
(* the gate, the scores, the round trips and the shadow grids; and the     *)
(* alerts of the council's cycles.  They share no row, so a behaviour is   *)
(* one of a part, and the run checks them side by side.                    *)
(***************************************************************************)
EXTENDS GateTriggers, FifoMatch, OutcomeScores, ShadowGrid, AlertLedger

CONSTANTS Parts
VARIABLE part

observed == <<part, gateVars, pnlVars, scoreVars, shadowVars, alertVars>>

Bar(low, high, close) == [low |-> low, high |-> high, close |-> close]
Grids == {[levels |-> 5, spacing |-> s] : s \in {75, 150, 250}}

\* Swings inside a tight grid; a fall through a wide one, the book one-sided,
\* the cap engaged; the same with the cap released and no warehouse; nothing.
Calm ==
    [bars |-> <<Bar(99, 101, 100), Bar(94, 100, 95), Bar(95, 101, 100), Bar(99, 101, 100)>>,
     centre |-> 100, levels |-> 5, spacing |-> 150, regime |-> <<"LOW", "LOW">>,
     adx |-> <<22, 22>>, vwap |-> <<0, 0>>, fills |-> <<[inScope |-> TRUE, hours |-> 1]>>,
     buys |-> 2, sells |-> 2, skewThen |-> 50, skewNow |-> 50, verdict |-> "green", streak |-> 0]
Fall ==
    [Calm EXCEPT !.bars = <<Bar(99, 101, 100), Bar(94, 100, 95), Bar(88, 95, 89)>>,
                 !.regime = <<"HIGH", "LOW">>, !.adx = <<30, 22>>, !.vwap = <<-2, 0>>,
                 !.fills = <<[inScope |-> FALSE, hours |-> 2], [inScope |-> TRUE, hours |-> 25]>>,
                 !.buys = 0, !.skewNow = 70, !.streak = 2]
Drained == [Calm EXCEPT !.buys = 0, !.verdict = None, !.regime = <<"LOW", "HIGH">>]
Empty ==
    [Calm EXCEPT !.bars = <<>>, !.centre = None, !.regime = <<>>, !.adx = <<>>, !.vwap = <<>>,
                 !.fills = <<>>, !.buys = 0, !.sells = 0, !.skewThen = None, !.skewNow = None,
                 !.verdict = None]
MCWorlds == {Calm, Fall, Drained, Empty}

MCVotes ==
    <<[casper |-> "vote", melchior |-> "RECONFIGURE", balthasar |-> "clear", stance |-> "none"],
      [casper |-> "vote", melchior |-> "THESIS_HOLDS", balthasar |-> "veto", stance |-> "DEPLOY"],
      [casper |-> "silent", melchior |-> "RECONFIGURE", balthasar |-> "clear", stance |-> "HOLD"]>>
MCWindows == <<"6h">>

MCShadowLevels == <<2, 4>>
MCGrounds == {[centre |-> 100, spacing |-> 25], [centre |-> 110, spacing |-> 10]}

Init ==
    /\ part \in Parts
    /\ GateInit /\ PnlInit /\ ScoreInit /\ ShadowInit /\ AlertInit
    /\ part # "gate" => ~live

Gate(A) ==
    part = "gate" /\ A /\ UNCHANGED <<part, pnlVars, scoreVars, shadowVars, alertVars>>
Pnl(A) ==
    part = "pnl" /\ A /\ UNCHANGED <<part, gateVars, scoreVars, shadowVars, alertVars>>
Mirror(A) ==
    part = "scores" /\ A /\ UNCHANGED <<part, gateVars, pnlVars, shadowVars, alertVars>>
Shadow(A) ==
    part = "shadow" /\ A /\ UNCHANGED <<part, gateVars, pnlVars, scoreVars, alertVars>>
Alarm(A) ==
    part = "alerts" /\ A /\ UNCHANGED <<part, gateVars, pnlVars, scoreVars, shadowVars>>
Next ==
    \/ \E t \in Threads :
          \/ Gate(GateCommit(t)) \/ Gate(BookAfterGate(t))
          \/ Gate(BookCommit(t)) \/ Gate(Rollback(t))
    \/ Gate(MonitorEvaluates) \/ Gate(MonitorDies) \/ Gate(WorldMoves)
    \/ Gate(Hourly) \/ Gate(PollEvaluates) \/ Gate(PollRelies)
    \/ Gate(LiveBookCheck) \/ Gate(ObserverEnds)
    \/ Pnl(OrderFilled) \/ Pnl(PaperRun) \/ Pnl(LiveAgain)
    \/ Mirror(BackfillOutcomes) \/ Mirror(GradeStances) \/ Mirror(SelectRows)
    \/ Mirror(SkipRow) \/ Mirror(PushTraceScores) \/ Mirror(Receipt)
    \/ Mirror(SweepEnds) \/ Mirror(Crash) \/ Mirror(Ages)
    \/ Mirror(EffectsDone) \/ Mirror(PushEffects) \/ Mirror(EffectsReceipt) \/ Mirror(NewDay)
    \/ Shadow(ShadowTick) \/ Shadow(PaperFillsSave) \/ Shadow(LiveRebuild)
    \/ Shadow(SwitchLevelCount) \/ Shadow(LoadState) \/ Shadow(HourPasses)
    \/ Alarm(CheckDegradation) \/ Alarm(RaiseDegradation) \/ Alarm(PersistTier)
    \/ Alarm(OperatorResolves) \/ Alarm(AlertRestart) \/ Alarm(AlertTick)

Spec ==
    /\ Init /\ [][Next]_observed
    /\ WF_observed(Gate(Polling)) /\ WF_observed(Gate(Evaluating("poll")))
    /\ WF_observed(Mirror(Pass)) /\ WF_observed(Mirror(Ages))

\* ShiftTold and Delivered, where their part is the one that runs.
CapShiftTold == part = "gate" => ShiftTold
EveryScoreDelivered == part = "scores" => Delivered
=============================================================================

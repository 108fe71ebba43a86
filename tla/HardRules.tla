------------------------------ MODULE HardRules ------------------------------
(***************************************************************************)
(* The deterministic layer between the council and the engine:             *)
(* magi/orchestrator.py, enforce_hard_rules.  A ladder of rules rewrites   *)
(* the council's consensus; a later rule may overwrite an earlier one.     *)
(*                                                                         *)
(* Each rule is an operator from the facts of the cycle and a decision     *)
(* record to a decision record, and EnforceHardRules is their composition  *)
(* in the order of the source.  Ratios are percentages, ages are hours.    *)
(*                                                                         *)
(* StoppedByPause, MayForceCapped, FloorOrdered and ThinPauseOfLongs are   *)
(* faulty variants of the definition after them, for the mutant runs.      *)
(***************************************************************************)
EXTENDS Integers

(***************************************************************************)
(* HARD_RULES and the literals of the rules.                               *)
(***************************************************************************)
MaxAllocationSkew == 85
MinUsdBuffer      == 10
MinXrpBufferUsd   == 10

GridActions == {"MAINTAIN", "RECENTRE", "GRID_PAUSE", "HALT"}
RiskActions == {"CLEAR", "PAUSE_LONGS", "PAUSE_SHORTS", "HALT"}
Pauses      == {"PAUSE_LONGS", "PAUSE_SHORTS"}
Verdicts    == {"THESIS_HOLDS", "RECONFIGURE", "NO_PROFITABLE_GRID"}
Mandates    == {"DEPLOY", "HOLD", "STAND_ASIDE"}
Stances     == Mandates \cup {"NONE", "GARBAGE"}
Sources     == {"unchanged", "agent", "scorer_fallback"}
Tags == {"NO_PROFITABLE_GRID", "STANCE_HOLD", "STANCE_STAND_ASIDE",
         "AGENT_DEGRADED", "COUNCIL_COLLAPSED", "GRID_HEALTHY_NO_RECENTRE",
         "RECENTRE_COOLDOWN", "RECENT_POSITION_HOLD", "KILL_SWITCH",
         "DAILY_LOSS_LIMIT", "ALLOC_SKEW_CEILING", "USD_BUFFER_FLOOR",
         "XRP_BUFFER_FLOOR", "GRID_DEGENERATE", "PAUSE_INVALID",
         "GEOMETRY_INJECTED_FROM_SCORER", "NO_ACCEPTABLE_VARIANT"}

\* What the council hands over: its post-veto verdict, the arbiter's stance and
\* risk vote, and whether Melchior emitted a usable spacing and level count.
Votes == [verdict : Verdicts, stance : Stances, risk : RiskActions,
          geometry : BOOLEAN]

\* What the rules read from the world state, the database and the file system.
\*   inBand      drift from the centre is known and below one spacing
\*   sinceBuild  hours since the last "Grid initialised" row, capped at 5
\*   sinceFill   hours since the last fill, capped at 25
\*   closing     a profitable close of the open round trip is near
\*   degraded    agents on their safe defaults in both of the last two cycles
Facts == [buys : Nat, sells : Nat, skew : Int, usd : Int, xrpValue : Int,
          inBand : BOOLEAN, sinceBuild : Nat, sinceFill : Nat,
          closing : BOOLEAN, degraded : 0..3, killed : BOOLEAN,
          lossTripped : BOOLEAN, capEngaged : BOOLEAN, scorerOk : BOOLEAN]

Decisions == [grid : GridActions, risk : RiskActions, stance : Stances,
              tags : SUBSET Tags, source : Sources]

-----------------------------------------------------------------------------
Abs(n)      == IF n < 0 THEN -n ELSE n
Bilateral(f) == f.buys >= 1 /\ f.sells >= 1
Tagged(c, tag) == [c EXCEPT !.tags = @ \cup {tag}]

\* A block of the rebuild also drops a pause, so that the book stays whole.
BlockRebuild(c, tag) ==
    [Tagged(c, tag) EXCEPT !.grid = "MAINTAIN",
                           !.risk = IF @ \in Pauses THEN "CLEAR" ELSE @]

Halted(c, tag) == [Tagged(c, tag) EXCEPT !.grid = "HALT", !.risk = "HALT"]

\* Verdict to grid action.
Translate(v) ==
    [grid   |-> CASE v.verdict = "THESIS_HOLDS"       -> "MAINTAIN"
                  [] v.verdict = "RECONFIGURE"        -> "RECENTRE"
                  [] v.verdict = "NO_PROFITABLE_GRID" -> "GRID_PAUSE",
     risk   |-> v.risk,
     stance |-> IF v.stance = "GARBAGE" THEN "HOLD" ELSE v.stance,
     tags   |-> IF v.verdict = "NO_PROFITABLE_GRID"
                THEN {"NO_PROFITABLE_GRID"} ELSE {},
     source |-> "unchanged"]

\* The stance mandate: HOLD blocks a rebuild, STAND_ASIDE also freezes buys.
NoRebuild(c) == [c EXCEPT !.grid = IF @ = "RECENTRE" THEN "MAINTAIN" ELSE @]
StanceMandate(c) ==
    CASE c.stance = "HOLD" /\ c.grid = "RECENTRE" ->
             NoRebuild(Tagged(c, "STANCE_HOLD"))
      [] c.stance = "STAND_ASIDE" ->
             [NoRebuild(Tagged(c, "STANCE_STAND_ASIDE")) EXCEPT
                 !.risk = IF @ = "HALT" THEN @ ELSE "PAUSE_LONGS"]
      [] OTHER -> c

\* Rule -1.  One degraded agent freezes the grid, two or more halt it.
CouncilDegradation(f, c) ==
    CASE f.degraded = 0 -> c
      [] f.degraded = 1 -> [Tagged(c, "AGENT_DEGRADED") EXCEPT
                               !.grid = "MAINTAIN", !.risk = "CLEAR"]
      [] OTHER          -> Halted(c, "COUNCIL_COLLAPSED")

\* Rules 0a, 0b and 0c each block a rebuild that is still on.
HealthyNoRecentre(f, c) ==
    IF c.grid = "RECENTRE" /\ Bilateral(f) /\ f.inBand
    THEN BlockRebuild(c, "GRID_HEALTHY_NO_RECENTRE") ELSE c
RecentreCooldown(f, c) ==
    IF c.grid = "RECENTRE" /\ f.buys >= 3 /\ f.sells >= 2 /\ f.sinceBuild < 1
    THEN BlockRebuild(c, "RECENTRE_COOLDOWN") ELSE c
RecentPositionHold(f, c) ==
    IF /\ c.grid = "RECENTRE"
       /\ Bilateral(f) /\ f.sinceFill < 2 /\ Abs(f.skew) > 15 /\ f.closing
    THEN BlockRebuild(c, "RECENT_POSITION_HOLD") ELSE c

\* Rules 1, 2 and 3, the survival rules.
KillSwitch(f, c)  == IF f.killed THEN Halted(c, "KILL_SWITCH") ELSE c
DailyLoss(f, c)   == IF f.lossTripped THEN Halted(c, "DAILY_LOSS_LIMIT") ELSE c
SkewCeiling(f, c) == IF Abs(f.skew) > MaxAllocationSkew
                     THEN Halted(c, "ALLOC_SKEW_CEILING") ELSE c

\* Rules 4 and 5 upgrade CLEAR only, so the second never undoes the first.
UsdFloor(f, c) ==
    IF f.usd < MinUsdBuffer /\ c.risk = "CLEAR"
    THEN [Tagged(c, "USD_BUFFER_FLOOR") EXCEPT !.risk = "PAUSE_LONGS"] ELSE c
XrpFloor(f, c) ==
    IF f.xrpValue < MinXrpBufferUsd /\ c.risk = "CLEAR"
    THEN [Tagged(c, "XRP_BUFFER_FLOOR") EXCEPT !.risk = "PAUSE_SHORTS"] ELSE c

\* Rule 6.  A one-sided or long inactive book is rebuilt, unless the grid is
\* stopped, the council is degraded, its stance is not DEPLOY or the exposure
\* cap is engaged.
Degenerate(f) == \/ f.buys = 0
                 \/ f.sells = 0
                 \/ f.sinceFill > 24 /\ f.sinceBuild > 4
StoppedByPause(c) == c.grid = "GRID_PAUSE"
Stopped(c) == c.grid \in {"HALT", "GRID_PAUSE"} \/ c.risk = "HALT"
MayForceCapped(f, c) ==
    /\ c.tags \cap {"COUNCIL_COLLAPSED", "AGENT_DEGRADED"} = {}
    /\ c.stance \in {"NONE", "DEPLOY"}
MayForce(f, c) ==
    /\ c.tags \cap {"COUNCIL_COLLAPSED", "AGENT_DEGRADED"} = {}
    /\ c.stance \in {"NONE", "DEPLOY"}
    /\ ~f.capEngaged
GridDegenerate(f, c) ==
    IF ~Stopped(c) /\ MayForce(f, c) /\ Degenerate(f)
    THEN [Tagged(c, "GRID_DEGENERATE") EXCEPT
             !.grid = "RECENTRE",
             !.risk = IF @ \in Pauses THEN "CLEAR" ELSE @]
    ELSE c

\* Rule 7.  A pause is valid on a book and an allocation heavy on its side.
LongHeavy(f)  == f.buys >= 2 /\ 10 * (f.buys - f.sells) > 7 * (f.buys + f.sells)
                 /\ f.skew > 30
ShortHeavy(f) == f.sells >= 2 /\ 10 * (f.sells - f.buys) > 7 * (f.buys + f.sells)
                 /\ f.skew < -30
FloorOrdered(c) == c.tags \cap {"USD_BUFFER_FLOOR", "XRP_BUFFER_FLOOR"} # {}
PauseOrdered(c) == c.tags \cap {"USD_BUFFER_FLOOR", "XRP_BUFFER_FLOOR",
                                "STANCE_STAND_ASIDE"} # {}
ThinPauseOfLongs(f, c) == c.risk = "PAUSE_LONGS" /\ ~LongHeavy(f)
ThinPause(f, c) == \/ c.risk = "PAUSE_LONGS" /\ ~LongHeavy(f)
                   \/ c.risk = "PAUSE_SHORTS" /\ ~ShortHeavy(f)
PauseInvalid(f, c) ==
    IF c.grid # "HALT" /\ ~PauseOrdered(c) /\ ThinPause(f, c)
    THEN [Tagged(c, "PAUSE_INVALID") EXCEPT !.risk = "CLEAR"] ELSE c

\* Rule 8.  A rebuild takes the agent's geometry, else the scorer's rank 1,
\* else it becomes a stand-down.
GeometrySource(v, f, c) ==
    IF c.grid # "RECENTRE" THEN c
    ELSE IF v.geometry THEN [c EXCEPT !.source = "agent"]
    ELSE IF f.scorerOk
    THEN [Tagged(c, "GEOMETRY_INJECTED_FROM_SCORER") EXCEPT !.source = "scorer_fallback"]
    ELSE [Tagged(c, "NO_ACCEPTABLE_VARIANT") EXCEPT !.grid = "GRID_PAUSE"]

-----------------------------------------------------------------------------
\* The rules that trust the council, then the survival rules, the buffer floors
\* and the rules on the book.
CouncilRules(v, f) ==
    RecentPositionHold(f, RecentreCooldown(f, HealthyNoRecentre(f,
        CouncilDegradation(f, StanceMandate(Translate(v))))))
SurvivalRules(f, c) == SkewCeiling(f, DailyLoss(f, KillSwitch(f, c)))
FloorRules(f, c)    == XrpFloor(f, UsdFloor(f, c))
BookRules(f, c)     == PauseInvalid(f, GridDegenerate(f, c))

EnforceHardRules(v, f) ==
    GeometrySource(v, f,
        BookRules(f, FloorRules(f, SurvivalRules(f, CouncilRules(v, f)))))
=============================================================================

------------------------- MODULE CouncilCycleProofs -------------------------
(***************************************************************************)
(* The rules of the council and its cycle, for every vote, world, book and *)
(* gate event.                                                             *)
(*                                                                         *)
(* First what the ladder of enforce_hard_rules guarantees for every vote   *)
(* and every state of the world: one lemma for a rule, or for a group of   *)
(* rules, and their composition.                                           *)
(*                                                                         *)
(* Then the cycle: the promises of a decision hold because, from Decide to *)
(* Apply, the decision is the ladder's answer to the ballot and the facts  *)
(* of the cycle.  That, with the types, is the inductive invariant.        *)
(***************************************************************************)
EXTENDS CouncilCycle, FiniteSetTheorems, TLAPS

-----------------------------------------------------------------------------
(***************************************************************************)
(* Each rule maps a decision record to a decision record.                  *)
(***************************************************************************)
\* The council's verdict and stance become a decision record.
LEMMA TranslateType ==
    ASSUME NEW v \in Votes
    PROVE  StanceMandate(Translate(v)) \in Decisions
<1> DEFINE c == Translate(v)
<1>1. c \in Decisions
  BY DEF Translate, Votes, Decisions, GridActions, RiskActions, Stances, Mandates,
         Sources, Verdicts, Tags
<1>2. StanceMandate(c) \in Decisions
  BY <1>1 DEF StanceMandate, NoRebuild, Tagged, Decisions, GridActions, RiskActions,
              Tags
<1> QED
  BY <1>2

\* Rules -1, 0a, 0b and 0c keep a decision record one.
LEMMA CouncilRuleTypes ==
    ASSUME NEW f \in Facts, NEW c \in Decisions
    PROVE  /\ CouncilDegradation(f, c) \in Decisions
           /\ HealthyNoRecentre(f, c) \in Decisions
           /\ RecentreCooldown(f, c) \in Decisions
           /\ RecentPositionHold(f, c) \in Decisions
<1>1. CouncilDegradation(f, c) \in Decisions
  BY DEF CouncilDegradation, Halted, Tagged, Decisions, GridActions, RiskActions, Tags
<1>2. HealthyNoRecentre(f, c) \in Decisions
  BY DEF HealthyNoRecentre, BlockRebuild, Tagged, Decisions, GridActions, RiskActions, Tags
<1>3. RecentreCooldown(f, c) \in Decisions
  BY DEF RecentreCooldown, BlockRebuild, Tagged, Decisions, GridActions, RiskActions, Tags
<1>4. RecentPositionHold(f, c) \in Decisions
  BY DEF RecentPositionHold, BlockRebuild, Tagged, Decisions, GridActions, RiskActions, Tags
<1> QED
  BY <1>1, <1>2, <1>3, <1>4

\* So do the survival rules, the floors, rules 6 and 7, ...
LEMMA LaterRuleTypes ==
    ASSUME NEW f \in Facts, NEW c \in Decisions
    PROVE  /\ KillSwitch(f, c) \in Decisions
           /\ DailyLoss(f, c) \in Decisions
           /\ SkewCeiling(f, c) \in Decisions
           /\ UsdFloor(f, c) \in Decisions
           /\ XrpFloor(f, c) \in Decisions
           /\ GridDegenerate(f, c) \in Decisions
           /\ PauseInvalid(f, c) \in Decisions
<1>1. /\ KillSwitch(f, c) \in Decisions
      /\ DailyLoss(f, c) \in Decisions
      /\ SkewCeiling(f, c) \in Decisions
  BY DEF KillSwitch, DailyLoss, SkewCeiling, Halted, Tagged, Decisions, GridActions,
         RiskActions, Tags
<1>2. UsdFloor(f, c) \in Decisions /\ XrpFloor(f, c) \in Decisions
  BY DEF UsdFloor, XrpFloor, Tagged, Decisions, RiskActions, Tags
<1>3. GridDegenerate(f, c) \in Decisions
  BY DEF GridDegenerate, Tagged, Decisions, GridActions, RiskActions, Tags
<1>4. PauseInvalid(f, c) \in Decisions
  BY DEF PauseInvalid, Tagged, Decisions, RiskActions, Tags
<1> QED
  BY <1>1, <1>2, <1>3, <1>4

\* ... and rule 8.
LEMMA GeometryType ==
    ASSUME NEW v \in Votes, NEW f \in Facts, NEW c \in Decisions
    PROVE  GeometrySource(v, f, c) \in Decisions
BY DEF GeometrySource, Tagged, Decisions, GridActions, Sources, Tags

\* The groups of rules, composed.
LEMMA GroupTypes ==
    ASSUME NEW v \in Votes, NEW f \in Facts
    PROVE  /\ CouncilRules(v, f) \in Decisions
           /\ \A c \in Decisions : /\ SurvivalRules(f, c) \in Decisions
                                   /\ FloorRules(f, c) \in Decisions
                                   /\ BookRules(f, c) \in Decisions
<1>1. CouncilRules(v, f) \in Decisions
  BY TranslateType, CouncilRuleTypes DEF CouncilRules
<1>2. ASSUME NEW c \in Decisions
      PROVE  /\ SurvivalRules(f, c) \in Decisions
             /\ FloorRules(f, c) \in Decisions
             /\ BookRules(f, c) \in Decisions
  BY <1>2, LaterRuleTypes DEF SurvivalRules, FloorRules, BookRules
<1> QED
  BY <1>1, <1>2

\* The ladder returns a decision record whatever the council voted and whatever
\* the rules read: what the engine is handed is always one it knows.
THEOREM EnforceType ==
    ASSUME NEW v \in Votes, NEW f \in Facts
    PROVE  EnforceHardRules(v, f) \in Decisions
BY GroupTypes, GeometryType DEF EnforceHardRules

-----------------------------------------------------------------------------
(***************************************************************************)
(* A halt is final: no rule takes it back.                                 *)
(***************************************************************************)
IsHalt(c) == c.grid = "HALT" /\ c.risk = "HALT"

\* A council gone for two cycles is halted by rule -1, and rules 0a to 0c touch
\* rebuilds only.
LEMMA CollapseHalts ==
    ASSUME NEW v \in Votes, NEW f \in Facts, f.degraded >= 2
    PROVE  IsHalt(CouncilRules(v, f))
<1> DEFINE c1 == CouncilDegradation(f, StanceMandate(Translate(v)))
           c2 == HealthyNoRecentre(f, c1)
           c3 == RecentreCooldown(f, c2)
<1>1. StanceMandate(Translate(v)) \in Decisions
  BY TranslateType
<1>2. IsHalt(c1)
  BY <1>1 DEF CouncilDegradation, Halted, Tagged, IsHalt, Decisions, Facts
<1>3. c2 = c1
  BY <1>2 DEF HealthyNoRecentre, IsHalt
<1>4. c3 = c2
  BY <1>2, <1>3 DEF RecentreCooldown, IsHalt
<1>5. RecentPositionHold(f, c3) = c3
  BY <1>2, <1>3, <1>4 DEF RecentPositionHold, IsHalt
<1> QED
  BY <1>2, <1>3, <1>4, <1>5 DEF CouncilRules

\* The survival rules add halts and remove none; the kill switch, the loss limit
\* and the skew ceiling end in one.
LEMMA SurvivalKeepsHalt ==
    ASSUME NEW f \in Facts, NEW c \in Decisions,
           IsHalt(c) \/ f.killed \/ f.lossTripped \/ Abs(f.skew) > MaxAllocationSkew
    PROVE  IsHalt(SurvivalRules(f, c))
<1> DEFINE c1 == KillSwitch(f, c)
           c2 == DailyLoss(f, c1)
<1>1. c1 \in Decisions /\ c2 \in Decisions
  BY LaterRuleTypes
<1>2. IsHalt(c) \/ f.killed => IsHalt(c1)
  BY DEF KillSwitch, Halted, Tagged, IsHalt, Decisions
<1>3. IsHalt(c1) \/ f.lossTripped => IsHalt(c2)
  BY <1>1 DEF DailyLoss, Halted, Tagged, IsHalt, Decisions
<1>4. IsHalt(c2) \/ Abs(f.skew) > MaxAllocationSkew => IsHalt(SkewCeiling(f, c2))
  BY <1>1 DEF SkewCeiling, Halted, Tagged, IsHalt, Decisions
<1> QED
  BY <1>2, <1>3, <1>4 DEF SurvivalRules

\* Rules 4 to 8 leave a halt alone.
LEMMA LaterRulesKeepHalt ==
    ASSUME NEW v \in Votes, NEW f \in Facts, NEW c \in Decisions, IsHalt(c)
    PROVE  GeometrySource(v, f, BookRules(f, FloorRules(f, c))) = c
<1>1. FloorRules(f, c) = c
  BY DEF FloorRules, UsdFloor, XrpFloor, IsHalt
<1>2. BookRules(f, c) = c
  BY DEF BookRules, GridDegenerate, Stopped, PauseInvalid, IsHalt
<1>3. GeometrySource(v, f, c) = c
  BY DEF GeometrySource, IsHalt
<1> QED
  BY <1>1, <1>2, <1>3

\* Survival outranks the council and the book: the halt file, the day's loss, a
\* skew over the ceiling or a council gone for two cycles halt both actions, for
\* every vote and world.
THEOREM SurvivalOutranks ==
    ASSUME NEW v \in Votes, NEW f \in Facts,
           \/ f.killed \/ f.lossTripped
           \/ Abs(f.skew) > MaxAllocationSkew \/ f.degraded >= 2
    PROVE  IsHalt(EnforceHardRules(v, f))
<1> DEFINE c == CouncilRules(v, f)
           s == SurvivalRules(f, c)
<1>1. c \in Decisions /\ s \in Decisions
  BY GroupTypes
<1>2. f.degraded >= 2 => IsHalt(c)
  BY CollapseHalts
<1>3. IsHalt(s)
  BY <1>1, <1>2, SurvivalKeepsHalt
<1>4. EnforceHardRules(v, f) = s
  BY <1>1, <1>3, LaterRulesKeepHalt DEF EnforceHardRules
<1> QED
  BY <1>3, <1>4

-----------------------------------------------------------------------------
(***************************************************************************)
(* The mandate.  That no rebuild leaves the rules against it is not        *)
(* preserved by rule 6 alone: a NO_PROFITABLE_GRID has to stay stopped, or *)
(* be known as degraded, until rule 6 has passed.                          *)
(***************************************************************************)
Mandated(v, f, c) ==
    c.grid = "RECENTRE" => /\ c.stance \notin {"HOLD", "STAND_ASIDE"}
                           /\ "NO_PROFITABLE_GRID" \notin c.tags
                           /\ f.capEngaged => v.verdict = "RECONFIGURE"
StandDownKept(c) ==
    "NO_PROFITABLE_GRID" \in c.tags =>
        c.grid \in {"GRID_PAUSE", "HALT"} \/ "AGENT_DEGRADED" \in c.tags
MandateInv(v, f, c) == Mandated(v, f, c) /\ StandDownKept(c)

\* The translation and the stance establish it, ...
LEMMA MandateStart ==
    ASSUME NEW v \in Votes, NEW f \in Facts
    PROVE  MandateInv(v, f, StanceMandate(Translate(v)))
BY DEF MandateInv, Mandated, StandDownKept, StanceMandate, NoRebuild, Tagged,
       Translate, Votes, Verdicts, Stances, Mandates

\* ... rules -1 to 0c, ...
LEMMA MandateCouncilRules ==
    ASSUME NEW v \in Votes, NEW f \in Facts, NEW c \in Decisions, MandateInv(v, f, c)
    PROVE  /\ MandateInv(v, f, CouncilDegradation(f, c))
           /\ MandateInv(v, f, HealthyNoRecentre(f, c))
           /\ MandateInv(v, f, RecentreCooldown(f, c))
           /\ MandateInv(v, f, RecentPositionHold(f, c))
<1> USE DEF MandateInv, Mandated, StandDownKept, Tagged, Decisions
<1>1. MandateInv(v, f, CouncilDegradation(f, c))
  BY DEF CouncilDegradation, Halted
<1>2. MandateInv(v, f, HealthyNoRecentre(f, c))
  BY DEF HealthyNoRecentre, BlockRebuild
<1>3. MandateInv(v, f, RecentreCooldown(f, c))
  BY DEF RecentreCooldown, BlockRebuild
<1>4. MandateInv(v, f, RecentPositionHold(f, c))
  BY DEF RecentPositionHold, BlockRebuild
<1> QED
  BY <1>1, <1>2, <1>3, <1>4

\* ... the survival rules and the floors, ...
LEMMA MandateSurvival ==
    ASSUME NEW v \in Votes, NEW f \in Facts, NEW c \in Decisions, MandateInv(v, f, c)
    PROVE  /\ MandateInv(v, f, KillSwitch(f, c))
           /\ MandateInv(v, f, DailyLoss(f, c))
           /\ MandateInv(v, f, SkewCeiling(f, c))
           /\ MandateInv(v, f, UsdFloor(f, c))
           /\ MandateInv(v, f, XrpFloor(f, c))
<1> USE DEF MandateInv, Mandated, StandDownKept, Tagged, Decisions
<1>1. MandateInv(v, f, KillSwitch(f, c)) /\ MandateInv(v, f, DailyLoss(f, c))
  BY DEF KillSwitch, DailyLoss, Halted
<1>2. MandateInv(v, f, SkewCeiling(f, c))
  BY DEF SkewCeiling, Halted
<1>3. MandateInv(v, f, UsdFloor(f, c)) /\ MandateInv(v, f, XrpFloor(f, c))
  BY DEF UsdFloor, XrpFloor
<1> QED
  BY <1>1, <1>2, <1>3

\* ... and the rules on the book and the geometry keep it.
LEMMA MandateBookRules ==
    ASSUME NEW v \in Votes, NEW f \in Facts, NEW c \in Decisions, MandateInv(v, f, c)
    PROVE  /\ MandateInv(v, f, GridDegenerate(f, c))
           /\ MandateInv(v, f, PauseInvalid(f, c))
           /\ MandateInv(v, f, GeometrySource(v, f, c))
<1> USE DEF MandateInv, Mandated, StandDownKept, Tagged, Decisions
<1>1. MandateInv(v, f, GridDegenerate(f, c))
  BY DEF GridDegenerate, Stopped, MayForce
<1>2. MandateInv(v, f, PauseInvalid(f, c))
  BY DEF PauseInvalid
<1>3. MandateInv(v, f, GeometrySource(v, f, c))
  BY DEF GeometrySource
<1> QED
  BY <1>1, <1>2, <1>3

\* No rebuild leaves the rules under a HOLD or STAND_ASIDE stance or on a
\* NO_PROFITABLE_GRID verdict, and under an engaged exposure cap only one that
\* the council asked for: rule 6 cannot be what overrides the mandate.
THEOREM MandateHolds ==
    ASSUME NEW v \in Votes, NEW f \in Facts
    PROVE  Mandated(v, f, EnforceHardRules(v, f))
<1> DEFINE c0 == StanceMandate(Translate(v))
           c1 == CouncilDegradation(f, c0)
           c2 == HealthyNoRecentre(f, c1)
           c3 == RecentreCooldown(f, c2)
           c4 == RecentPositionHold(f, c3)
           c5 == KillSwitch(f, c4)
           c6 == DailyLoss(f, c5)
           c7 == SkewCeiling(f, c6)
           c8 == UsdFloor(f, c7)
           c9 == XrpFloor(f, c8)
           c10 == GridDegenerate(f, c9)
           c11 == PauseInvalid(f, c10)
<1>1. c0 \in Decisions /\ MandateInv(v, f, c0)
  BY TranslateType, MandateStart
<1>2. c4 \in Decisions /\ MandateInv(v, f, c4)
  <2>1. c1 \in Decisions /\ MandateInv(v, f, c1)
    BY <1>1, CouncilRuleTypes, MandateCouncilRules
  <2>2. c2 \in Decisions /\ MandateInv(v, f, c2)
    BY <2>1, CouncilRuleTypes, MandateCouncilRules
  <2>3. c3 \in Decisions /\ MandateInv(v, f, c3)
    BY <2>2, CouncilRuleTypes, MandateCouncilRules
  <2> QED
    BY <2>3, CouncilRuleTypes, MandateCouncilRules
<1>3. c9 \in Decisions /\ MandateInv(v, f, c9)
  <2>1. c5 \in Decisions /\ MandateInv(v, f, c5)
    BY <1>2, LaterRuleTypes, MandateSurvival
  <2>2. c6 \in Decisions /\ MandateInv(v, f, c6)
    BY <2>1, LaterRuleTypes, MandateSurvival
  <2>3. c7 \in Decisions /\ MandateInv(v, f, c7)
    BY <2>2, LaterRuleTypes, MandateSurvival
  <2>4. c8 \in Decisions /\ MandateInv(v, f, c8)
    BY <2>3, LaterRuleTypes, MandateSurvival
  <2> QED
    BY <2>4, LaterRuleTypes, MandateSurvival
<1>4. c10 \in Decisions /\ MandateInv(v, f, c10)
  BY <1>3, LaterRuleTypes, MandateBookRules
<1>5. c11 \in Decisions /\ MandateInv(v, f, c11)
  BY <1>4, LaterRuleTypes, MandateBookRules
<1>6. MandateInv(v, f, GeometrySource(v, f, c11))
  BY <1>5, MandateBookRules
<1>7. EnforceHardRules(v, f) = GeometrySource(v, f, c11)
  BY DEF EnforceHardRules, CouncilRules, SurvivalRules, FloorRules, BookRules
<1> QED
  BY <1>6, <1>7 DEF MandateInv

-----------------------------------------------------------------------------
(***************************************************************************)
(* The last two rules decide alone: what they promise does not depend on   *)
(* what the rules before them made of the council's vote.                  *)
(***************************************************************************)
\* No rule before the last one touches the geometry's source.
LEMMA SourceUntouched ==
    ASSUME NEW v \in Votes, NEW f \in Facts
    PROVE  BookRules(f, FloorRules(f, SurvivalRules(f, CouncilRules(v, f)))).source
               = "unchanged"
<1>1. StanceMandate(Translate(v)).source = "unchanged"
  BY TranslateType DEF StanceMandate, Translate, NoRebuild, Tagged, Decisions
<1>2. ASSUME NEW c \in Decisions
      PROVE  /\ CouncilDegradation(f, c).source = c.source
             /\ HealthyNoRecentre(f, c).source = c.source
             /\ RecentreCooldown(f, c).source = c.source
             /\ RecentPositionHold(f, c).source = c.source
  BY DEF CouncilDegradation, HealthyNoRecentre, RecentreCooldown, RecentPositionHold,
         BlockRebuild, Halted, Tagged, Decisions
<1>3. ASSUME NEW c \in Decisions
      PROVE  /\ KillSwitch(f, c).source = c.source
             /\ DailyLoss(f, c).source = c.source
             /\ SkewCeiling(f, c).source = c.source
             /\ UsdFloor(f, c).source = c.source
             /\ XrpFloor(f, c).source = c.source
             /\ GridDegenerate(f, c).source = c.source
             /\ PauseInvalid(f, c).source = c.source
  BY DEF KillSwitch, DailyLoss, SkewCeiling, UsdFloor, XrpFloor, GridDegenerate,
         PauseInvalid, Halted, Tagged, Decisions
<1>4. CouncilRules(v, f).source = "unchanged"
  <2> DEFINE c0 == StanceMandate(Translate(v))
             c1 == CouncilDegradation(f, c0)
             c2 == HealthyNoRecentre(f, c1)
             c3 == RecentreCooldown(f, c2)
  <2>1. c0 \in Decisions /\ c0.source = "unchanged"
    BY <1>1, TranslateType
  <2>2. c1 \in Decisions /\ c1.source = "unchanged"
    BY <2>1, <1>2, CouncilRuleTypes
  <2>3. c2 \in Decisions /\ c2.source = "unchanged"
    BY <2>2, <1>2, CouncilRuleTypes
  <2>4. c3 \in Decisions /\ c3.source = "unchanged"
    BY <2>3, <1>2, CouncilRuleTypes
  <2>5. RecentPositionHold(f, c3).source = "unchanged"
    BY <2>4, <1>2
  <2> QED
    BY <2>5 DEF CouncilRules
<1>5. ASSUME NEW c \in Decisions
      PROVE  /\ SurvivalRules(f, c).source = c.source
             /\ FloorRules(f, c).source = c.source
             /\ BookRules(f, c).source = c.source
  BY <1>3, LaterRuleTypes DEF SurvivalRules, FloorRules, BookRules
<1> QED
  BY <1>4, <1>5, GroupTypes

\* A rebuild that leaves the rules always has a geometry, the agent's or the
\* scorer's, and nothing else than a rebuild claims one.
THEOREM GeometryKnown ==
    ASSUME NEW v \in Votes, NEW f \in Facts
    PROVE  EnforceHardRules(v, f).grid = "RECENTRE"
               <=> EnforceHardRules(v, f).source # "unchanged"
<1> DEFINE c == BookRules(f, FloorRules(f, SurvivalRules(f, CouncilRules(v, f))))
<1>1. c \in Decisions /\ c.source = "unchanged"
  BY GroupTypes, SourceUntouched
<1>2. GeometrySource(v, f, c).grid = "RECENTRE"
          <=> GeometrySource(v, f, c).source # "unchanged"
  BY <1>1 DEF GeometrySource, Tagged, Decisions
<1> QED
  BY <1>2 DEF EnforceHardRules

\* A partial pause that no floor and no stance ordered is valid on the book it
\* is handed over with: it never strips a thin side.
ThinSideSpared(f, c) ==
    c.grid # "HALT" /\ ~PauseOrdered(c) => ~ThinPause(f, c)
THEOREM PauseValid ==
    ASSUME NEW v \in Votes, NEW f \in Facts
    PROVE  ThinSideSpared(f, EnforceHardRules(v, f))
<1> DEFINE b == GridDegenerate(f, FloorRules(f, SurvivalRules(f, CouncilRules(v, f))))
           c == PauseInvalid(f, b)
<1>1. b \in Decisions /\ c \in Decisions
  BY GroupTypes, LaterRuleTypes
<1>2. ThinSideSpared(f, c)
  BY <1>1 DEF ThinSideSpared, PauseInvalid, PauseOrdered, ThinPause, Tagged, Decisions
<1>3. ThinSideSpared(f, GeometrySource(v, f, c))
  BY <1>1, <1>2 DEF ThinSideSpared, GeometrySource, PauseOrdered, ThinPause, Tagged,
                    Decisions
<1> QED
  BY <1>3 DEF EnforceHardRules, BookRules

-----------------------------------------------------------------------------
\* No rule rewrites the stance: the mandate in force is the one that was voted.
THEOREM StanceKept ==
    ASSUME NEW v \in Votes, NEW f \in Facts
    PROVE  EnforceHardRules(v, f).stance = Translate(v).stance
<1> DEFINE c0 == StanceMandate(Translate(v))
           c1 == CouncilDegradation(f, c0)
           c2 == HealthyNoRecentre(f, c1)
           c3 == RecentreCooldown(f, c2)
           c4 == RecentPositionHold(f, c3)
           s == SurvivalRules(f, c4)
           b == BookRules(f, FloorRules(f, s))
<1>1. c0 \in Decisions /\ c0.stance = Translate(v).stance
  BY TranslateType DEF StanceMandate, Translate, NoRebuild, Tagged, Decisions
<1>2. c1 \in Decisions /\ c1.stance = c0.stance
  BY <1>1, CouncilRuleTypes DEF CouncilDegradation, Halted, Tagged, Decisions
<1>3. c2 \in Decisions /\ c2.stance = c1.stance
  BY <1>2, CouncilRuleTypes DEF HealthyNoRecentre, BlockRebuild, Tagged, Decisions
<1>4. c3 \in Decisions /\ c3.stance = c2.stance
  BY <1>3, CouncilRuleTypes DEF RecentreCooldown, BlockRebuild, Tagged, Decisions
<1>5. c4 \in Decisions /\ c4.stance = c3.stance
  BY <1>4, CouncilRuleTypes DEF RecentPositionHold, BlockRebuild, Tagged, Decisions
<1>6. ASSUME NEW c \in Decisions
      PROVE  /\ KillSwitch(f, c).stance = c.stance
             /\ DailyLoss(f, c).stance = c.stance
             /\ SkewCeiling(f, c).stance = c.stance
             /\ UsdFloor(f, c).stance = c.stance
             /\ XrpFloor(f, c).stance = c.stance
             /\ GridDegenerate(f, c).stance = c.stance
             /\ PauseInvalid(f, c).stance = c.stance
  BY DEF KillSwitch, DailyLoss, SkewCeiling, UsdFloor, XrpFloor, GridDegenerate,
         PauseInvalid, Halted, Tagged, Decisions
<1>7. ASSUME NEW c \in Decisions
      PROVE  /\ SurvivalRules(f, c).stance = c.stance
             /\ FloorRules(f, c).stance = c.stance
             /\ BookRules(f, c).stance = c.stance
  BY <1>6, LaterRuleTypes DEF SurvivalRules, FloorRules, BookRules
<1>8. b \in Decisions /\ b.stance = c4.stance
  BY <1>5, <1>7, GroupTypes
<1>9. GeometrySource(v, f, b).stance = b.stance
  BY <1>8 DEF GeometrySource, Tagged, Decisions
<1> QED
  BY <1>1, <1>2, <1>3, <1>4, <1>5, <1>8, <1>9 DEF EnforceHardRules, CouncilRules

-----------------------------------------------------------------------------
(***************************************************************************)
(* A stand-aside freezes the buys.                                         *)
(***************************************************************************)
\* Until an agent is found degraded, the stance holds its pause and its tag, and
\* there is no rebuild that could take them back.
BuysFrozen(c) == /\ c.risk \in {"PAUSE_LONGS", "HALT"}
                 /\ c.grid # "RECENTRE"
                 /\ "STANCE_STAND_ASIDE" \in c.tags
StandAsideInv(c) == c.stance = "STAND_ASIDE" /\ "AGENT_DEGRADED" \notin c.tags
                        => BuysFrozen(c)

\* It starts with the stance mandate, ...
LEMMA StandAsideStart ==
    ASSUME NEW v \in Votes
    PROVE  StandAsideInv(StanceMandate(Translate(v)))
BY DEF StandAsideInv, BuysFrozen, StanceMandate, NoRebuild, Tagged, Translate, Votes,
       Verdicts, Stances, Mandates, RiskActions

\* ... survives rules -1 to 0c, ...
LEMMA StandAsideCouncilRules ==
    ASSUME NEW f \in Facts, NEW c \in Decisions, StandAsideInv(c)
    PROVE  /\ StandAsideInv(CouncilDegradation(f, c))
           /\ StandAsideInv(HealthyNoRecentre(f, c))
           /\ StandAsideInv(RecentreCooldown(f, c))
           /\ StandAsideInv(RecentPositionHold(f, c))
<1> USE DEF StandAsideInv, BuysFrozen, Tagged, Decisions
<1>1. StandAsideInv(CouncilDegradation(f, c))
  BY DEF CouncilDegradation, Halted
<1>2. ASSUME NEW tag, c.grid = "RECENTRE" PROVE StandAsideInv(BlockRebuild(c, tag))
  BY <1>2 DEF BlockRebuild
<1>3. /\ StandAsideInv(HealthyNoRecentre(f, c))
      /\ StandAsideInv(RecentreCooldown(f, c))
      /\ StandAsideInv(RecentPositionHold(f, c))
  BY <1>2 DEF HealthyNoRecentre, RecentreCooldown, RecentPositionHold
<1> QED
  BY <1>1, <1>3

\* ... the survival rules and the buffer floors, ...
LEMMA StandAsideSurvival ==
    ASSUME NEW f \in Facts, NEW c \in Decisions, StandAsideInv(c)
    PROVE  /\ StandAsideInv(KillSwitch(f, c))
           /\ StandAsideInv(DailyLoss(f, c))
           /\ StandAsideInv(SkewCeiling(f, c))
           /\ StandAsideInv(UsdFloor(f, c))
           /\ StandAsideInv(XrpFloor(f, c))
<1> USE DEF StandAsideInv, BuysFrozen, Tagged, Decisions
<1>1. ASSUME NEW tag PROVE StandAsideInv(Halted(c, tag))
  BY DEF Halted
<1>2. /\ StandAsideInv(KillSwitch(f, c)) /\ StandAsideInv(DailyLoss(f, c))
      /\ StandAsideInv(SkewCeiling(f, c))
  BY <1>1 DEF KillSwitch, DailyLoss, SkewCeiling
<1>3. StandAsideInv(UsdFloor(f, c)) /\ StandAsideInv(XrpFloor(f, c))
  BY DEF UsdFloor, XrpFloor
<1> QED
  BY <1>2, <1>3

\* ... and rules 6 to 8, which spare a pause that the stance ordered.
LEMMA StandAsideBookRules ==
    ASSUME NEW v \in Votes, NEW f \in Facts, NEW c \in Decisions, StandAsideInv(c)
    PROVE  /\ StandAsideInv(GridDegenerate(f, c))
           /\ StandAsideInv(PauseInvalid(f, c))
           /\ StandAsideInv(GeometrySource(v, f, c))
<1> USE DEF StandAsideInv, BuysFrozen, Tagged, Decisions
<1>1. StandAsideInv(GridDegenerate(f, c))
  BY DEF GridDegenerate, MayForce
<1>2. StandAsideInv(PauseInvalid(f, c))
  BY DEF PauseInvalid, PauseOrdered
<1>3. StandAsideInv(GeometrySource(v, f, c))
  BY DEF GeometrySource
<1> QED
  BY <1>1, <1>2, <1>3

\* A STAND_ASIDE stance leaves the rules with its buys paused or everything
\* halted, unless a degraded seat froze the grid as it stood.
THEOREM StandAsideFreezes ==
    ASSUME NEW v \in Votes, NEW f \in Facts
    PROVE  StandAsideInv(EnforceHardRules(v, f))
<1> DEFINE c0 == StanceMandate(Translate(v))
           c1 == CouncilDegradation(f, c0)
           c2 == HealthyNoRecentre(f, c1)
           c3 == RecentreCooldown(f, c2)
           c4 == RecentPositionHold(f, c3)
           c5 == KillSwitch(f, c4)
           c6 == DailyLoss(f, c5)
           c7 == SkewCeiling(f, c6)
           c8 == UsdFloor(f, c7)
           c9 == XrpFloor(f, c8)
           c10 == GridDegenerate(f, c9)
           c11 == PauseInvalid(f, c10)
<1>1. c0 \in Decisions /\ StandAsideInv(c0)
  BY TranslateType, StandAsideStart
<1> HIDE DEF c0
<1>2. c1 \in Decisions /\ StandAsideInv(c1)
  BY <1>1, CouncilRuleTypes, StandAsideCouncilRules
<1> HIDE DEF c1
<1>3. c2 \in Decisions /\ StandAsideInv(c2)
  BY <1>2, CouncilRuleTypes, StandAsideCouncilRules
<1> HIDE DEF c2
<1>4. c3 \in Decisions /\ StandAsideInv(c3)
  BY <1>3, CouncilRuleTypes, StandAsideCouncilRules
<1> HIDE DEF c3
<1>5. c4 \in Decisions /\ StandAsideInv(c4)
  BY <1>4, CouncilRuleTypes, StandAsideCouncilRules
<1> HIDE DEF c4
<1>6. c5 \in Decisions /\ StandAsideInv(c5)
  BY <1>5, LaterRuleTypes, StandAsideSurvival
<1> HIDE DEF c5
<1>7. c6 \in Decisions /\ StandAsideInv(c6)
  BY <1>6, LaterRuleTypes, StandAsideSurvival
<1> HIDE DEF c6
<1>8. c7 \in Decisions /\ StandAsideInv(c7)
  BY <1>7, LaterRuleTypes, StandAsideSurvival
<1> HIDE DEF c7
<1>9. c8 \in Decisions /\ StandAsideInv(c8)
  BY <1>8, LaterRuleTypes, StandAsideSurvival
<1> HIDE DEF c8
<1>10. c9 \in Decisions /\ StandAsideInv(c9)
  BY <1>9, LaterRuleTypes, StandAsideSurvival
<1> HIDE DEF c9
<1>11. c10 \in Decisions /\ StandAsideInv(c10)
  BY <1>10, LaterRuleTypes, StandAsideBookRules
<1> HIDE DEF c10
<1>12. c11 \in Decisions /\ StandAsideInv(c11)
  BY <1>11, LaterRuleTypes, StandAsideBookRules
<1> HIDE DEF c11
<1>13. StandAsideInv(GeometrySource(v, f, c11))
  BY <1>12, StandAsideBookRules
<1>14. EnforceHardRules(v, f) = GeometrySource(v, f, c11)
  BY DEF EnforceHardRules, BookRules, FloorRules, SurvivalRules, CouncilRules,
         c0, c1, c2, c3, c4, c5, c6, c7, c8, c9, c10, c11
<1> QED
  BY <1>13, <1>14

-----------------------------------------------------------------------------
(***************************************************************************)
(* The cycle.  The inductive invariant.                                    *)
(***************************************************************************)
RuledByLadder == IF Ruled THEN cons = EnforceHardRules(Consensus(ballot), facts)
                 ELSE ballot = NoBallot
IInv == TypeOK /\ RuledByLadder

-----------------------------------------------------------------------------
(***************************************************************************)
(* The operators of the model.                                             *)
(***************************************************************************)
\* There are three seats.
LEMMA SeatCount == IsFiniteSet(Seats) /\ Cardinality(Seats) = 3
<1> DEFINE s0 == {}
           s1 == s0 \cup {"casper"}
           s2 == s1 \cup {"melchior"}
           s3 == s2 \cup {"balthasar"}
<1>1. IsFiniteSet(s0) /\ Cardinality(s0) = 0
  BY FS_EmptySet
<1>2. IsFiniteSet(s1) /\ Cardinality(s1) = 1
  BY <1>1, FS_AddElement
<1>3. IsFiniteSet(s2) /\ Cardinality(s2) = 2
  <2>1. "melchior" \notin s1
    OBVIOUS
  <2> QED
    BY <1>2, <2>1, FS_AddElement
<1>4. IsFiniteSet(s3) /\ Cardinality(s3) = 3
  <2>1. "balthasar" \notin s2
    OBVIOUS
  <2> QED
    BY <1>3, <2>1, FS_AddElement
<1>5. s3 = Seats
  BY DEF Seats
<1> QED
  BY <1>4, <1>5

\* So at most three are degraded.
LEMMA DegradedType ==
    ASSUME NEW rs \in Seq(SUBSET Seats)
    PROVE  DegradedCount(rs) \in 0..3
<1>1. CASE Len(rs) < 2
  BY <1>1 DEF DegradedCount
<1>2. CASE ~(Len(rs) < 2)
  <2>1. rs[1] \cap rs[2] \subseteq Seats
    BY <1>2
  <2>2. /\ IsFiniteSet(rs[1] \cap rs[2])
        /\ Cardinality(rs[1] \cap rs[2]) <= 3
    BY <2>1, SeatCount, FS_Subset
  <2>3. Cardinality(rs[1] \cap rs[2]) \in Nat
    BY <2>2, FS_CardinalityType
  <2> QED
    BY <1>2, <2>2, <2>3 DEF DegradedCount
<1> QED
  BY <1>1, <1>2

\* The window of two debate rows stays one.
LEMMA RecordedType ==
    ASSUME NEW rs \in Seq(SUBSET Seats), Len(rs) <= 2, NEW seats \in SUBSET Seats
    PROVE  /\ Recorded(rs, seats) \in Seq(SUBSET Seats)
           /\ Len(Recorded(rs, seats)) <= 2
<1>1. CASE Len(rs) < 2
  BY <1>1 DEF Recorded
<1>2. CASE ~(Len(rs) < 2)
  <2> DEFINE last == rs[2]
  <2>1. last \in SUBSET Seats
    BY <1>2
  <2>2. Recorded(rs, seats) = <<last, seats>>
    BY <1>2 DEF Recorded
  <2> HIDE DEF last
  <2>3. <<last, seats>> \in Seq(SUBSET Seats) /\ Len(<<last, seats>>) = 2
    BY <2>1
  <2> QED
    BY <2>2, <2>3
<1> QED
  BY <1>1, <1>2

\* Whatever the seats answer, the consensus is a vote the rules know, a failed
\* council's among them.
LEMMA ConsensusType ==
    ASSUME NEW b \in AllBallots
    PROVE  /\ Consensus(b) \in Votes
           /\ SafeDefaulted(b) \subseteq Seats
<1>1. Consensus(b) \in Votes
  BY DEF Consensus, SafeHold, AllBallots, Votes, Verdicts, Mandates, Stances, RiskActions
<1>2. SafeDefaulted(b) \subseteq Seats
  BY DEF SafeDefaulted, Seats
<1> QED
  BY <1>1, <1>2

\* What the rules read is well typed.
LEMMA FactsType == TypeOK => FactsNow \in Facts
<1> SUFFICES ASSUME TypeOK PROVE FactsNow \in Facts
  OBVIOUS
<1>1. DegradedCount(records) \in 0..3
  BY DegradedType DEF TypeOK
<1>2. book \in [buys : Nat, sells : Nat] /\ world \in AllWorlds
  BY BooksAssumption, WorldsAssumption DEF TypeOK
<1> QED
  BY <1>1, <1>2 DEF FactsNow, Facts, AllWorlds

\* The engine's answer to a decision is one of the books considered.
LEMMA AppliedType ==
    ASSUME NEW c \in Decisions, TypeOK
    PROVE  Applied(c) \subseteq Books
<1>1. Empty \in Books
  BY BooksAssumption DEF TypeOK, Empty
<1>2. ASSUME NEW b \in Books PROVE AfterRisk(c, b) \in Books
  BY <1>2, BooksAssumption DEF AfterRisk
<1>3. AfterGrid(c) \subseteq Books
  BY DEF AfterGrid, Rebuild, TypeOK
<1> QED
  BY <1>1, <1>2, <1>3 DEF Applied

-----------------------------------------------------------------------------
(***************************************************************************)
(* The inductive invariant.                                                *)
(***************************************************************************)
LEMMA InitInv == Init => IInv
<1> SUFFICES ASSUME Init PROVE IInv
  OBVIOUS
<1>1. NoWorld \in Worlds
  BY WorldsAssumption DEF NoWorld
<1>2. NoFacts \in Facts
  BY DEF NoFacts, Facts
<1>3. NoCons \in Decisions
  BY DEF NoCons, Decisions, GridActions, RiskActions, Stances, Sources
<1> QED
  BY <1>1, <1>2, <1>3 DEF Init, IInv, TypeOK, RuledByLadder, Ruled

\* Decide is the step that has to do with the ladder.
LEMMA DecideInv == IInv /\ Decide => IInv'
<1> SUFFICES ASSUME IInv, Decide PROVE IInv'
  OBVIOUS
<1> USE DEF IInv
<1>1. PICK b \in Ballots :
          /\ ballot' = b
          /\ facts' = FactsNow
          /\ cons' = EnforceHardRules(Consensus(b), FactsNow)
          /\ records' = IF b.inserted THEN Recorded(records, SafeDefaulted(b))
                        ELSE records
          /\ gate' = [e \in Events |-> IF b.inserted /\ e \in Consumable
                                       THEN "consumed" ELSE gate[e]]
          /\ standing' = IF b.failedAt = "none" THEN b.stance ELSE standing
  BY DEF Decide
<1>2. b \in AllBallots
  BY BallotsAssumption
<1>3. Consensus(b) \in Votes /\ SafeDefaulted(b) \in SUBSET Seats
  BY <1>2, ConsensusType
<1>4. FactsNow \in Facts
  BY FactsType
<1>5. cons' \in Decisions
  BY <1>1, <1>3, <1>4, EnforceType
<1>6. records' \in Seq(SUBSET Seats) /\ Len(records') <= 2
  BY <1>1, <1>3, RecordedType DEF TypeOK
<1>7. standing' \in Mandates \cup {"NONE"}
  BY <1>1, <1>2 DEF TypeOK, AllBallots
<1>8. gate' \in [Events -> {"unfired", "written", "pending", "consumed"}]
  BY <1>1 DEF TypeOK
<1>9. TypeOK'
  BY <1>1, <1>4, <1>5, <1>6, <1>7, <1>8 DEF TypeOK, Decide
<1>10. RuledByLadder'
  BY <1>1 DEF RuledByLadder, Ruled, Decide
<1> QED
  BY <1>9, <1>10

\* Every other step leaves the decision alone or forgets it.
LEMMA NextInv == IInv /\ [Next]_vars => IInv'
<1> SUFFICES ASSUME IInv, [Next]_vars PROVE IInv'
  OBVIOUS
<1> USE DEF IInv, TypeOK, RuledByLadder, Ruled, councilVars, gateVars
<1>1. CASE Stamp
  BY <1>1 DEF Stamp
<1>2. CASE BuildWorldState
  BY <1>2 DEF BuildWorldState, Unconsumed
<1>3. CASE Decide
  BY <1>3, DecideInv
<1>4. CASE EvaluateLevels
  <2>1. book' \in Books
    BY <1>4 DEF EvaluateLevels, Rebuild
  <2> QED
    BY <1>4, <2>1 DEF EvaluateLevels
<1>5. CASE Apply
  <2>1. book' \in Books
    BY <1>5, AppliedType DEF Apply
  <2>2. /\ NoWorld \in Worlds
        /\ NoFacts \in Facts
        /\ NoCons \in Decisions
    BY WorldsAssumption DEF NoWorld, NoFacts, Facts, NoCons, Decisions, GridActions,
                            RiskActions, Stances, Sources
  <2> QED
    BY <1>5, <2>1, <2>2 DEF Apply
<1>6. CASE Blocked
  <2>1. Empty \in Books
    BY BooksAssumption DEF Empty
  <2> QED
    BY <1>6, <2>1 DEF Blocked
<1>7. CASE Fill
  BY <1>7 DEF Fill
<1>8. CASE StopChanges
  BY <1>8 DEF StopChanges
<1>9. ASSUME NEW e \in Events, WriteEvent(e) \/ CommitEvent(e)
      PROVE  IInv'
  BY <1>9 DEF WriteEvent, CommitEvent
<1>10. CASE UNCHANGED vars
  BY <1>10 DEF vars
<1> QED
  BY <1>1, <1>2, <1>3, <1>4, <1>5, <1>6, <1>7, <1>8, <1>9, <1>10 DEF Next, Cycle

\* The decision in force is, at every moment, the ladder's answer to the ballot
\* and the facts of its own cycle: no step between tampers with it.
THEOREM LadderInForce == Spec => []IInv
<1> QED
  BY InitInv, NextInv, PTL DEF Spec

\* Type correctness, for every instance.
THEOREM TypeCorrect == Spec => []TypeOK
<1>1. IInv => TypeOK
  BY DEF IInv
<1> QED
  BY <1>1, LadderInForce, PTL

-----------------------------------------------------------------------------
(***************************************************************************)
(* What a decision promises.                                               *)
(***************************************************************************)
LEMMA RuledFacts ==
    ASSUME IInv, Ruled
    PROVE  /\ cons = EnforceHardRules(Consensus(ballot), facts)
           /\ facts \in Facts
           /\ Consensus(ballot) \in Votes
           /\ ballot \in AllBallots
<1>1. NoBallot \in AllBallots
  BY DEF NoBallot, AllBallots, Verdicts, Mandates, RiskActions
<1> QED
  BY <1>1, BallotsAssumption, ConsensusType DEF IInv, TypeOK, RuledByLadder

\* A stop that the enforcement saw, or a collapsed council, halts both actions.
THEOREM SurvivalAlwaysHalts == Spec => []SurvivalHalts
<1>1. IInv => SurvivalHalts
  BY RuledFacts, SurvivalOutranks DEF SurvivalHalts, IsHalt
<1> QED
  BY <1>1, LadderInForce, PTL

\* No decision rebuilds against the council's own mandate.
THEOREM MandateAlwaysBlocks == Spec => []MandateBlocksRebuild
<1>1. IInv => MandateBlocksRebuild
  <2> SUFFICES ASSUME IInv, Ruled, cons.grid = "RECENTRE"
               PROVE  /\ cons.stance \notin {"HOLD", "STAND_ASIDE"}
                      /\ "NO_PROFITABLE_GRID" \notin cons.tags
                      /\ facts.capEngaged => ballot.verdict = "RECONFIGURE"
    BY DEF MandateBlocksRebuild
  <2>1. Mandated(Consensus(ballot), facts, cons)
    BY RuledFacts, MandateHolds
  <2>2. Consensus(ballot).verdict = "RECONFIGURE" => ballot.verdict = "RECONFIGURE"
    BY RuledFacts DEF Consensus, SafeHold
  <2> QED
    BY <2>1, <2>2 DEF Mandated
<1> QED
  BY <1>1, LadderInForce, PTL

\* A rebuild in force has a geometry.
THEOREM RebuildAlwaysHasGeometry == Spec => []RebuildHasGeometry
<1>1. IInv => RebuildHasGeometry
  BY RuledFacts, GeometryKnown DEF RebuildHasGeometry
<1> QED
  BY <1>1, LadderInForce, PTL

\* A pause in force that nothing ordered spares the thin side.
THEOREM PauseAlwaysSpares == Spec => []PauseSparesThinSide
<1>1. IInv => PauseSparesThinSide
  <2> SUFFICES ASSUME IInv, Ruled PROVE PauseSparesThinSide
    BY DEF PauseSparesThinSide
  <2>1. ThinSideSpared(facts, cons)
    BY RuledFacts, PauseValid
  <2> QED
    BY <2>1 DEF ThinSideSpared, ThinPause, PauseOrdered, PauseSparesThinSide
<1> QED
  BY <1>1, LadderInForce, PTL

\* A cycle consumes no event stamped after its world state, nor any when its
\* debate row is not inserted: a late event is left for the next cycle.
THEOREM LateEventsAlwaysSurvive == Spec => LateEventsSurvive
<1> DEFINE A == \A e \in Events : gate[e] # "consumed" /\ gate'[e] = "consumed" =>
                    e \in stamped /\ ballot'.inserted
<1>1. TypeOK /\ [Next]_vars => [A]_vars
  <2> SUFFICES ASSUME TypeOK, Next,
                      NEW e \in Events, gate[e] # "consumed", gate'[e] = "consumed"
               PROVE  e \in stamped /\ ballot'.inserted
    OBVIOUS
  <2>1. CASE Decide
    BY <2>1 DEF Decide, Consumable
  <2>2. ASSUME NEW d \in Events, WriteEvent(d) \/ CommitEvent(d)
        PROVE  FALSE
    BY <2>2 DEF WriteEvent, CommitEvent, TypeOK
  <2>3. CASE Stamp \/ BuildWorldState \/ EvaluateLevels \/ Apply
    BY <2>3 DEF Stamp, BuildWorldState, EvaluateLevels, Apply, gateVars, councilVars
  <2>4. CASE Blocked \/ Fill \/ StopChanges
    BY <2>4 DEF Blocked, Fill, StopChanges, gateVars
  <2> QED
    BY <2>1, <2>2, <2>3, <2>4 DEF Next, Cycle
<1> QED
  BY <1>1, TypeCorrect, PTL DEF LateEventsSurvive, Spec

\* A cycle whose council did not convene decides nothing: the standing stance is
\* kept, no rebuild is decided, and no step of it adds an order but a level switch,
\* which a halt keeps out.
THEOREM OutageAlwaysInert == Spec => OutageDecidesNothing
<1> DEFINE Kept == phase = "deliberating" /\ ballot'.failedAt # "none" =>
                      standing' = standing /\ cons'.grid # "RECENTRE"
           Less == ballot.failedAt # "none" /\ (LevelSwitch => cons.grid = "HALT") =>
                      book'.buys <= book.buys /\ book'.sells <= book.sells
<1>1. ASSUME NEW b \in AllBallots, NEW f \in Facts, b.failedAt # "none"
      PROVE  EnforceHardRules(Consensus(b), f).grid # "RECENTRE"
  <2>1. Consensus(b) \in Votes
    BY ConsensusType
  <2>2. EnforceHardRules(Consensus(b), f).stance = "HOLD"
    BY <1>1, <2>1, StanceKept DEF Consensus, SafeHold, Translate
  <2> QED
    BY <2>1, <2>2, MandateHolds DEF Mandated
<1>2. IInv /\ Next => Kept
  <2> SUFFICES ASSUME IInv, Next, phase = "deliberating", ballot'.failedAt # "none"
               PROVE  standing' = standing /\ cons'.grid # "RECENTRE"
    OBVIOUS
  <2>1. CASE Decide
    BY <1>1, <2>1, FactsType, BallotsAssumption DEF Decide, IInv
  <2>2. CASE ~Decide
    <3>1. ballot' = ballot
      BY <2>2 DEF Next, Cycle, Stamp, BuildWorldState, EvaluateLevels, Apply, Blocked,
                  Fill, StopChanges, WriteEvent, CommitEvent, councilVars
    <3> QED
      BY <3>1 DEF IInv, RuledByLadder, Ruled, NoBallot
  <2> QED
    BY <2>1, <2>2
<1>3. IInv /\ Next => Less
  <2> SUFFICES ASSUME IInv, Next, ballot.failedAt # "none",
                      LevelSwitch => cons.grid = "HALT"
               PROVE  book'.buys <= book.buys /\ book'.sells <= book.sells
    OBVIOUS
  <2>1. book \in [buys : Nat, sells : Nat]
    BY BooksAssumption DEF IInv, TypeOK
  <2>2. Ruled
    BY DEF IInv, RuledByLadder, NoBallot
  <2>3. CASE Apply
    <3>1. cons.grid # "RECENTRE"
      BY <1>1, <2>2, RuledFacts
    <3>2. book' \in {Empty} \cup {AfterRisk(cons, b) : b \in {book}}
      BY <2>3, <3>1 DEF Apply, Applied, AfterGrid
    <3> QED
      BY <2>1, <3>2 DEF Empty, AfterRisk
  <2>4. CASE ~Apply
    <3>1. book' = book
      BY <2>2, <2>4 DEF Next, Cycle, Stamp, BuildWorldState, Decide, EvaluateLevels,
                  Blocked, Fill, StopChanges, WriteEvent, CommitEvent, LevelSwitch, Ruled
    <3> QED
      BY <2>1, <3>1
  <2> QED
    BY <2>3, <2>4
<1>4. IInv /\ [Next]_vars => [Kept /\ Less]_vars
  BY <1>2, <1>3
<1> QED
  BY <1>4, LadderInForce, PTL DEF OutageDecidesNothing, Spec

\* A cycle under STAND_ASIDE ends with no buy on the book, whatever a level switch
\* had put there, unless a degraded seat froze the grid.
THEOREM StandAsideAlwaysEndsBuys == Spec => StandAsideEndsBuys
<1> DEFINE Ended == /\ phase = "evaluated" /\ phase' = "idle"
                    /\ cons.stance = "STAND_ASIDE"
                    /\ "AGENT_DEGRADED" \notin cons.tags
                    => book'.buys = 0
<1>1. IInv /\ [Next]_vars => [Ended]_vars
  <2> SUFFICES ASSUME IInv, Next, phase = "evaluated", phase' = "idle",
                      cons.stance = "STAND_ASIDE", "AGENT_DEGRADED" \notin cons.tags
               PROVE  book'.buys = 0
    OBVIOUS
  <2>1. BuysFrozen(cons)
    BY RuledFacts, StandAsideFreezes DEF Ruled, StandAsideInv
  <2>2. Apply
    BY DEF Next, Cycle, Stamp, BuildWorldState, Decide, EvaluateLevels, Blocked, Fill,
           StopChanges, WriteEvent, CommitEvent
  <2>3. CASE cons.grid \in {"HALT", "GRID_PAUSE"} \/ cons.risk = "HALT"
    BY <2>2, <2>3 DEF Apply, Applied, Empty
  <2>4. CASE cons.grid \notin {"HALT", "GRID_PAUSE"} /\ cons.risk = "PAUSE_LONGS"
    <3>1. book' = [book EXCEPT !.buys = 0]
      BY <2>1, <2>2, <2>4 DEF Apply, Applied, AfterRisk, AfterGrid, BuysFrozen
    <3>2. book \in [buys : Nat, sells : Nat]
      BY BooksAssumption DEF IInv, TypeOK
    <3> QED
      BY <3>1, <3>2
  <2> QED
    BY <2>1, <2>3, <2>4 DEF BuysFrozen
<1> QED
  BY <1>1, LadderInForce, PTL DEF StandAsideEndsBuys, Spec
=============================================================================

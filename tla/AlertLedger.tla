---------------------------- MODULE AlertLedger -----------------------------
(***************************************************************************)
(* magi_alerts: the alerts of the council's degradation, their             *)
(* deduplication, and the operator who resolves them on the dashboard.     *)
(*                                                                         *)
(* A council alert is edge-triggered against a tier that survives          *)
(* restarts; the ledger drops an alert that repeats an unresolved one of   *)
(* the last hour.  Both must agree that a collapse is on the board.        *)
(* Only unresolved rows are kept: no other is ever read.  The alerts of    *)
(* other categories touch no row of these; messages are left out, and no   *)
(* caller passes a step_id.                                                *)
(*                                                                         *)
(* RisesFromHealth is a faulty variant, for the mutant runs.               *)
(***************************************************************************)
EXTENDS Integers, FiniteSets

CONSTANTS
    Agents,      \* the seats whose degradation is told apart
    DedupWindow, \* _ALERT_DEDUP_WINDOW_MINUTES, in ticks
    LastTick,    \* bound: ticks
    AlertFaults  \* bound: failed reads and writes, and restarts

ASSUME AlertAssumption ==
    /\ IsFiniteSet(Agents) /\ DedupWindow \in Nat /\ LastTick \in Nat /\ AlertFaults \in Nat

VARIABLES
    tick,
    alerts,    \* unresolved rows of magi_alerts
    tier,      \* system_state last_degraded_tier
    degraded,  \* agents the running cycle found degraded
    alerting,  \* where _maybe_fire_degradation_alert is
    excused,   \* history: the insert of a collapse failed, or the operator resolved it
    alertFaults

alertVars == <<tick, alerts, tier, degraded, alerting, excused, alertFaults>>

AlertInit ==
    /\ tick = 0 /\ alerts = {}
    /\ tier = 0 /\ degraded = {} /\ alerting = "idle"
    /\ excused = FALSE /\ alertFaults = 0

Fails == alertFaults < AlertFaults /\ alertFaults' = alertFaults + 1
Works == UNCHANGED alertFaults

-----------------------------------------------------------------------------
\* The category of an alert, with the agent of a single degradation.
Collapsed == <<"council_collapsed", "any">>
AlertKey(found) ==
    IF Cardinality(found) = 1
    THEN <<"council_degraded", CHOOSE a \in found : TRUE>> ELSE Collapsed

\* insert_alert: nothing when it repeats an unresolved row of the last hour;
\* a new row is pushed to the operator, for both categories are critical.
Repeats(key) == \E a \in alerts : a.key = key /\ a.at >= tick - DedupWindow
InsertAlert(key) ==
    alerts' = IF Repeats(key) THEN alerts ELSE alerts \cup {[key |-> key, at |-> tick]}

Tier(found) == IF Cardinality(found) > 2 THEN 2 ELSE Cardinality(found)
RisesFromHealth(found) == tier = 0 /\ Tier(found) > 0
Rises(found) == Tier(found) > tier

(***************************************************************************)
(* _maybe_fire_degradation_alert, from the hard rules of every cycle.      *)
(***************************************************************************)
\* The last two cycles share these degraded seats.  When the tier cannot be
\* read the cycle goes on without either.
CheckDegradation ==
    /\ alerting = "idle"
    /\ \E found \in SUBSET Agents :
          /\ degraded' = found
          /\ alerting' = IF Rises(found) THEN "raise" ELSE "persist"
    /\ excused' = (excused /\ tier = 2)
    /\ UNCHANGED <<tick, alerts, tier, alertFaults>>

RaiseDegradation ==
    /\ alerting = "raise"
    /\ \/ Works /\ InsertAlert(AlertKey(degraded)) /\ UNCHANGED excused
       \/ Fails /\ excused' = TRUE /\ UNCHANGED alerts
    /\ alerting' = "persist"
    /\ UNCHANGED <<tick, tier, degraded>>

\* The tier is written whether or not an alert was.
PersistTier ==
    /\ alerting = "persist"
    /\ \/ Works /\ tier' = Tier(degraded)
       \/ Fails /\ UNCHANGED tier
    /\ alerting' = "idle" /\ degraded' = {}
    /\ UNCHANGED <<tick, alerts, excused>>

\* mark_alert_resolved, the button of the dashboard.
OperatorResolves ==
    /\ \E a \in alerts :
          /\ alerts' = alerts \ {a}
          /\ excused' = (excused \/ a.key = Collapsed)
    /\ UNCHANGED <<tick, tier, degraded, alerting, alertFaults>>

\* A restart between any two steps: the ledger and the tier stay.
AlertRestart ==
    /\ alerting # "idle" /\ Fails
    /\ alerting' = "idle" /\ degraded' = {}
    /\ UNCHANGED <<tick, alerts, tier, excused>>

AlertTick ==
    /\ tick < LastTick /\ tick' = tick + 1
    /\ UNCHANGED <<alerts, tier, degraded, alerting, excused, alertFaults>>

AlertNext ==
    \/ CheckDegradation \/ RaiseDegradation \/ PersistTier
    \/ OperatorResolves \/ AlertRestart \/ AlertTick

AlertSpec == AlertInit /\ [][AlertNext]_alertVars

-----------------------------------------------------------------------------
\* A collapse of the council is on the board: once the tier says collapsed, an
\* alert of it is unresolved, whatever was raised and dropped as a repetition
\* within the hour, through recoveries, relapses and restarts, unless its insert
\* failed or the operator resolved it since (_maybe_fire_degradation_alert).
CollapseOnBoard == tier = 2 /\ ~excused => \E a \in alerts : a.key = Collapsed
=============================================================================

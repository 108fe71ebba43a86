---------------------------- MODULE CouncilCycle ----------------------------
(***************************************************************************)
(* One supervision cycle after another: scheduler.run_magi_cycle calls     *)
(* orchestrator.run_cycle, which stamps and reads a world state, convenes  *)
(* the council (council_v2.run_council), applies the hard rules, records   *)
(* the debate, consumes the gate events and keeps the stance; the engine   *)
(* then applies the decision to the book.  The gate threads write events   *)
(* and the operator or the market may stop trading at any moment of it.    *)
(*                                                                         *)
(* SafeDeploy, RecordedAll, RecordedOldest and AllPending are faulty       *)
(* variants of the definition after them, for the mutant runs.             *)
(***************************************************************************)
EXTENDS HardRules, FiniteSets, Sequences

CONSTANTS
    Ballots,    \* how the council may answer, a subset of AllBallots
    Worlds,     \* what the world state may hold besides the order counts
    Books,      \* the order counts considered, [buys, sells] records
    Events      \* rows the gate may write

Seats == {"casper", "melchior", "balthasar"}

(***************************************************************************)
(* A ballot is what the six seat calls return.                             *)
(*   failedAt   the call that raised: an opening, a later call, or "none"  *)
(*   verdict    Melchior's, after the rebuttal                             *)
(*   objects    Casper defers or stands down the structure                 *)
(*   veto, justified, stance, risk   Balthasar's synthesis                 *)
(*   inserted   the debate row of the cycle could be written               *)
(***************************************************************************)
AllBallots == [failedAt : {"none", "later"} \cup Seats, inserted : BOOLEAN,
               verdict : Verdicts, objects : BOOLEAN, justified : BOOLEAN,
               veto : {"PROCEED", "HOLD_GEOMETRY", "RISK_BLOCK"},
               stance : Mandates, risk : RiskActions]

ASSUME BallotsAssumption == Ballots \subseteq AllBallots
ASSUME BooksAssumption   == \* closed under the loss of a side
    /\ Books \subseteq [buys : Nat, sells : Nat]
    /\ \A b \in Books : {[b EXCEPT !.buys = 0], [b EXCEPT !.sells = 0],
                        [buys |-> 0, sells |-> 0]} \subseteq Books
AllWorlds == [skew : Int, usd : Int, xrpValue : Int, inBand : BOOLEAN,
              sinceBuild : Nat, sinceFill : Nat, closing : BOOLEAN,
              capEngaged : BOOLEAN, scorerOk : BOOLEAN]
ASSUME WorldsAssumption  == Worlds \subseteq AllWorlds /\ Worlds # {}

VARIABLES
    phase,      \* idle, stamped, deliberating, decided or evaluated
    stop,       \* what a guardrail would report: none, kill or loss
    book,       \* open orders per side
    world,      \* the frozen world state of the running cycle
    records,    \* degraded seats of the last two debate_records rows
    standing,   \* system_state council_stance
    gate,       \* per event: unfired, written (uncommitted), pending, consumed
    stamped,    \* events written by the time stamp of the world state
    seen,       \* events the council has ever been shown
    ballot,     \* the ballot of the running cycle, from Decide to Apply
    facts,      \* what its enforcement read
    cons        \* what it decided

vars == <<phase, stop, book, world, records, standing, gate, stamped, seen,
          ballot, facts, cons>>
gateVars == <<gate, stamped, seen>>
councilVars == <<world, records, standing, ballot, facts, cons>>

-----------------------------------------------------------------------------
(***************************************************************************)
(* run_council.                                                            *)
(***************************************************************************)
\* A failed call ends the sequence; the seats that have not opened are recorded
\* on their safe defaults.
SafeDefaulted(b) ==
    CASE b.failedAt = "casper"    -> Seats
      [] b.failedAt = "melchior"  -> {"melchior", "balthasar"}
      [] b.failedAt = "balthasar" -> {"balthasar"}
      [] OTHER                    -> {}

\* The structural veto of the arbiter, which bites a RECONFIGURE only.
Vetoed(b) == /\ b.verdict = "RECONFIGURE"
             /\ \/ b.veto \in {"HOLD_GEOMETRY", "RISK_BLOCK"}
                \/ b.objects /\ ~b.justified

\* Geometry is present iff Melchior says RECONFIGURE, vetoed or not.
SafeDeploy(b) == [verdict |-> "THESIS_HOLDS", stance |-> "DEPLOY", risk |-> "CLEAR",
                  geometry |-> FALSE]
SafeHold(b) == [verdict |-> "THESIS_HOLDS", stance |-> "HOLD", risk |-> "CLEAR",
                geometry |-> b.failedAt \in {"balthasar", "later"}
                             /\ b.verdict = "RECONFIGURE"]
Consensus(b) ==
    IF b.failedAt # "none" THEN SafeHold(b)
    ELSE [verdict |-> IF Vetoed(b) THEN "THESIS_HOLDS" ELSE b.verdict,
          stance |-> b.stance, risk |-> b.risk,
          geometry |-> b.verdict = "RECONFIGURE"]

\* The agents on safe defaults in both of the last two rows, if there are two.
DegradedCount(rs) == IF Len(rs) < 2 THEN 0 ELSE Cardinality(rs[1] \cap rs[2])

\* The last two rows once another one is inserted.
RecordedAll(rs, seats)    == Append(rs, seats)
RecordedOldest(rs, seats) == IF Len(rs) < 2 THEN Append(rs, seats) ELSE rs
Recorded(rs, seats) == IF Len(rs) < 2 THEN Append(rs, seats)
                       ELSE <<rs[2], seats>>

FactsNow == [buys |-> book.buys, sells |-> book.sells, skew |-> world.skew,
             usd |-> world.usd, xrpValue |-> world.xrpValue,
             inBand |-> world.inBand, sinceBuild |-> world.sinceBuild,
             sinceFill |-> world.sinceFill, closing |-> world.closing,
             degraded |-> DegradedCount(records), killed |-> stop = "kill",
             lossTripped |-> stop = "loss", capEngaged |-> world.capEngaged,
             scorerOk |-> world.scorerOk]

\* What the world state shows the council: every row committed and unconsumed.
Unconsumed == {e \in Events : gate[e] = "pending"}

\* The rows the cycle consumes: committed, unconsumed, no later than the stamp.
AllPending == {e \in Events : gate[e] = "pending"}
Consumable == {e \in stamped : gate[e] = "pending"}

(***************************************************************************)
(* apply_magi_decision, seen from the order counts.  A rebuild may be      *)
(* refused, fail at its anchor, or land on any book the inventory and the  *)
(* exposure cap allow.                                                     *)
(***************************************************************************)
Empty == [buys |-> 0, sells |-> 0]
Rebuild == Books
AfterGrid(c) == IF c.grid = "RECENTRE" THEN Rebuild ELSE {book}
AfterRisk(c, b) ==
    CASE c.risk = "PAUSE_LONGS"  -> [b EXCEPT !.buys = 0]
      [] c.risk = "PAUSE_SHORTS" -> [b EXCEPT !.sells = 0]
      [] OTHER                   -> b
Applied(c) ==
    IF c.grid \in {"HALT", "GRID_PAUSE"} \/ c.risk = "HALT" THEN {Empty}
    ELSE {AfterRisk(c, b) : b \in AfterGrid(c)}

-----------------------------------------------------------------------------
\* The locals of a cycle when none runs.
NoWorld  == CHOOSE w \in Worlds : TRUE
NoBallot == [failedAt |-> "none", inserted |-> TRUE, verdict |-> "THESIS_HOLDS",
             objects |-> FALSE, justified |-> FALSE, veto |-> "PROCEED",
             stance |-> "DEPLOY", risk |-> "CLEAR"]
NoFacts  == [buys |-> 0, sells |-> 0, skew |-> 0, usd |-> 0, xrpValue |-> 0,
             inBand |-> FALSE, sinceBuild |-> 0, sinceFill |-> 0,
             closing |-> FALSE, degraded |-> 0, killed |-> FALSE,
             lossTripped |-> FALSE, capEngaged |-> FALSE, scorerOk |-> FALSE]
NoCons   == [grid |-> "MAINTAIN", risk |-> "CLEAR", stance |-> "NONE",
             tags |-> {}, source |-> "unchanged"]

Init == /\ phase = "idle"
        /\ stop = "none"
        /\ book \in Books
        /\ world = NoWorld
        /\ records = <<>>
        /\ standing = "NONE"
        /\ gate = [e \in Events |-> "unfired"]
        /\ stamped = {} /\ seen = {}
        /\ ballot = NoBallot /\ facts = NoFacts /\ cons = NoCons

\* run_magi_cycle under a failing guardrail: no cycle, every order cancelled.
Blocked == /\ phase = "idle" /\ stop # "none"
           /\ book' = Empty
           /\ UNCHANGED <<phase, stop, councilVars, gateVars>>

\* build_world_state takes its time stamp first, ...
Stamp == /\ phase = "idle" /\ stop = "none"
         /\ phase' = "stamped"
         /\ stamped' = {e \in Events : gate[e] # "unfired"}
         /\ UNCHANGED <<stop, book, councilVars, gate, seen>>

\* ... and reads the unconsumed gate events last.
BuildWorldState ==
    /\ phase = "stamped"
    /\ phase' = "deliberating"
    /\ world' \in Worlds
    /\ seen' = seen \cup Unconsumed
    /\ UNCHANGED <<stop, book, records, standing, gate, stamped, ballot, facts, cons>>

\* run_council and enforce_hard_rules, then the records of the cycle.  When the
\* debate row cannot be inserted the events stay; a failed council leaves the
\* standing stance alone.
Decide ==
    /\ phase = "deliberating"
    /\ \E b \in Ballots :
          /\ ballot' = b
          /\ facts' = FactsNow
          /\ cons' = EnforceHardRules(Consensus(b), FactsNow)
          /\ records' = IF b.inserted THEN Recorded(records, SafeDefaulted(b))
                        ELSE records
          /\ gate' = [e \in Events |-> IF b.inserted /\ e \in Consumable
                                       THEN "consumed" ELSE gate[e]]
          /\ standing' = IF b.failedAt = "none" THEN b.stance ELSE standing
    /\ phase' = "decided"
    /\ UNCHANGED <<stop, book, world, stamped, seen>>

\* evaluate_and_maybe_switch_levels, on every cycle whose grid action is not
\* HALT: a shadow variant that beats the live level count rebuilds the grid.
EvaluateLevels == /\ phase = "decided"
                  /\ book' \in IF cons.grid = "HALT" THEN {book} ELSE Rebuild
                  /\ phase' = "evaluated"
                  /\ UNCHANGED <<stop, councilVars, gateVars>>

Apply == /\ phase = "evaluated"
         /\ book' \in Applied(cons)
         /\ phase' = "idle"
         /\ world' = NoWorld
         /\ ballot' = NoBallot /\ facts' = NoFacts /\ cons' = NoCons
         /\ UNCHANGED <<stop, records, standing, gateVars>>

\* The observer fills an order, and replaces it or not.
Fill == /\ phase = "idle"
        /\ \E b \in Books :
              /\ \/ b.sells = book.sells - 1 /\ b.buys \in {book.buys, book.buys + 1}
                 \/ b.buys = book.buys - 1 /\ b.sells \in {book.sells, book.sells + 1}
              /\ book' = b
        /\ UNCHANGED <<phase, stop, councilVars, gateVars>>

\* The gate threads: a row gets its time stamp, its transaction commits later.
WriteEvent(e) == /\ gate[e] = "unfired"
                 /\ gate' = [gate EXCEPT ![e] = "written"]
                 /\ UNCHANGED <<phase, stop, book, councilVars, stamped, seen>>
CommitEvent(e) == /\ gate[e] = "written"
                  /\ gate' = [gate EXCEPT ![e] = "pending"]
                  /\ UNCHANGED <<phase, stop, book, councilVars, stamped, seen>>

\* The halt file appears or goes, the day's loss crosses its limit or recovers.
StopChanges == /\ stop' \in {"none", "kill", "loss"} \ {stop}
               /\ UNCHANGED <<phase, book, councilVars, gateVars>>

Cycle == Stamp \/ BuildWorldState \/ Decide \/ EvaluateLevels \/ Apply
Next  == \/ Cycle
         \/ Blocked
         \/ Fill
         \/ StopChanges
         \/ \E e \in Events : WriteEvent(e) \/ CommitEvent(e)

\* The scheduler's daily floor and backstop keep cycles coming.
Spec == Init /\ [][Next]_vars /\ WF_vars(Cycle)

-----------------------------------------------------------------------------
(***************************************************************************)
(* Properties.                                                             *)
(***************************************************************************)
TypeOK ==
    /\ phase \in {"idle", "stamped", "deliberating", "decided", "evaluated"}
    /\ stop \in {"none", "kill", "loss"}
    /\ book \in Books
    /\ world \in Worlds
    /\ records \in Seq(SUBSET Seats) /\ Len(records) <= 2
    /\ standing \in Mandates \cup {"NONE"}
    /\ gate \in [Events -> {"unfired", "written", "pending", "consumed"}]
    /\ stamped \subseteq Events /\ seen \subseteq Events
    /\ ballot \in Ballots \cup {NoBallot}
    /\ facts \in Facts
    /\ cons \in Decisions

Ruled == phase \in {"decided", "evaluated"}

\* A stop that the enforcement saw, a skew over the ceiling, and a council gone
\* for two cycles, end in a halt of both actions whatever the rules on the book
\* would rather do: the survival rules outrank the council and rules 4 to 8.
SurvivalHalts ==
    Ruled /\ (\/ facts.killed
              \/ facts.lossTripped
              \/ Abs(facts.skew) > MaxAllocationSkew
              \/ facts.degraded >= 2) => cons.grid = "HALT" /\ cons.risk = "HALT"

\* The council's decision never rebuilds against its own mandate: not under a
\* HOLD or STAND_ASIDE stance, not on NO_PROFITABLE_GRID, and an engaged
\* exposure cap is rebuilt under only when Melchior himself asks for it.
MandateBlocksRebuild ==
    Ruled /\ cons.grid = "RECENTRE" =>
        /\ cons.stance \notin {"HOLD", "STAND_ASIDE"}
        /\ "NO_PROFITABLE_GRID" \notin cons.tags
        /\ facts.capEngaged => ballot.verdict = "RECONFIGURE"

\* A rebuild that leaves the rules carries a geometry with a known source.
RebuildHasGeometry == Ruled => (cons.grid = "RECENTRE" <=> cons.source # "unchanged")

\* A partial pause of a thin side never leaves the rules, unless a buffer floor
\* or the stance ordered it: otherwise it would strip a side of one order.
PauseSparesThinSide ==
    Ruled /\ cons.tags \cap {"USD_BUFFER_FLOOR", "XRP_BUFFER_FLOOR",
                            "STANCE_STAND_ASIDE"} = {} =>
        /\ cons.grid # "HALT" /\ cons.risk = "PAUSE_LONGS" => LongHeavy(facts)
        /\ cons.grid # "HALT" /\ cons.risk = "PAUSE_SHORTS" => ShortHeavy(facts)

\* A cycle under STAND_ASIDE ends with no buy order on the book, whatever a
\* level switch put there a moment before, unless a degraded seat froze the grid.
StandAsideEndsBuys ==
    [][(/\ phase = "evaluated" /\ phase' = "idle"
        /\ cons.stance = "STAND_ASIDE"
        /\ "AGENT_DEGRADED" \notin cons.tags) => book'.buys = 0]_vars

\* A council that did not convene changes no standing stance, decides no rebuild,
\* and no step of its cycle adds an order but the level switch.  That one is
\* evaluated whatever the council did, and may rebuild, unless the decision halts.
LevelSwitch == phase = "decided" /\ phase' = "evaluated"
OutageDecidesNothing ==
    [][/\ phase = "deliberating" /\ ballot'.failedAt # "none" =>
              standing' = standing /\ cons'.grid # "RECENTRE"
       /\ ballot.failedAt # "none" /\ (LevelSwitch => cons.grid = "HALT") =>
              book'.buys <= book.buys /\ book'.sells <= book.sells]_vars

\* An event written after the time stamp of the world state is not consumed by
\* that cycle, and none is when the debate row is not inserted.
LateEventsSurvive ==
    [][\A e \in Events : gate[e] # "consumed" /\ gate'[e] = "consumed" =>
          e \in stamped /\ ballot'.inserted]_vars

\* When the stops are gone for good and every seat answers and is recorded, the
\* collapse halt ends: the two rows it looks at are replaced by healthy ones.
CouncilRecovers ==
    <>[](stop = "none" /\ ballot.failedAt = "none" /\ ballot.inserted)
        => <>[]("COUNCIL_COLLAPSED" \notin cons.tags)

(***************************************************************************)
(* What the documentation says and the code does not do.                   *)
(***************************************************************************)
\* "HOLD_GEOMETRY / RISK_BLOCK over a RECONFIGURE holds the grid (no rebuild
\* this cycle)": but rule 6 forces the rebuild back on a one-sided book, with
\* the very geometry the arbiter vetoed.
VetoHoldsGrid ==
    Ruled /\ ballot.failedAt = "none" /\ Vetoed(ballot)
        => cons.grid # "RECENTRE"



\* Triggers fired before the debate row is inserted are surfaced rather than
\* lost: but a row stamped before the world state and committed after it is read
\* is consumed unseen.
EventsSurface == \A e \in Events : gate[e] = "consumed" => e \in seen
=============================================================================

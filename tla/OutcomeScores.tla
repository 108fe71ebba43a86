--------------------------- MODULE OutcomeScores ----------------------------
(***************************************************************************)
(* observer.poll_cycle after the indicators: the outcome of every council  *)
(* cycle is computed when its windows mature, its seats and its stance are *)
(* graded after 72 hours, and all of it is mirrored to Langfuse.  A        *)
(* receipt is written only when every POST was answered 2xx; what has no   *)
(* receipt is tried again by a later pass, a few rows per pass, oldest     *)
(* first.  The effect metrics go to the newest trace once per UTC day.     *)
(*                                                                         *)
(* The age of a cycle is a class: 1, 2, 3 once its 1 h, 6 h, 24 h windows  *)
(* are over, 4 after 72 hours, 5 when the candles cover them too.  Values  *)
(* are left out; what a grade needs is kept.                               *)
(*                                                                         *)
(* ReceiptAnyway and ReadyAnyway are faulty variants, for the mutant runs. *)
(***************************************************************************)
EXTENDS Integers, Sequences, FiniteSets, SequencesExt

CONSTANTS
    Cycles,     \* 1..n, the rows of debate_records in the order of their ids
    Traced,     \* those with a trace_id
    Vote,       \* per cycle: the positions of the seats, the veto, the stance
    Gapped,     \* those with fewer than 48 candles in their 72 hours
    Windows,    \* the windows in the order of the code: <<"1h", "6h", "24h">>
    PerPass,    \* rows a sweep takes (3; 5 for the seats)
    LastDay,    \* bound: UTC days
    ScoreFaults \* bound: dropped POSTs, failed computations, crashes

ASSUME ScoreAssumption ==
    /\ Traced \subseteq Cycles /\ Gapped \subseteq Cycles
    /\ Windows \in Seq({"1h", "6h", "24h"})
    /\ {PerPass, LastDay} \subseteq Nat \ {0} /\ ScoreFaults \in Nat

VARIABLES
    age,        \* class of age of each cycle
    backfilled, \* outcome_{window}_backfilled
    graded,     \* stance_correct IS NOT NULL
    receipts,   \* outcome_{window}_scores_pushed, seat_ and stance_scores_pushed
    landed,     \* history: scores Langfuse has
    stage,      \* stage of the pass, an index of Stages
    rows,       \* rows the sweep has still to try
    answer,     \* "unread" before the sweep selects them, then of the first one's POSTs
    today,      \* UTC date
    pushedFor,  \* system_state effect_scores_pushed_date; 0 is no date
    mishaps

dayVars == <<today, pushedFor>>
scoreVars == <<age, backfilled, graded, receipts, landed, stage, rows, answer, dayVars, mishaps>>

Stages == <<"backfill">> \o Windows \o <<"effects", "seats", "grade", "stance">>
Seats == {"casper", "melchior", "balthasar"}
Maturity(window) == CASE window = "1h" -> 1 [] window = "6h" -> 2 [] window = "24h" -> 3
Older(c, d) == c < d

\* A query: the rows of a set, oldest first, at most so many.
Oldest(S, n) ==
    LET all == SetToSortSeq(S, Older)
    IN  SubSeq(all, 1, IF Len(all) < n THEN Len(all) ELSE n)

-----------------------------------------------------------------------------
(***************************************************************************)
(* The graders: "grade", "wait" (a transient reason) or "never".           *)
(***************************************************************************)
Covered(c) == IF age[c] = 5 THEN "grade" ELSE "wait"
HasOutcome(c) == <<"6h", c>> \in backfilled

\* _grade_casper_row: the regime the candles then realised.
GradeCasper(c) == Covered(c)

\* _grade_melchior_row: RECONFIGURE is graded by the outcome, and given up
\* when there is none; the others by simulation.
GradeMelchior(c) ==
    CASE Vote[c].melchior \in {"THESIS_HOLDS", "NO_PROFITABLE_GRID"} -> Covered(c)
      [] Vote[c].melchior = "RECONFIGURE" -> IF HasOutcome(c) THEN "grade" ELSE "never"
      [] OTHER -> "never"

\* _grade_balthasar_row: not his call, an applied veto, or the realised outcome.
GradeBalthasar(c) ==
    CASE Vote[c].balthasar = "overridden" -> "never"
      [] Vote[c].balthasar = "veto"       -> Covered(c)
      [] OTHER -> IF HasOutcome(c) THEN "grade" ELSE "wait"

Grade(c, seat) ==
    IF Vote[c][seat] = "silent" THEN "never"
    ELSE CASE seat = "casper"    -> GradeCasper(c)
           [] seat = "melchior"  -> GradeMelchior(c)
           [] seat = "balthasar" -> GradeBalthasar(c)

-----------------------------------------------------------------------------
(***************************************************************************)
(* What each sweep takes, and what it posts for a row.                     *)
(***************************************************************************)
Unreceipted(kind) == {c \in Cycles : <<kind, c>> \notin receipts}

\* get_pending_score_pushes: a row without a trace can never deliver.
PendingOfAll(window) == Unreceipted(window) \cap {c \in Cycles : <<window, c>> \in backfilled}
Pending(window) == PendingOfAll(window) \cap Traced

\* backfill_seat_accuracy_scores and Part B of backfill_stance_grades.
SeatCandidates == {c \in Traced \cap Unreceipted("seats") : age[c] >= 4}
StanceCandidates == graded \cap Unreceipted("stance")

Selected(kind) ==
    Oldest(IF kind = "seats" THEN SeatCandidates
          ELSE IF kind = "stance" THEN StanceCandidates ELSE Pending(kind), PerPass)

Scores(kind, c) ==
    IF kind = "seats" THEN {s \in Seats : Grade(c, s) = "grade"} ELSE {kind}

ReadyAnyway(kind, c) == TRUE
\* A row of the seats waits while any seat's reason is transient.
Ready(kind, c) == kind = "seats" => \A s \in Seats : Grade(c, s) # "wait"

-----------------------------------------------------------------------------
ScoreInit ==
    /\ age = [c \in Cycles |-> 0]
    /\ backfilled = {} /\ graded = {} /\ receipts = {} /\ landed = {}
    /\ stage = 1 /\ rows = <<>> /\ answer = "unread"
    /\ today = 1 /\ pushedFor = 0 /\ mishaps = 0

Mishap(happens) ==
    /\ happens => mishaps < ScoreFaults
    /\ mishaps' = IF happens THEN mishaps + 1 ELSE mishaps

\* A receipt is due when every POST was answered 2xx.
ReceiptAnyway(given) == TRUE
Confirmed(given) == given = "delivered"

Kind == Stages[stage]
NextStage ==
    /\ stage' = IF stage = Len(Stages) THEN 1 ELSE stage + 1
    /\ rows' = <<>> /\ answer' = "unread"

\* backfill_outcomes: every window that is over, except a row that raises.
BackfillOutcomes ==
    /\ Kind = "backfill"
    /\ LET due == {<<Windows[i], c>> : i \in 1..Len(Windows), c \in Cycles}
           ripe == {d \in due \ backfilled : age[d[2]] >= Maturity(d[1])}
       IN  \E failed \in {{}} \cup {{d} : d \in ripe} :
              /\ Mishap(failed # {})
              /\ backfilled' = backfilled \cup (ripe \ failed)
    /\ NextStage
    /\ UNCHANGED <<age, graded, receipts, landed, dayVars>>

(***************************************************************************)
(* push_daily_effect_scores: nothing on a day that has its date, nor while *)
(* no trace exists; the date is written when the POST was answered, and is *)
(* the one read before it, though midnight may have passed.                *)
(***************************************************************************)
EffectsDone ==
    /\ Kind = "effects" /\ answer = "unread"
    /\ pushedFor = today \/ Traced = {}
    /\ NextStage
    /\ UNCHANGED <<age, backfilled, graded, receipts, landed, dayVars, mishaps>>
PushEffects ==
    /\ Kind = "effects" /\ answer = "unread"
    /\ pushedFor # today /\ Traced # {}
    /\ \E ok \in BOOLEAN :
          /\ Mishap(~ok)
          /\ answer' = IF ok THEN "delivered" ELSE "dropped"
          /\ landed' = IF ok THEN landed \cup {<<"effects", today>>} ELSE landed
    /\ rows' = <<today>>
    /\ UNCHANGED <<age, backfilled, graded, receipts, stage, dayVars>>
EffectsReceipt ==
    /\ Kind = "effects" /\ answer \in {"delivered", "dropped"}
    /\ pushedFor' = IF Confirmed(answer) THEN Head(rows) ELSE pushedFor
    /\ NextStage
    /\ UNCHANGED <<age, backfilled, graded, receipts, landed, today, mishaps>>
NewDay ==
    /\ today < LastDay /\ today' = today + 1
    /\ UNCHANGED <<age, backfilled, graded, receipts, landed, stage, rows, answer, pushedFor,
                   mishaps>>

\* backfill_stance_grades, Part A.
GradeStances ==
    /\ Kind = "grade"
    /\ graded' = graded \cup {c \in Cycles \ Gapped : Vote[c].stance # "none" /\ age[c] >= 4}
    /\ NextStage
    /\ UNCHANGED <<age, backfilled, receipts, landed, dayVars, mishaps>>

Sweeping == Kind \notin {"backfill", "effects", "grade"}
SelectRows ==
    /\ Sweeping /\ answer = "unread"
    /\ rows' = Selected(Kind) /\ answer' = "none"
    /\ UNCHANGED <<age, backfilled, graded, receipts, landed, stage, dayVars, mishaps>>

Trying(c) == Sweeping /\ answer = "none" /\ rows # <<>> /\ Head(rows) = c
SkipRow ==
    /\ \E c \in Cycles : Trying(c) /\ ~Ready(Kind, c)
    /\ rows' = Tail(rows)
    /\ UNCHANGED <<age, backfilled, graded, receipts, landed, stage, answer, dayVars, mishaps>>

\* push_trace_scores: one POST per score; any of them may be dropped.
PushTraceScores ==
    /\ \E c \in Cycles : \E ok \in SUBSET Scores(Kind, c) :
          /\ Trying(c) /\ Ready(Kind, c)
          /\ c \notin Traced => ok = {}
          /\ LET all == c \notin Traced \/ ok = Scores(Kind, c)
             IN  /\ Mishap(~all)
                 /\ answer' = IF all THEN "delivered" ELSE "dropped"
          /\ landed' = landed \cup {<<s, c>> : s \in ok}
    /\ UNCHANGED <<age, backfilled, graded, receipts, stage, rows, dayVars>>

Receipt ==
    /\ Sweeping /\ answer \in {"delivered", "dropped"}
    /\ receipts' = IF Confirmed(answer) THEN receipts \cup {<<Kind, Head(rows)>>} ELSE receipts
    /\ rows' = Tail(rows) /\ answer' = "none"
    /\ UNCHANGED <<age, backfilled, graded, landed, stage, dayVars, mishaps>>

SweepEnds ==
    /\ Sweeping /\ answer = "none" /\ rows = <<>>
    /\ NextStage
    /\ UNCHANGED <<age, backfilled, graded, receipts, landed, dayVars, mishaps>>

\* The process dies between any two steps; the next pass starts over.
Crash ==
    /\ Mishap(TRUE)
    /\ stage' = 1 /\ rows' = <<>> /\ answer' = "unread"
    /\ UNCHANGED <<age, backfilled, graded, receipts, landed, dayVars>>

\* A cycle ages; an older cycle is never in a younger class.
Ages ==
    /\ \E c \in Cycles :
          /\ age[c] < 5 /\ \A d \in Cycles : d < c => age[c] < age[d]
          /\ age' = [age EXCEPT ![c] = @ + 1]
    /\ UNCHANGED <<backfilled, graded, receipts, landed, stage, rows, answer, dayVars, mishaps>>

Pass ==
    \/ BackfillOutcomes \/ GradeStances \/ SelectRows \/ SkipRow
    \/ PushTraceScores \/ Receipt \/ SweepEnds
    \/ EffectsDone \/ PushEffects \/ EffectsReceipt
ScoreNext == Pass \/ Crash \/ Ages \/ NewDay
ScoreSpec == ScoreInit /\ [][ScoreNext]_scoreVars

-----------------------------------------------------------------------------
\* The scores of a cycle with a trace: every window, every seat that has a
\* grade in the end, the stance.  A RECONFIGURE that no realised outcome of
\* Balthasar waits for may be given up, and is not owed.
Owed(c) ==
    {Windows[i] : i \in 1..Len(Windows)}
    \cup {s \in Seats \cap {"casper"} : Vote[c].casper # "silent"}
    \cup {s \in Seats \cap {"melchior"} :
            \/ Vote[c].melchior \in {"THESIS_HOLDS", "NO_PROFITABLE_GRID"}
            \/ Vote[c].melchior = "RECONFIGURE" /\ Vote[c].balthasar = "clear"}
    \cup {s \in Seats \cap {"balthasar"} : Vote[c].balthasar \in {"veto", "clear"}}
    \cup (IF Vote[c].stance # "none" /\ c \notin Gapped THEN {"stance"} ELSE {})

Covers(kind) == IF kind = "seats" THEN Seats ELSE {kind}

\* A receipt ends the attempts for good, so it is there only when nothing is
\* missing: every score that is owed under it was answered, whatever was dropped,
\* graded late or cut by a crash in between; and the date of the effect metrics is
\* that of a day whose metrics arrived ("set the delivery receipt only when
\* push_trace_scores reports every score landed").
ReceiptsHonest ==
    /\ \A receipt \in receipts : receipt[2] \in Traced =>
          \A s \in Owed(receipt[2]) \cap Covers(receipt[1]) : <<s, receipt[2]>> \in landed
    /\ pushedFor # 0 => <<"effects", pushedFor>> \in landed

\* Every score of every traced cycle reaches Langfuse, and the effect metrics of
\* a day that lasts, through dropped POSTs, failed computations, crashes between
\* a POST and its receipt, and rows at the head of the queue that cannot be
\* delivered (push_pending_outcome_scores: "lost scores irrecoverably").
Delivered ==
    []<>(/\ \A c \in Traced : \A s \in Owed(c) : <<s, c>> \in landed
         /\ Traced # {} => <<"effects", today>> \in landed)
=============================================================================

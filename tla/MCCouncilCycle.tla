--------------------------- MODULE MCCouncilCycle ---------------------------
(***************************************************************************)
(* Instances of CouncilCycle for TLC.  The rules instance has few books    *)
(* but every kind of world the rules tell apart and no gate events; the    *)
(* ledger instance has one quiet world and one gate event.                *)
(***************************************************************************)
EXTENDS CouncilCycle

Book(b, s) == [buys |-> b, sells |-> s]
MCBooks == {Book(0, 0), Book(0, 2), Book(3, 0), Book(3, 2)}
LedgerBooks == {Book(0, 0), Book(0, 1), Book(1, 0), Book(1, 1)}

\* Allocations: balanced, long with little USD, short with little XRP.
Allocation == {<<0, 50, 50>>, <<40, 5, 50>>, <<-40, 50, 5>>}
\* In band on a fresh grid, drifted shortly after a fill, stale.
Market == {<<TRUE, 0, 1, FALSE>>, <<FALSE, 2, 1, TRUE>>, <<FALSE, 5, 25, FALSE>>}

World(a, m, cap, ok) ==
    [skew |-> a[1], usd |-> a[2], xrpValue |-> a[3], inBand |-> m[1],
     sinceBuild |-> m[2], sinceFill |-> m[3], closing |-> m[4],
     capEngaged |-> cap, scorerOk |-> ok]
MCWorlds ==
    {World(a, m, FALSE, TRUE) : a \in Allocation, m \in Market}
    \cup {World(<<40, 5, 50>>, <<FALSE, 2, 1, TRUE>>, TRUE, TRUE),
          World(<<0, 50, 50>>, <<FALSE, 5, 25, FALSE>>, FALSE, FALSE),
          World(<<90, 2, 98>>, <<FALSE, 5, 25, FALSE>>, FALSE, TRUE)}
LedgerWorlds == {World(<<0, 50, 50>>, <<FALSE, 2, 1, FALSE>>, FALSE, TRUE)}

Ballot(f, v, veto, objects, justified, s, r) ==
    [failedAt |-> f, inserted |-> TRUE, verdict |-> v, objects |-> objects,
     justified |-> justified, veto |-> veto, stance |-> s, risk |-> r]
Failed(f) == Ballot(f, "THESIS_HOLDS", "PROCEED", FALSE, FALSE, "HOLD", "CLEAR")
Plain(v)  == {Ballot("none", v, "PROCEED", FALSE, FALSE, s, r) :
                 s \in Mandates, r \in RiskActions}

MCBallots ==
    UNION {Plain(v) : v \in Verdicts}
    \cup {Ballot("none", "RECONFIGURE", veto, TRUE, justified, "DEPLOY", "CLEAR") :
             veto \in {"PROCEED", "HOLD_GEOMETRY"}, justified \in BOOLEAN}
    \cup {Failed("casper"), Failed("balthasar")}

\* A failure that leaves three, one and no seat on its defaults, and rows that cannot be inserted.
LedgerBallots ==
    LET answers == {Failed(f) : f \in {"casper", "balthasar", "later"}}
                   \cup {Ballot("none", "THESIS_HOLDS", "PROCEED", FALSE, FALSE,
                                s, "CLEAR") : s \in {"DEPLOY", "STAND_ASIDE"}}
    IN  answers \cup {[b EXCEPT !.inserted = FALSE] : b \in answers}
=============================================================================

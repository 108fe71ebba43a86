---------------------------- MODULE MCGridEngine ----------------------------
(***************************************************************************)
(* Instances of GridEngine for TLC.                                        *)
(***************************************************************************)
EXTENDS GridEngine, TLC

Geometry(s, n, b) == [spacing |-> s, levels |-> n, bias |-> b]
Wide   == Geometry(1, 2, 100)
Narrow == Geometry(1, 3, 100)
SmallGeometries == {Wide}
TwoGeometries == {Wide, Narrow}
SmallAccount  == [xrp |-> 1, usd |-> 6]

Choose(g, r, geo) == [grid |-> g, risk |-> r, geometry |-> geo]
EngineChoices ==
    {Choose("MAINTAIN", "CLEAR", NoGeometry),
     Choose("MAINTAIN", "PAUSE_LONGS", NoGeometry),
     Choose("RECENTRE", "CLEAR", Wide),
     Choose("RECENTRE", "PAUSE_SHORTS", Wide),
     Choose("GRID_PAUSE", "CLEAR", NoGeometry),
     Choose("HALT", "HALT", NoGeometry)}

BuildSymmetry == Permutations(Builds)
=============================================================================

----------------------------- MODULE ExposureCap -----------------------------
(***************************************************************************)
(* What the down-walk exposure cap promises to count (config.py,           *)
(* DOWN_WALK_CAP_STREAK): the rebuilds in a row that landed below the one  *)
(* before, each within the link window of it.  A rebuild that lands higher *)
(* ends the walk.  Nothing else than a rebuild that lands changes it.      *)
(*                                                                         *)
(* Where and when the last rebuild landed may be lost until they are kept, *)
(* the centre before the date; that it landed is counted at once.          *)
(***************************************************************************)
EXTENDS Integers

CONSTANT Prices
VARIABLES streak, centre, linked,   \* as of the last rebuild that landed
          kept                      \* the centre and link a loss goes back to
cap == <<streak, centre, linked, kept>>

Last == [centre |-> centre, linked |-> linked]

Init == streak = 0 /\ centre = 0 /\ linked = FALSE /\ kept = Last

Lower(c)  == centre # 0 /\ c < centre
Level(c)  == centre # 0 /\ c = centre
Land(c) ==
    /\ kept = Last
    /\ streak' = IF Lower(c) THEN (IF linked THEN streak ELSE 0) + 1
                 ELSE IF Level(c) /\ linked THEN streak ELSE 0
    /\ centre' = c
    /\ linked' = TRUE
    /\ UNCHANGED kept

Keep == /\ kept' \in {Last, [kept EXCEPT !.centre = centre]}
        /\ UNCHANGED <<streak, centre, linked>>

Lose == /\ centre' = kept.centre /\ linked' = kept.linked
        /\ UNCHANGED <<streak, kept>>

Unlink == /\ linked /\ kept = Last
          /\ linked' = FALSE /\ kept' = Last'
          /\ UNCHANGED <<streak, centre>>

Next == Keep \/ Lose \/ Unlink \/ \E c \in Prices : Land(c)
Spec == Init /\ [][Next]_cap
=============================================================================

----------------------------- MODULE MCLiveBook -----------------------------
(***************************************************************************)
(* LiveBook for TLC: txids per side, the first of each usable as anchor.   *)
(***************************************************************************)
EXTENDS LiveBook
BuyIds == {1, 3}
SellIds == {2}
RestingIds == {1}
=============================================================================

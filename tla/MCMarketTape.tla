---------------------------- MODULE MCMarketTape ----------------------------
(***************************************************************************)
(* MarketTape for TLC.                                                     *)
(***************************************************************************)
EXTENDS MarketTape
=============================================================================

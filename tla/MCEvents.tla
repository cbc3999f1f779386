------------------------------ MODULE MCEvents ------------------------------
(***************************************************************************)
(* An instance of EventsFeed for TLC: pages of two events, milliseconds of *)
(* two ticks.                                                              *)
(***************************************************************************)
EXTENDS EventsFeed
=============================================================================

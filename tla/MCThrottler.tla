----------------------------- MODULE MCThrottler -----------------------------
(* Instance of Throttler for TLC.                                          *)
EXTENDS Throttler
=============================================================================

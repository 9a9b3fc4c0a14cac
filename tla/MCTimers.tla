------------------------------ MODULE MCTimers ------------------------------
(* Timers with four ids, one more than there are kinds; a heartbeat         *)
(* interval below the limit and one above it; a duration of the log messages *)
(* below the limit and one above it.                                        *)
EXTENDS Timers
=============================================================================

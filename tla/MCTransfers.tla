---------------------------- MODULE MCTransfers -----------------------------
(* Transfers with three RPCs of the ACS: transfers one after the other and  *)
(* at the same time, and queues with room for all, so that what is lost is *)
(* not lost to a full queue.                                                *)
EXTENDS Transfers
=============================================================================

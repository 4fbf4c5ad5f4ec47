--------------------------- MODULE MCHeartbeatCalls ---------------------------
(***************************************************************************)
(* Instances of HeartbeatCalls for TLC: heartbeats of each call.           *)
(***************************************************************************)
EXTENDS HeartbeatCalls

One_none == <<1, 0>>
One_one  == <<1, 1>>
===============================================================================

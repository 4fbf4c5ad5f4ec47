------------------------------ MODULE MCCluster ------------------------------
(***************************************************************************)
(* Instances of Cluster for TLC.                                           *)
(***************************************************************************)
EXTENDS Cluster, TLC

CONSTANTS a, b

(* The default precedences: a backup comes after the others.               *)
Default_precedence == [m \in Members |-> IF m \in Backups THEN 1 ELSE 0]
==============================================================================

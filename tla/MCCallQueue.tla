----------------------------- MODULE MCCallQueue -----------------------------
(***************************************************************************)
(* Instances of CallQueue for TLC.                                         *)
(***************************************************************************)
EXTENDS CallQueue, TLC

CONSTANTS j1, j2, t1, t2, t3

(* Two jobs, one of which has more tasks than it may run at a time.        *)
Two_one      == t1 :> j1 @@ t2 :> j1 @@ t3 :> j2
One_and_two  == j1 :> 1 @@ j2 :> 2
Some_times   == t1 :> {1} @@ t2 :> {0, 2} @@ t3 :> {0, 2}

(* Three tasks of one job, queued with at="period".                        *)
Three        == t1 :> j1 @@ t2 :> j1 @@ t3 :> j1
One_at_a_time == j1 :> 1
At_period    == [t \in {t1, t2, t3} |-> {0}]
==============================================================================

---------------------------- MODULE MCLockedTasks ----------------------------
(***************************************************************************)
(* Instances of LockedTasks for TLC: which task object belongs to which    *)
(* job, and which locks jobs and scripts use.                              *)
(***************************************************************************)
EXTENDS LockedTasks, TLC

CONSTANTS j1, j2, t1, t2, t3, t4, l1, l2

(* A single task.                                                          *)
One       == t1 :> j1
Tasks_one == j1 :> 1

(* Three tasks of one job, which are alike.                                *)
One_three       == t1 :> j1 @@ t2 :> j1 @@ t4 :> j1
Tasks_one_three == j1 :> 3
Alone           == j1 :> <<>>
Reads_l1        == j1 :> <<<<l1, lk_non_exclusive>>>>
Job_tasks_are_alike == Permutations({t1, t2, t4})

(* Two jobs that run one task at a time; j1 may have two task objects.     *)
One_one          == t1 :> j1 @@ t2 :> j2
Two_one          == t1 :> j1 @@ t2 :> j1 @@ t3 :> j2
Tasks_one_one    == [j \in {j1, j2} |-> 1]
One_exclusive    == [j \in {j1, j2} |-> <<<<l1, lk_exclusive>>>>]

(* Scripts that try to hold the locks in both modes.                       *)
Both_modes       == Locks \X Modes

(* Two jobs that use two locks exclusively, listed in opposite orders.     *)
Opposite_orders ==
  [j \in {j1, j2} |-> IF j = j1 THEN <<<<l1, lk_exclusive>>, <<l2, lk_exclusive>>>>
                      ELSE <<<<l2, lk_exclusive>>, <<l1, lk_exclusive>>>>]
==============================================================================

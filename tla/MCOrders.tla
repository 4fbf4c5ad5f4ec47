------------------------------ MODULE MCOrders ------------------------------
(* An instance of Orders: two orders, a chain of two nodes, each with a job of one task. *)
EXTENDS Orders, TLC

CONSTANTS o1, o2, j1, j2, t1, t2

MC_JobOf   == <<j1, j2>>
MC_TasksOf == [j \in {j1, j2} |-> IF j = j1 THEN {t1} ELSE {t2}]
MC_OnError == <<"setback", "suspend">>
MC_Configurations ==
    {[max_orders |-> 1, repeating |-> {}], [max_orders |-> 2, repeating |-> {o1, o2}]}
Symmetry == Permutations({o1, o2})
=============================================================================

-------------------------- MODULE MCProcessClasses ---------------------------
(***************************************************************************)
(* Instances of ProcessClasses for TLC.                                    *)
(***************************************************************************)
EXTENDS ProcessClasses, TLC

CONSTANTS j1, j2, t1, t2, t3, d, e

(* No job has a process class of its own: the jobs have the default class  *)
(* d.  The job chain of j2 has the process class e.                        *)
Job_of_three     == t1 :> j1 @@ t2 :> j1 @@ t3 :> j2
Default_class    == [j \in {j1, j2} |-> d]
Default_or_chain == j1 :> d @@ j2 :> e
Two_one          == j1 :> 2 @@ j2 :> 1
Tasks_are_alike  == Permutations({t1, t2})
Some_commands ==
  {<<"set_max_processes", e>>, <<"end_task", t3>>,
   <<"stop", j1>>, <<"unstop", j1>>}
Some_limits      == d :> {1} @@ e :> {0, 1}
==============================================================================

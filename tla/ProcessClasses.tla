--------------------------- MODULE ProcessClasses ----------------------------
(***************************************************************************)
(* Process classes, and the jobs and tasks that wait for their processes   *)
(* (spooler_process.cxx, spooler_job.cxx, spooler_task.cxx).               *)
(*                                                                         *)
(* A process class limits the number of processes.  A job whose process    *)
(* class has no process left waits in the list of the class; a task of an  *)
(* order may run in the class of its job chain, and waits there itself.    *)
(* The end of a process, a higher limit, and the removal of the first      *)
(* requestor notify one requestor of the list.  A task that has no order   *)
(* at the moment keeps its process, and is ended in favour of a requestor. *)
(*                                                                         *)
(* The main thread runs one call at a time.  While it is in                *)
(* try_start_tasks of a job, turn is this job.                             *)
(***************************************************************************)
EXTENDS Naturals, Sequences, FiniteSets

CONSTANTS Classes, Jobs, Tasks,
          Job_of,           \* [t]: the job whose task t is
          Job_class,        \* [j]: the job's process class, or the default class
          Task_class,       \* [j]: the class of the job's tasks, maybe that of the job chain
          Max_tasks,        \* [j]: the number of tasks that may run at a time
          Known_classes,    \* the classes that are there in the beginning
          Limits,           \* [c]: values of max_processes
          Max_orders,       \* bound: orders that wait at a job
          Commands,         \* what administrators and scripts do, and with what
          Nobody

ASSUME ProcessClassesAssumption ==
  /\ Job_of \in [Tasks -> Jobs] /\ IsFiniteSet(Tasks)
  /\ Job_class \in [Jobs -> Classes] /\ Task_class \in [Jobs -> Classes]
  /\ Max_tasks \in [Jobs -> Nat] /\ Max_orders \in Nat
  /\ Known_classes \subseteq Classes /\ Limits \in [Classes -> SUBSET Nat]
  /\ Jobs \cap Tasks = {} /\ Nobody \notin Jobs \cup Tasks

VARIABLES
  known,            \* the process classes that are active
  max_processes,    \* [c]
  process_set,      \* [c]: the tasks that have a process of the class
  requestor_list,   \* [c]: the jobs and tasks that wait
  orders,           \* [j]: the number of orders that wait
  job_state,        \* [j]
  waiting_for_process, try_again,    \* [j]: _waiting_for_process, ..._try_again
  task_state,       \* [t]
  end,              \* [t]: the task is asked to end
  calls,            \* calls that the main thread will execute
  turn              \* the job in try_start_tasks, or Nobody

class_vars == <<known, max_processes, process_set, requestor_list>>
job_vars   == <<orders, job_state, waiting_for_process, try_again>>
task_vars  == <<task_state, end>>
vars       == <<class_vars, job_vars, task_vars, calls, turn>>

Requestors == Jobs \cup Tasks
Class_of(t) == Task_class[Job_of[t]]

Init ==
  /\ known = Known_classes
  /\ max_processes \in {m \in [Classes -> UNION {Limits[c] : c \in Classes}] :
                         \A c \in Classes : m[c] \in Limits[c]}
  /\ process_set = [c \in Classes |-> {}]
  /\ requestor_list = [c \in Classes |-> <<>>]
  /\ orders = [j \in Jobs |-> 0]
  /\ job_state = [j \in Jobs |-> "pending"]
  /\ waiting_for_process = [j \in Jobs |-> FALSE]
  /\ try_again = [j \in Jobs |-> FALSE]
  /\ task_state = [t \in Tasks |-> "none"]
  /\ end = [t \in Tasks |-> FALSE]
  /\ calls = {}
  /\ turn = Nobody

-----------------------------------------------------------------------------
(* The process class.                                                      *)

Elements(list) == {list[i] : i \in DOMAIN list}

(* list::remove: the elements that are left, in their order.               *)
Without(list, r) ==
  LET left    == {i \in DOMAIN list : list[i] # r}
      Rank(i) == Cardinality({k \in left : k <= i})
  IN  [n \in 1 .. Cardinality(left) |-> list[CHOOSE i \in left : Rank(i) = n]]

Has_process(c) == c \in known /\ Cardinality(process_set[c]) < max_processes[c]

(* process_available: a job has to be the first requestor.                 *)
process_available(c, j) ==
  Has_process(c) /\ (requestor_list[c] # <<>> => Head(requestor_list[c]) = j)

(* waiting_requestor_or_null of a class with this list: the first task,    *)
(* or the first job.                                                       *)
waiting_requestor(list) ==
  LET tasks    == {i \in DOMAIN list : list[i] \in Tasks}
      First(I) == CHOOSE i \in I : \A k \in I : i <= k
  IN  IF list = <<>> THEN {} ELSE {list[IF tasks # {} THEN First(tasks) ELSE 1]}

\* Mutant: nobody is told that the first requestor has gone.
Notified_by_nobody(list, r) == {}

(* remove_requestor( r ) notifies another one if r was the first.          *)
Notified_by_removal(list, r) ==
  LET rest == Without(list, r)
  IN  IF rest # <<>> /\ Head(rest) # Head(list) THEN waiting_requestor(rest) ELSE {}

(* notify_a_process_is_available of the requestors R.                      *)
Process_calls(R) == {<<"process_available", r>> : r \in R}
Notified(R, again) == [j \in Jobs |-> again[j] \/ j \in R]

\* Mutant: idle tasks are not ended in favour of others.
Tasks_not_freed(c) == {{}}

Idle_tasks(c) == {t \in Tasks : task_state[t] = "idle" /\ ~end[t] /\ Class_of(t) = c}

(* try_to_free_process nice-ends one idle task, if there is one.           *)
Tasks_to_free(c) == IF Idle_tasks(c) = {} THEN {{}} ELSE {{t} : t \in Idle_tasks(c)}

End_calls(E) == {<<"end_task", t>> : t \in E}

set_max_processes(c, n) ==
  LET R == IF c \in known THEN waiting_requestor(requestor_list[c]) ELSE {}
  IN  /\ <<"set_max_processes", c>> \in Commands /\ turn = Nobody
      /\ n # max_processes[c]
      /\ max_processes' = [max_processes EXCEPT ![c] = n]
      /\ calls' = calls \cup Process_calls(R)
      /\ try_again' = Notified(R, try_again)
      /\ UNCHANGED <<known, process_set, requestor_list, orders, job_state,
                     waiting_for_process, task_vars, turn>>

(* A process class is loaded: the jobs that miss it are notified.          *)
on_requisite_loaded(c) ==
  LET R == {j \in Jobs : Job_class[j] = c /\ waiting_for_process[j]}
  IN  /\ turn = Nobody
      /\ c \notin known
      /\ known' = known \cup {c}
      /\ calls' = calls \cup Process_calls(R)
      /\ try_again' = Notified(R, try_again)
      /\ UNCHANGED <<max_processes, process_set, requestor_list, orders, job_state,
                     waiting_for_process, task_vars, turn>>

-----------------------------------------------------------------------------
(* Jobs.                                                                   *)

Tasks_of(j) == {t \in Tasks : Job_of[t] = j /\ task_state[t] # "none"}
Free_tasks(j) == {t \in Tasks : Job_of[t] = j /\ task_state[t] = "none"}

(* remove_waiting_job_from_process_list: the lists without j, the          *)
(* requestors that are notified by this, and the flags of the jobs.        *)
Lists_without(j) == [requestor_list EXCEPT ![Job_class[j]] = Without(@, j)]
Notified_without(j) == Notified_by_removal(requestor_list[Job_class[j]], j)
Flags_without(j) ==
  /\ waiting_for_process' = [waiting_for_process EXCEPT ![j] = FALSE]
  /\ try_again' = [Notified(Notified_without(j), try_again) EXCEPT ![j] = FALSE]

(* Guard of try_start_one_task.  A job that has been unstopped is pending  *)
(* although tasks run; Free_tasks bounds their number then.                *)
May_start_task(j) ==
  /\ \/ job_state[j] = "pending" /\ Max_tasks[j] > 0
     \/ job_state[j] = "running" /\ Cardinality(Tasks_of(j)) < Max_tasks[j]
  /\ ~waiting_for_process[j] \/ try_again[j]
  /\ Free_tasks(j) # {}

(* The new task t has a process of its own class at once, or waits for it. *)
Gets_process(t) ==
  LET k == Class_of(t)
  IN  /\ Has_process(k)
      /\ process_set' = [process_set EXCEPT ![k] = @ \cup {t}]
      /\ task_state' = [task_state EXCEPT ![t] = "running"]

Waits_for_process(t, lists, more_calls) ==
  LET k == Class_of(t)
  IN  /\ ~Has_process(k)
      /\ requestor_list' = [lists EXCEPT ![k] = Append(@, t)]
      /\ task_state' = [task_state EXCEPT ![t] = "waiting_for_process"]
      /\ \E E \in Tasks_to_free(k) :
           /\ end' = [u \in Tasks |-> end[u] \/ u \in E]
           /\ calls' = calls \cup more_calls \cup End_calls(E)
      /\ UNCHANGED process_set

(* task_to_start finds an order and a process: the new task takes the      *)
(* order.                                                                  *)
Start_task(j, t) ==
  LET withdrawal_calls == Process_calls(Notified_without(j))
  IN  /\ turn = j /\ May_start_task(j) /\ orders[j] > 0 /\ process_available(Job_class[j], j)
      /\ t \in Free_tasks(j) /\ Task_class[j] \in known
      /\ orders' = [orders EXCEPT ![j] = @ - 1]
      /\ job_state' = [job_state EXCEPT ![j] = "running"]
      /\ Flags_without(j)
      /\ \/ /\ Gets_process(t)
            /\ requestor_list' = Lists_without(j)
            /\ calls' = calls \cup withdrawal_calls
            /\ UNCHANGED end
         \/ Waits_for_process(t, Lists_without(j), withdrawal_calls)
      /\ UNCHANGED <<known, max_processes, turn>>

(* The process class of the job chain is missing: the order fails, and no  *)
(* task is started.                                                        *)
Order_fails(j) ==
  /\ turn = j /\ May_start_task(j) /\ orders[j] > 0 /\ process_available(Job_class[j], j)
  /\ Task_class[j] \notin known
  /\ orders' = [orders EXCEPT ![j] = @ - 1]
  /\ requestor_list' = Lists_without(j) /\ Flags_without(j)
  /\ calls' = calls \cup Process_calls(Notified_without(j))
  /\ turn' = Nobody
  /\ UNCHANGED <<known, max_processes, process_set, job_state, task_vars>>

(* There is an order but no process.  The job enters the list; if its      *)
(* class is missing, it waits without being in a list.                     *)
Wait_for_process(j) ==
  LET c == Job_class[j]
  IN  /\ turn = j /\ May_start_task(j) /\ orders[j] > 0 /\ ~process_available(c, j)
      /\ waiting_for_process' = [waiting_for_process EXCEPT ![j] = TRUE]
      /\ requestor_list' = IF c \in known /\ ~waiting_for_process[j]
                             THEN [requestor_list EXCEPT ![c] = Append(@, j)] ELSE requestor_list
      /\ try_again' = IF c \in known THEN [try_again EXCEPT ![j] = FALSE] ELSE try_again
      /\ \E E \in IF c \in known THEN Tasks_to_free(c) ELSE {{}} :
           /\ end' = [u \in Tasks |-> end[u] \/ u \in E]
           /\ calls' = calls \cup End_calls(E)
      /\ turn' = Nobody
      /\ UNCHANGED <<known, max_processes, process_set, orders, job_state, task_state>>

(* There is nothing to start.  A job that waits for the process that it    *)
(* could have leaves it to the next one.                                   *)
Start_nothing(j) ==
  /\ turn = j /\ ~(May_start_task(j) /\ orders[j] > 0)
  /\ IF May_start_task(j) /\ waiting_for_process[j] /\ process_available(Job_class[j], j)
       THEN /\ requestor_list' = Lists_without(j) /\ Flags_without(j)
            /\ calls' = calls \cup Process_calls(Notified_without(j))
       ELSE UNCHANGED <<requestor_list, waiting_for_process, try_again, calls>>
  /\ turn' = Nobody
  /\ UNCHANGED <<known, max_processes, process_set, orders, job_state, task_vars>>

(* An order arrives at the job.                                            *)
Add_order(j) ==
  /\ turn = Nobody
  /\ orders[j] < Max_orders
  /\ orders' = [orders EXCEPT ![j] = @ + 1]
  /\ calls' = calls \cup {<<"order_possibly_available", j>>}
  /\ UNCHANGED <<class_vars, job_state, waiting_for_process, try_again, task_vars, turn>>

\* Mutant: each idle task takes an order, whether there is one or not.
process_orders_unasked(j) ==
  LET idle == {t \in Tasks : Job_of[t] = j /\ task_state[t] = "idle" /\ ~end[t]}
  IN  /\ turn = Nobody /\ <<"order_possibly_available", j>> \in calls
      /\ calls' = calls \ {<<"order_possibly_available", j>>}
      /\ task_state' = [t \in Tasks |-> IF t \in idle THEN "running" ELSE task_state[t]]
      /\ orders' = [orders EXCEPT ![j] = @ - Cardinality(idle)]
      /\ turn' = j
      /\ UNCHANGED <<class_vars, job_state, waiting_for_process, try_again, end>>

(* process_orders: idle tasks take orders, then other tasks may start.     *)
process_orders(j) ==
  LET idle  == {t \in Tasks : Job_of[t] = j /\ task_state[t] = "idle" /\ ~end[t]}
      taken == IF orders[j] < Cardinality(idle) THEN orders[j] ELSE Cardinality(idle)
  IN  /\ turn = Nobody /\ <<"order_possibly_available", j>> \in calls
      /\ calls' = calls \ {<<"order_possibly_available", j>>}
      /\ \E S \in SUBSET idle :
           /\ Cardinality(S) = taken
           /\ task_state' = [t \in Tasks |-> IF t \in S THEN "running" ELSE task_state[t]]
      /\ orders' = [orders EXCEPT ![j] = @ - taken]
      /\ turn' = j
      /\ UNCHANGED <<class_vars, job_state, waiting_for_process, try_again, end>>

(* The other calls of a job just try to start tasks.                       *)
On_job_call(j, name) ==
  /\ turn = Nobody /\ <<name, j>> \in calls
  /\ calls' = calls \ {<<name, j>>}
  /\ turn' = j
  /\ UNCHANGED <<class_vars, job_vars, task_vars>>

(* set_state withdraws the request of a job that waits.                    *)
Set_job_state(j, state, more_calls) ==
  /\ job_state' = [job_state EXCEPT ![j] = state]
  /\ IF state # job_state[j] /\ waiting_for_process[j]
       THEN /\ requestor_list' = Lists_without(j) /\ Flags_without(j)
            /\ calls' = more_calls \cup Process_calls(Notified_without(j))
       ELSE calls' = more_calls /\ UNCHANGED <<requestor_list, waiting_for_process, try_again>>

(* The job is stopped, and its tasks are asked to end.                     *)
stop(j) ==
  LET E == {t \in Tasks_of(j) : task_state[t] \in {"waiting_for_process", "running", "idle"} /\ ~end[t]}
  IN  /\ <<"stop", j>> \in Commands /\ turn = Nobody
      /\ job_state[j] \in {"pending", "running"}
      /\ Set_job_state(j, IF Tasks_of(j) = {} THEN "stopped" ELSE "stopping", calls \cup End_calls(E))
      /\ end' = [t \in Tasks |-> end[t] \/ t \in E]
      /\ UNCHANGED <<known, max_processes, process_set, orders, task_state, turn>>

unstop(j) ==
  /\ <<"unstop", j>> \in Commands /\ turn = Nobody
  /\ job_state[j] \in {"stopping", "stopped"}
  /\ Set_job_state(j, "pending", calls)
  /\ turn' = j
  /\ UNCHANGED <<known, max_processes, process_set, orders, task_vars>>

-----------------------------------------------------------------------------
(* Tasks.                                                                  *)

(* A step has ended.  The task ends, or takes the next order, or is idle;  *)
(* if somebody waits for its process it ends then.                         *)
Step_completed(t) ==
  LET j  == Job_of[t]
      is_wanted == waiting_requestor(requestor_list[Class_of(t)]) # {}
  IN  /\ turn = Nobody /\ task_state[t] = "running"
      /\ \/ /\ task_state' = [task_state EXCEPT ![t] = "ending"]
            /\ UNCHANGED <<orders, end, calls>>
         \/ /\ ~end[t] /\ orders[j] > 0
            /\ orders' = [orders EXCEPT ![j] = @ - 1]
            /\ UNCHANGED <<task_state, end, calls>>
         \/ /\ ~end[t] /\ orders[j] = 0
            /\ task_state' = [task_state EXCEPT ![t] = "idle"]
            /\ end' = [end EXCEPT ![t] = is_wanted]
            /\ calls' = IF is_wanted THEN calls \cup End_calls({t}) ELSE calls
            /\ UNCHANGED orders
      /\ UNCHANGED <<class_vars, job_state, waiting_for_process, try_again, turn>>

(* The idle_timeout of a task is over.                                     *)
Idle_timeout(t) ==
  /\ turn = Nobody /\ task_state[t] = "idle" /\ ~end[t]
  /\ task_state' = [task_state EXCEPT ![t] = "ending"]
  /\ UNCHANGED <<class_vars, job_vars, end, calls, turn>>

\* Mutant: a task that has got its process stays in the list.
Lists_with_task(t) == requestor_list

Lists_without_task(t) == [requestor_list EXCEPT ![Class_of(t)] = Without(@, t)]

(* do_something of a task that has been called.                            *)
Do_something(t, name) ==
  LET c == Class_of(t)
      R == Notified_by_removal(requestor_list[c], t)
      other_calls == calls \ {<<name, t>>}
  IN  /\ turn = Nobody /\ <<name, t>> \in calls
      /\ \/ \* it waits and is asked to end: it is closed at once
            /\ task_state[t] = "waiting_for_process" /\ end[t]
            /\ task_state' = [task_state EXCEPT ![t] = "closed"]
            /\ requestor_list' = Lists_without_task(t)
            /\ try_again' = Notified(R, try_again)
            /\ calls' = other_calls \cup Process_calls(R) \cup {<<"task_closed", t>>}
            /\ UNCHANGED process_set
         \/ \* it waits, and gets a process
            /\ task_state[t] = "waiting_for_process" /\ ~end[t]
            /\ Gets_process(t)
            /\ requestor_list' = Lists_without_task(t)
            /\ try_again' = Notified(R, try_again)
            /\ calls' = other_calls \cup Process_calls(R)
         \/ /\ task_state[t] = "idle" /\ end[t]
            /\ task_state' = [task_state EXCEPT ![t] = "ending"]
            /\ calls' = other_calls
            /\ UNCHANGED <<process_set, requestor_list, try_again>>
         \/ /\ \/ task_state[t] = "waiting_for_process" /\ ~end[t] /\ ~Has_process(c)
               \/ task_state[t] \in {"running", "ending", "closed"}
            /\ calls' = other_calls
            /\ UNCHANGED <<process_set, requestor_list, try_again, task_state>>
      /\ UNCHANGED <<known, max_processes, orders, job_state, waiting_for_process, end, turn>>

Notified_by_end(c) == IF c \in known THEN waiting_requestor(requestor_list[c]) ELSE {}

(* The last operation of the task has ended: detach_process, s_closed.     *)
Task_ends(t) ==
  LET c == Class_of(t)
      R == Notified_by_end(c)
  IN  /\ turn = Nobody /\ task_state[t] = "ending"
      /\ process_set' = [process_set EXCEPT ![c] = @ \ {t}]
      /\ task_state' = [task_state EXCEPT ![t] = "closed"]
      /\ calls' = calls \cup Process_calls(R) \cup {<<"task_closed", t>>}
      /\ try_again' = Notified(R, try_again)
      /\ UNCHANGED <<known, max_processes, requestor_list, orders, job_state,
                     waiting_for_process, end, turn>>

(* The task object goes with its calls.  Without tasks the job is pending  *)
(* or stopped.  Then it tries to start tasks.                              *)
On_task_closed(t) ==
  LET j    == Job_of[t]
      left == Tasks_of(j) \ {t}
      state == CASE left = {} /\ job_state[j] = "stopping" -> "stopped"
                 [] left = {} /\ job_state[j] = "running"  -> "pending"
                 [] OTHER -> job_state[j]
      below == IF state = "pending" /\ Cardinality(left) + 1 = Max_tasks[j]
                 THEN {<<"below_max_tasks", j>>} ELSE {}
  IN  /\ turn = Nobody /\ <<"task_closed", t>> \in calls
      /\ Set_job_state(j, state, {call \in calls : call[2] # t} \cup below)
      /\ task_state' = [task_state EXCEPT ![t] = "none"]
      /\ end' = [end EXCEPT ![t] = FALSE]
      /\ turn' = j
      /\ UNCHANGED <<known, max_processes, process_set, orders>>

(* A task is asked to end, by a command or because its period is over.     *)
cmd_end(t) ==
  /\ <<"end_task", t>> \in Commands /\ turn = Nobody
  /\ task_state[t] \in {"waiting_for_process", "running", "idle"} /\ ~end[t]
  /\ end' = [end EXCEPT ![t] = TRUE]
  /\ calls' = calls \cup End_calls({t})
  /\ UNCHANGED <<class_vars, job_vars, task_state, turn>>

-----------------------------------------------------------------------------
try_start_one_task(j) ==
  (\E t \in Tasks : Start_task(j, t)) \/ Order_fails(j) \/ Wait_for_process(j) \/ Start_nothing(j)

Calls_of_main_thread ==
  \/ \E j \in Jobs : \/ try_start_one_task(j) \/ process_orders(j)
                     \/ \E name \in {"process_available", "below_max_tasks"} : On_job_call(j, name)
  \/ \E t \in Tasks : \/ \E name \in {"process_available", "end_task"} : Do_something(t, name)
                      \/ On_task_closed(t)

Next ==
  \/ Calls_of_main_thread
  \/ \E j \in Jobs : Add_order(j) \/ stop(j) \/ unstop(j)
  \/ \E t \in Tasks : Step_completed(t) \/ Idle_timeout(t) \/ Task_ends(t) \/ cmd_end(t)
  \/ \E c \in Classes : on_requisite_loaded(c) \/ \E n \in Limits[c] : set_max_processes(c, n)

Spec == Init /\ [][Next]_vars
-----------------------------------------------------------------------------
Is_quiet == turn = Nobody /\ calls = {}

(* Every variable has a value of its type.                                 *)
TypeOK ==
  /\ known \subseteq Classes
  /\ DOMAIN max_processes = Classes /\ \A c \in Classes : max_processes[c] \in Limits[c]
  /\ process_set \in [Classes -> SUBSET Tasks]
  /\ \A c \in Classes : Elements(requestor_list[c]) \subseteq Requestors
  /\ orders \in [Jobs -> 0 .. Max_orders]
  /\ job_state \in [Jobs -> {"pending", "running", "stopping", "stopped"}]
  /\ waiting_for_process \in [Jobs -> BOOLEAN] /\ try_again \in [Jobs -> BOOLEAN]
  /\ task_state \in [Tasks -> {"none", "waiting_for_process", "running", "idle", "ending", "closed"}]
  /\ end \in [Tasks -> BOOLEAN]
  /\ calls \subseteq {"order_possibly_available", "process_available", "below_max_tasks",
                      "end_task", "task_closed"} \X Requestors
  /\ turn \in Jobs \cup {Nobody}

(* The lists hold plain pointers to jobs and tasks.  A task in a list is   *)
(* one that waits for a process of this class, a job is one that has       *)
(* _waiting_for_process; each is there once, and every task that waits is  *)
(* there (spooler_process.cxx:1486).                                       *)
No_dangling_requestors ==
  \A c \in Classes :
    LET list == requestor_list[c]
    IN  /\ \A i, k \in DOMAIN list : list[i] = list[k] => i = k
        /\ Elements(list) \cap Jobs \subseteq {j \in Jobs : Job_class[j] = c /\ waiting_for_process[j]}
        /\ Elements(list) \cap Tasks =
             {t \in Tasks : Class_of(t) = c /\ task_state[t] = "waiting_for_process"}

(* _waiting_for_process says that no process is available                  *)
(* (spooler_job.h:458): when the main thread has nothing to do, nobody     *)
(* waits for a process of a class that has one (spooler_process.cxx:1483). *)
Waits_for(c) ==
  {j \in Jobs : Job_class[j] = c /\ waiting_for_process[j]} \cup
  {t \in Tasks : Class_of(t) = c /\ task_state[t] = "waiting_for_process"}

Waiting_only_without_process ==
  Is_quiet => \A c \in Classes : Has_process(c) => Waits_for(c) = {}

(* The processes of a class are not all held by idle tasks that nobody has *)
(* asked to end, while a job with an order or a task waits for one         *)
(* (spooler_thread.cxx:131, spooler_task.cxx:796).                         *)
Idle_tasks_make_room ==
  Is_quiet => \A c \in Classes :
    (\E r \in Waits_for(c) : r \in Jobs => orders[r] > 0) /\ process_set[c] # {}
      => ~(process_set[c] \subseteq Idle_tasks(c))
==============================================================================

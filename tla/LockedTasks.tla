----------------------------- MODULE LockedTasks -----------------------------
(***************************************************************************)
(* Jobs and tasks that use locks: the parts of spooler_job.cxx and         *)
(* spooler_task.cxx that start tasks, run their spooler_open and           *)
(* spooler_process steps and end them, composed with the lock subsystem.   *)
(*                                                                         *)
(* The scheduler's main thread executes one call of the call queue at a    *)
(* time.  "calls" holds the calls that objects have registered for         *)
(* themselves (a Typed_call_register keeps at most one call per type and   *)
(* object).  While an operation of a task runs (its script executes in     *)
(* another process), the script calls the API, and the main thread handles *)
(* other calls in between.                                                 *)
(*                                                                         *)
(* Outside this module: process classes (a process is always available, as *)
(* with -ignore-process-classes), orders, periods, suspending a task.      *)
(***************************************************************************)
EXTENDS LockSubsystem

CONSTANTS Job_of,          \* [Tasks -> Jobs]: the pool of task objects of each job
          Max_tasks,       \* [Jobs -> Nat]: <job tasks="...">
          Job_lock_uses,   \* [Jobs -> Seq(Locks \X Modes)]: <lock.use> of the job
          Process_jobs,    \* the jobs that only run an external process
          Api_uses,        \* the locks and modes that scripts try to hold
          Results,         \* what script functions of this instance result in
          Commands         \* the operator's commands in this instance

ASSUME TaskAssumption ==
  /\ Job_of \in [Tasks -> Jobs]
  /\ Max_tasks \in [Jobs -> Nat]
  /\ Job_lock_uses \in [Jobs -> Seq(Locks \X Modes)]
  /\ \A j \in Jobs : \A i, k \in DOMAIN Job_lock_uses[j] :      \* Requestor::set_dom
       Job_lock_uses[j][i][1] = Job_lock_uses[j][k][1] => i = k
  /\ Process_jobs \subseteq Jobs
  /\ Api_uses \subseteq Locks \X Modes
  /\ Results \subseteq {"true", "false", "error"}

VARIABLES job_state,    \* [j]
          queued,       \* [j]: a task is in the job's task queue
          task_state,   \* [t]: "none" while the object does not exist
          operation,    \* [t]: an operation of the task is running
          delay,        \* [t]: _delay_until_locks_available
          end,          \* [t]: _end
          error,        \* [t]: the task has an error
          calls         \* registered calls, <<name, object>>

task_vars == <<job_state, queued, task_state, operation, delay, end, error, calls>>
vars == <<lock_vars, task_vars>>

Job_states  == {"pending", "running", "stopping", "stopped"}
Waiting     == {"opening_waiting_for_locks", "running_waiting_for_locks"}
Not_ending  == {"starting", "opening", "running", "running_process"} \cup Waiting
Task_states == {"none", "ending", "closed"} \cup Not_ending
Job_calls   == {"Start_queued_task", "Locks_available", "Below_max_tasks"}
Step_calls  == {"Task_locks_are_available", "Try_next_step", "End_task"}
Task_calls  == Step_calls \cup {"Task_closed"}

(* The running tasks of job j, given the states of the tasks.              *)
Tasks_of(j, states) == {t \in Tasks : Job_of[t] = j /\ states[t] # "none"}
Running_tasks(j)    == Tasks_of(j, task_state)

Init ==
  /\ holder_map = [l \in Locks |-> No_holders]
  /\ lock_mode = [l \in Locks |-> lk_exclusive]
  /\ max_non_exclusive \in [Locks -> Max_values]
  /\ waiting_queues = [l \in Locks |-> Empty_queues]
  /\ file_based = [l \in Locks |-> New_file_based]
  /\ is_enqueued = [r \in Requestors |-> FALSE]
  /\ use_list = [r \in Requestors |->
       IF r[1] = "job"
         THEN [i \in DOMAIN Job_lock_uses[r[2]] |->
                 <<r, Job_lock_uses[r[2]][i][1], Job_lock_uses[r[2]][i][2]>>]
         ELSE <<>>]
  /\ job_state = [j \in Jobs |-> "pending"]
  /\ queued = [j \in Jobs |-> FALSE]
  /\ task_state = [t \in Tasks |-> "none"]
  /\ operation = [t \in Tasks |-> FALSE]
  /\ delay = [t \in Tasks |-> FALSE]
  /\ end = [t \in Tasks |-> FALSE]
  /\ error = [t \in Tasks |-> FALSE]
  /\ calls = {}

-----------------------------------------------------------------------------
(* on_locks_are_available of the notified requestors R.  A job registers a *)
(* call; a task leaves its waiting state at once and registers a call, and *)
(* throws (the lock logs it) when it is in no waiting state.               *)

Is_notified(t, R) == task_state[t] \in Waiting /\ (Task_api(t) \in R \/ Process_api(t) \in R)

Notified_task_states(R) ==
  [t \in Tasks |->
     IF ~Is_notified(t, R) THEN task_state[t]
     ELSE IF task_state[t] = "opening_waiting_for_locks" THEN "opening" ELSE "running"]

(* Mutant: a task that leaves its waiting state registers no call.         *)
Notified_calls_of_jobs(R) ==
  {<<"Locks_available", j>> : j \in {j \in Jobs : Job_requestor(j) \in R}}

Notified_calls(R) ==
       {<<"Locks_available", j>> : j \in {j \in Jobs : Job_requestor(j) \in R}}
  \cup {<<"Task_locks_are_available", t>> : t \in {t \in Tasks : Is_notified(t, R)}}

-----------------------------------------------------------------------------
(* Jobs.                                                                   *)

May_start_task(j, state, states) ==
  \/ state = "pending" /\ Max_tasks[j] > 0
  \/ state = "running" /\ Cardinality(Tasks_of(j, states)) < Max_tasks[j]

Job_locks_are_available(j, wq) ==
  \/ use_list[Job_requestor(j)] = <<>>
  \/ Locks_are_available(wq, holder_map, lock_mode, Job_requestor(j))

Free_tasks(j, states) == {t \in Tasks : Job_of[t] = j /\ states[t] = "none"}

(* try_start_tasks of job j, which has the state and whose tasks have the   *)
(* states by now, as the lock queues are wq and enq.  A task that starts    *)
(* holds the job's locks from now on and leaves their queues.  If locks are *)
(* missing, the job enters the queues; it leaves them if it does not need   *)
(* the locks it waits for.  The loop of try_start_tasks ends after the      *)
(* first start, since at most one task is queued.                           *)
Starts_task(j, t, state, states, wq, enq) ==
  LET r == Job_requestor(j)
  IN  /\ queued[j] /\ May_start_task(j, state, states) /\ Job_locks_are_available(j, wq)
      /\ t \in Free_tasks(j, states)
      /\ Hold_locks(t, use_list[r], Len(use_list[r]))
      /\ waiting_queues' = IF enq[r] THEN Dequeued(wq, r) ELSE wq
      /\ is_enqueued' = [enq EXCEPT ![r] = FALSE]
      /\ job_state' = [job_state EXCEPT ![j] = "running"]
      /\ queued' = [queued EXCEPT ![j] = FALSE]
      /\ task_state' = [states EXCEPT ![t] = "starting"]
      /\ operation' = [operation EXCEPT ![t] = TRUE]

Starts_no_task(j, state, states, wq, enq) ==
  LET r         == Job_requestor(j)
      wanted    == queued[j] /\ May_start_task(j, state, states)
      available == Job_locks_are_available(j, wq)
      enters    == wanted /\ ~available /\ ~enq[r] /\ Locks_are_known(r)
      leaves    == enq[r] /\ available
  IN  /\ ~(wanted /\ available /\ Free_tasks(j, states) # {})
      /\ waiting_queues' = IF enters THEN Enqueued(wq, r, Use_set(r))
                           ELSE IF leaves THEN Dequeued(wq, r) ELSE wq
      /\ is_enqueued' = [enq EXCEPT ![r] = enters \/ (enq[r] /\ ~leaves)]
      /\ job_state' = [job_state EXCEPT ![j] = state]
      /\ task_state' = states
      /\ UNCHANGED <<holder_map, lock_mode, max_non_exclusive, file_based, queued, operation>>

Try_start_tasks(j, state, states, wq, enq) ==
  \/ \E t \in Tasks : Starts_task(j, t, state, states, wq, enq)
  \/ Starts_no_task(j, state, states, wq, enq)

(* Mutant: a change of the job's state leaves its requests in the queues.  *)
Queues_kept_by_set_state(j, state, wq, enq) == wq

(* set_state of the job withdraws its lock requests when the state changes. *)
Queues_after_set_state(j, state, wq, enq) ==
  IF state # job_state[j] /\ enq[Job_requestor(j)] THEN Dequeued(wq, Job_requestor(j)) ELSE wq

Enqueued_after_set_state(j, state, enq) ==
  [enq EXCEPT ![Job_requestor(j)] = @ /\ state = job_state[j]]

(* <start_job>: a task is put into the queue; a stopped job is set pending. *)
Start_job(j) ==
  /\ "start_job" \in Commands
  /\ ~queued[j]                             \* bound: one queued task per job
  /\ queued' = [queued EXCEPT ![j] = TRUE]
  /\ job_state' = [job_state EXCEPT ![j] = IF @ = "stopped" THEN "pending" ELSE @]
  /\ calls' = calls \cup {<<"Start_queued_task", j>>}
  /\ UNCHANGED <<lock_vars, task_state, operation, delay, end, error>>

(* stop( true ): the job's tasks are asked to end.                         *)
Stop_job(j) ==
  LET ending == {t \in Running_tasks(j) : task_state[t] \in Not_ending /\ ~end[t]}
      state  == IF Running_tasks(j) = {} THEN "stopped" ELSE "stopping"
  IN  /\ "stop" \in Commands
      /\ job_state[j] \in {"pending", "running"}
      /\ job_state' = [job_state EXCEPT ![j] = state]
      /\ waiting_queues' = Queues_after_set_state(j, state, waiting_queues, is_enqueued)
      /\ is_enqueued' = Enqueued_after_set_state(j, state, is_enqueued)
      /\ end' = [t \in Tasks |-> end[t] \/ t \in ending]
      /\ calls' = calls \cup {<<"End_task", t>> : t \in ending}
      /\ UNCHANGED <<holder_map, lock_mode, max_non_exclusive, file_based, use_list,
                     queued, task_state, operation, delay, error>>

Unstop_job(j) ==
  /\ "unstop" \in Commands
  /\ job_state[j] \in {"stopping", "stopped"}
  /\ Try_start_tasks(j, "pending", task_state,
                     Queues_after_set_state(j, "pending", waiting_queues, is_enqueued),
                     Enqueued_after_set_state(j, "pending", is_enqueued))
  /\ UNCHANGED <<use_list, delay, end, error, calls>>

(* The handlers of the job's calls.                                        *)
On_job_call(j, name) ==
  /\ <<name, j>> \in calls
  /\ calls' = calls \ {<<name, j>>}
  /\ Try_start_tasks(j, job_state[j], task_state, waiting_queues, is_enqueued)
  /\ UNCHANGED <<use_list, delay, end, error>>

(* Mutant: a job without tasks stays running.                              *)
State_without_tasks_forgotten(state) == IF state = "stopping" THEN "stopped" ELSE state

(* remove_running_task of the job's last task.                             *)
State_without_tasks(state) ==
  CASE state = "stopping" -> "stopped"
    [] state = "running"  -> "pending"
    [] OTHER              -> state

(* Task_closed_call: the task object goes, and with it its requestors and  *)
(* its calls; the job may have run its last task.  Then other tasks may    *)
(* start.                                                                  *)
On_task_closed(t) ==
  LET j      == Job_of[t]
      states == [task_state EXCEPT ![t] = "none"]
      left   == Tasks_of(j, states)
      state  == IF left # {} THEN job_state[j] ELSE State_without_tasks(job_state[j])
      wq     == Dequeued(Dequeued(waiting_queues, Task_api(t)), Process_api(t))
      enq    == [is_enqueued EXCEPT ![Task_api(t)] = FALSE, ![Process_api(t)] = FALSE]
  IN  /\ <<"Task_closed", t>> \in calls
      /\ Try_start_tasks(j, state, states, Queues_after_set_state(j, state, wq, enq),
                         Enqueued_after_set_state(j, state, enq))
      /\ delay' = [delay EXCEPT ![t] = FALSE]
      /\ end' = [end EXCEPT ![t] = FALSE]
      /\ error' = [error EXCEPT ![t] = FALSE]
      /\ use_list' = [use_list EXCEPT ![Task_api(t)] = <<>>, ![Process_api(t)] = <<>>]
      /\ calls' = (calls \ {<<name, t>> : name \in Task_calls}) \cup
                    IF state = "pending" /\ Cardinality(left) + 1 = Max_tasks[j]
                      THEN {<<"Below_max_tasks", j>>} ELSE {}

-----------------------------------------------------------------------------
(* Tasks.                                                                  *)

(* set_state_direct( s_ending ) and the start of the task's last operation. *)
(* The task has the holder map hm and the modes md by now.  Only a task     *)
(* that leaves s_running gives its process level locks back and leaves      *)
(* their queues: one that ends while it waits stays in the queues.          *)
To_ending(t, hm, md, other_calls) ==
  LET r    == Process_api(t)
      list == IF task_state[t] = "running" THEN use_list[r] ELSE <<>>
      R    == Notified_by_release(waiting_queues, hm, md, t, list)
  IN  /\ Release_locks(hm, md, t, list)
      /\ IF task_state[t] = "running"
           THEN Dequeue_lock_requests(r)
           ELSE UNCHANGED <<waiting_queues, is_enqueued>>
      /\ task_state' = [Notified_task_states(R) EXCEPT ![t] = "ending"]
      /\ operation' = [operation EXCEPT ![t] = TRUE]
      /\ calls' = other_calls \cup Notified_calls(R)

Ends_in_do_something(t) ==
  end[t] /\ task_state[t] \in {"opening", "running"} \cup Waiting

(* do_something between two operations: a task to be ended ends; a task    *)
(* in opening or running takes the locks it has tried to get and calls     *)
(* spooler_open or spooler_process; otherwise there is nothing to do.      *)
Steps_to_ending(t, other_calls) ==
  /\ ~operation[t] /\ Ends_in_do_something(t)
  /\ To_ending(t, holder_map, lock_mode, other_calls)
  /\ UNCHANGED <<end, error>>

Level(t) == IF task_state[t] = "opening" THEN Task_api(t) ELSE Process_api(t)

Steps_into_script(t, other_calls) ==
  LET list == use_list[Level(t)]
  IN  /\ ~operation[t] /\ ~end[t] /\ task_state[t] \in {"opening", "running"}
      /\ Holds_up_to(holder_map, lock_mode, t, list, Len(list))
      /\ Hold_locks(t, list, Len(list))
      /\ Dequeue_lock_requests(Level(t))
      /\ operation' = [operation EXCEPT ![t] = TRUE]
      /\ calls' = other_calls
      /\ UNCHANGED <<task_state, end, error>>

(* hold_locks throws at a lock that has been taken since the notification: *)
(* the task fails, with the locks it has taken so far.                     *)
Fails_to_hold(t, other_calls) ==
  LET list == use_list[Level(t)]
  IN  /\ ~operation[t] /\ ~end[t] /\ task_state[t] \in {"opening", "running"}
      /\ \E k \in 0 .. Len(list) - 1 :
           /\ Holds_up_to(holder_map, lock_mode, t, list, k)
           /\ To_ending(t, Hold(holder_map, t, list, k),
                        Hold_mode(holder_map, lock_mode, t, list, k), other_calls)
      /\ end' = [end EXCEPT ![t] = TRUE]
      /\ error' = [error EXCEPT ![t] = TRUE]

Has_nothing_to_do(t) ==
  \/ operation[t]
  \/ task_state[t] \in {"running_process", "closed"}
  \/ task_state[t] \in Waiting /\ ~end[t]

Do_something(t, name) ==
  LET other_calls == calls \ {<<name, t>>}
  IN  /\ <<name, t>> \in calls
      /\ \/ Steps_to_ending(t, other_calls)
         \/ Steps_into_script(t, other_calls)
         \/ Fails_to_hold(t, other_calls)
         \/ /\ Has_nothing_to_do(t)
            /\ calls' = other_calls
            /\ UNCHANGED <<lock_vars, task_state, operation, end, error>>
      /\ UNCHANGED <<max_non_exclusive, use_list, job_state, queued, delay>>

(* The script calls Task.try_hold_lock: the order of the waiting requests  *)
(* is not respected.                                                       *)
Try_hold_lock(t, l, mode) ==
  LET r == Level(t)
      u == <<r, l, mode>>
  IN  /\ operation[t] /\ task_state[t] \in {"opening", "running"}
      /\ <<l, mode>> \in Api_uses
      /\ use_list' = IF u \in Use_set(r) THEN use_list
                     ELSE [use_list EXCEPT ![r] = Append(@, u)]
      /\ IF file_based[l].known /\ Is_free_for(holder_map, lock_mode, u, t)
           THEN Hold_locks(t, <<u>>, 1)
           ELSE UNCHANGED <<holder_map, lock_mode, max_non_exclusive, file_based>>
      /\ UNCHANGED <<waiting_queues, is_enqueued, task_vars>>

(* The script calls Task.call_me_again_when_locks_available.               *)
Delay_until_locks_available(t) ==
  LET r == Level(t)
  IN  /\ operation[t] /\ task_state[t] \in {"opening", "running"}
      /\ use_list[r] # <<>> /\ ~Is_holding_all_of(t, r)
      /\ delay' = [delay EXCEPT ![t] = TRUE]
      /\ UNCHANGED <<lock_vars, job_state, queued, task_state, operation, end, error,
                     calls>>

(* An operation of the task has ended with a result; do_something handles  *)
(* it and starts the next operation.                                       *)
With_error(t, result) == [error EXCEPT ![t] = @ \/ result = "error"]

Starting_completed(t, result) ==
  /\ operation[t] /\ task_state[t] = "starting"
  /\ LET state == CASE result # "true" -> "ending"
                    [] result = "true" /\ Job_of[t] \in Process_jobs -> "running_process"
                    [] result = "true" /\ Job_of[t] \notin Process_jobs ->
                         IF end[t] THEN "ending" ELSE "opening"
     IN  /\ task_state' = [task_state EXCEPT ![t] = state]
         /\ operation' = [operation EXCEPT ![t] = state # "running_process"]
  /\ error' = With_error(t, result)
  /\ UNCHANGED <<lock_vars, job_state, queued, delay, end, calls>>

Opening_completed(t, result) ==
  /\ operation[t] /\ task_state[t] = "opening"
  /\ LET ends  == end[t] \/ result = "error" \/ (~delay[t] /\ result # "true")
         state == CASE ends -> "ending"
                    [] ~ends /\ delay[t] -> "opening_waiting_for_locks"
                    [] ~ends /\ ~delay[t] -> "running"
     IN  /\ task_state' = [task_state EXCEPT ![t] = state]
         /\ operation' = [operation EXCEPT ![t] = state # "opening_waiting_for_locks"]
  /\ IF delay[t]
       THEN Enqueue_lock_requests(Task_api(t),
              {u \in Use_set(Task_api(t)) : Is_held_by(u, t)})
       ELSE UNCHANGED <<waiting_queues, is_enqueued>>
  /\ delay' = [delay EXCEPT ![t] = FALSE]
  /\ error' = With_error(t, result)
  /\ UNCHANGED <<holder_map, lock_mode, max_non_exclusive, file_based, use_list,
                 job_state, queued, end, calls>>

(* spooler_process has ended: the process level locks are given back, also *)
(* by a task that wants to be called again when they are available.        *)
Step_completed(t, result) ==
  LET r    == Process_api(t)
      list == use_list[r]
      R    == Notified_by_release(waiting_queues, holder_map, lock_mode, t, list)
      ends == result = "error" \/ (~delay[t] /\ result # "true")
      state == CASE ends -> "ending"
                 [] ~ends /\ delay[t] -> "running_waiting_for_locks"
                 [] ~ends /\ ~delay[t] -> "running"
  IN  /\ operation[t] /\ task_state[t] = "running"
      /\ Release_locks(holder_map, lock_mode, t, list)
      /\ IF delay[t]
           THEN /\ Enqueue_lock_requests(r, {})
                /\ UNCHANGED use_list
           ELSE /\ use_list' = [use_list EXCEPT ![r] = <<>>]
                /\ UNCHANGED <<waiting_queues, is_enqueued>>
      /\ delay' = [delay EXCEPT ![t] = FALSE]
      /\ error' = With_error(t, result)
      /\ task_state' = [Notified_task_states(R) EXCEPT ![t] = state]
      /\ operation' = [operation EXCEPT ![t] = ends]
      /\ calls' = calls \cup Notified_calls(R) \cup {<<"Try_next_step", t>>}
      /\ UNCHANGED <<job_state, queued, end>>

(* The external process of a process task has ended.                       *)
Process_signaled(t) ==
  /\ task_state[t] = "running_process"
  /\ task_state' = [task_state EXCEPT ![t] = "ending"]
  /\ operation' = [operation EXCEPT ![t] = TRUE]
  /\ UNCHANGED <<lock_vars, job_state, queued, delay, end, error, calls>>

(* Mutant: close forgets the locks that spooler_open has taken.            *)
Requestor_orders_without_task_api(t) ==
  LET S == {Job_requestor(Job_of[t]), Process_api(t)}
  IN  {o \in S \X S \X S : {o[1], o[2], o[3]} = S}

(* The operations from s_ending to s_deleting_files have ended: finish     *)
(* stops the job after an error, close gives the locks of all requestors   *)
(* back, in the order of a set of pointers.  The requests of a task that   *)
(* has ended while it waited stay until the task object goes.              *)
Requestor_orders(t) ==
  LET S == {Job_requestor(Job_of[t]), Task_api(t), Process_api(t)}
  IN  {o \in S \X S \X S : {o[1], o[2], o[3]} = S}

Ending_completed(t) ==
  LET j     == Job_of[t]
      stops == error[t] /\ job_state[j] # "stopping"
      queues == IF stops /\ is_enqueued[Job_requestor(j)]
                  THEN Dequeued(waiting_queues, Job_requestor(j)) ELSE waiting_queues
  IN  /\ operation[t] /\ task_state[t] = "ending"
      /\ job_state' = [job_state EXCEPT ![j] = IF stops THEN "stopping" ELSE @]
      /\ waiting_queues' = queues
      /\ is_enqueued' = [is_enqueued EXCEPT ![Job_requestor(j)] = @ /\ ~stops]
      /\ \E o \in Requestor_orders(t) :
           LET list == use_list[o[1]] \o use_list[o[2]] \o use_list[o[3]]
               R    == Notified_by_release(queues, holder_map, lock_mode, t, list)
           IN  /\ Release_locks(holder_map, lock_mode, t, list)
               /\ task_state' = [Notified_task_states(R) EXCEPT ![t] = "closed"]
               /\ calls' = calls \cup Notified_calls(R) \cup {<<"Task_closed", t>>}
      /\ operation' = [operation EXCEPT ![t] = FALSE]
      /\ UNCHANGED <<use_list, queued, delay, end, error>>

(* Mutant: the task is not called after it has been asked to end.          *)
End_task_without_call(t) ==
  /\ "end_task" \in Commands
  /\ task_state[t] \in Not_ending
  /\ end' = [end EXCEPT ![t] = TRUE]
  /\ UNCHANGED <<lock_vars, job_state, queued, task_state, operation, delay, error, calls>>

(* <kill_task> without immediately: the task is asked to end.              *)
End_task(t) ==
  /\ "end_task" \in Commands
  /\ task_state[t] \in Not_ending
  /\ end' = [end EXCEPT ![t] = TRUE]
  /\ calls' = calls \cup {<<"End_task", t>>}
  /\ UNCHANGED <<lock_vars, job_state, queued, task_state, operation, delay, error>>

-----------------------------------------------------------------------------
(* Commands that change the locks, with the notifications they cause.      *)

Notify_requestors(R) ==
  /\ task_state' = Notified_task_states(R)
  /\ calls' = calls \cup Notified_calls(R)
  /\ UNCHANGED <<job_state, queued, operation, delay, end, error>>

Change_lock(l) ==
  /\ \/ "remove_lock" \in Commands /\ Remove(l) /\ UNCHANGED task_vars
     \/ "add_lock" \in Commands /\ Add_lock(l) /\ UNCHANGED task_vars
     \/ /\ "replace_lock" \in Commands
        /\ \E n \in Max_values : Replace_with(l, n)
        /\ Notify_requestors(Notified_by_limit(l))
     \/ /\ "limit_lock" \in Commands
        /\ \E n \in Max_values \ {max_non_exclusive[l]} : Set_max_non_exclusive(l, n)
        /\ Notify_requestors(Notified_by_limit(l))

Handle_candidate(l) ==
  /\ Handle_replace_or_remove_candidate(l)
  /\ Notify_requestors(Notified_by_limit(l))

-----------------------------------------------------------------------------
Job_command(j) == Start_job(j) \/ Stop_job(j) \/ Unstop_job(j)

Api_call(t) ==
  \/ \E l \in Locks, mode \in Modes : Try_hold_lock(t, l, mode)
  \/ Delay_until_locks_available(t)

Operation_completed(t) ==
  \/ \E result \in Results :
       Starting_completed(t, result) \/ Opening_completed(t, result) \/ Step_completed(t, result)
  \/ Ending_completed(t)

Next ==
  \/ \E j \in Jobs : Job_command(j)
  \/ \E j \in Jobs, name \in Job_calls : On_job_call(j, name)
  \/ \E t \in Tasks, name \in Step_calls : Do_something(t, name)
  \/ \E t \in Tasks : On_task_closed(t) \/ Api_call(t) \/ End_task(t)
  \/ \E t \in Tasks : Operation_completed(t) \/ Process_signaled(t)
  \/ \E l \in Locks : Change_lock(l) \/ Handle_candidate(l)

Spec == Init /\ [][Next]_vars

(* The main thread executes the registered calls of every object; scripts  *)
(* and processes end, and the completion of an operation is a call, too.   *)
(* Neither operators nor scripts have to do anything.                      *)
Fairness ==
  /\ \A j \in Jobs : WF_vars(\E name \in Job_calls : On_job_call(j, name))
  /\ \A t \in Tasks : WF_vars(On_task_closed(t) \/ \E name \in Step_calls : Do_something(t, name))
  /\ \A t \in Tasks : WF_vars(Operation_completed(t) \/ Process_signaled(t))
  /\ \A l \in Locks : WF_vars(Handle_candidate(l))

FairSpec == Spec /\ Fairness

-----------------------------------------------------------------------------
(* Properties.                                                             *)

(* The types of the variables; the lists, queues and holds only have uses  *)
(* of the right requestor and lock.                                        *)
Lock_types ==
  /\ holder_map \in [Locks -> [Holders -> SUBSET Uses]]
  /\ lock_mode \in [Locks -> Modes]
  /\ max_non_exclusive \in [Locks -> Max_values]
  /\ waiting_queues \in [Locks -> [Modes -> Seq(Uses)]]
  /\ file_based \in [Locks -> File_based]
  /\ is_enqueued \in [Requestors -> BOOLEAN]
  /\ use_list \in [Requestors -> Seq(Uses)]

Task_types ==
  /\ job_state \in [Jobs -> Job_states]
  /\ queued \in [Jobs -> BOOLEAN]
  /\ task_state \in [Tasks -> Task_states]
  /\ operation \in [Tasks -> BOOLEAN]
  /\ delay \in [Tasks -> BOOLEAN]
  /\ end \in [Tasks -> BOOLEAN]
  /\ error \in [Tasks -> BOOLEAN]
  /\ calls \subseteq (Job_calls \X Jobs) \cup (Task_calls \X Tasks)

TypeOK == Lock_types /\ Task_types

(* A task that holds a lock exclusively is its only holder, whatever mix   *)
(* of job level and API level uses the tasks hold it with (is_free_for,    *)
(* require_lock_for, release_lock_for).                                    *)
Mutual_exclusion == Excludes(holder_map)

(* _lock_mode of a held lock says whether one of its uses is exclusive:    *)
(* upgrades, downgrades and new holders keep it up to date.                *)
Mode_agrees == Agrees(holder_map, lock_mode)

(* A queue entry is the use of a requestor that has entered the queues and *)
(* still has the use, it is in the right queue, and only once: nobody is   *)
(* notified through a forgotten entry (the queues hold plain pointers).    *)
Queues_are_sound ==
  \A l \in Locks, m \in Modes :
    LET queue == waiting_queues[l][m]
    IN  /\ \A i \in DOMAIN queue :
             /\ queue[i] = <<Requestor_of(queue[i]), l, m>>
             /\ queue[i] \in Use_set(Requestor_of(queue[i]))
             /\ is_enqueued[Requestor_of(queue[i])]
        /\ \A i, k \in DOMAIN queue : queue[i] = queue[k] => i = k

(* A requestor that has entered the queues waits in the queue of each of   *)
(* its locks, or already holds the lock through this use.                  *)
Enqueued_requestors_wait ==
  \A r \in Requestors : is_enqueued[r] =>
    \A u \in Use_set(r) :
      \/ \E i \in DOMAIN waiting_queues[Lock_of(u)][Mode_of(u)] :
           waiting_queues[Lock_of(u)][Mode_of(u)][i] = u
      \/ Is_held_by(u, Own_holder(r))
      \/ r[1] # "job" /\ task_state[r[2]] \in {"ending", "closed"}

(* From its start until it is closed, a task holds all locks of its job.   *)
Job_locks_are_held ==
  \A t \in Tasks : task_state[t] \notin {"none", "closed"} =>
    \A u \in Use_set(Job_requestor(Job_of[t])) : Is_held_by(u, t)

(* A job that finds its locks available can give all of them to the new    *)
(* task: hold_locks, which asks again for each lock and for this holder,   *)
(* does not throw half-way (the job list names a lock only once).          *)
Job_hold_does_not_throw ==
  \A j \in Jobs : \A t \in Free_tasks(j, task_state) :
    LET list == use_list[Job_requestor(j)]
    IN  Job_locks_are_available(j, waiting_queues) =>
          Holds_up_to(holder_map, lock_mode, t, list, Len(list))

(* When no call is registered, so that the main thread sleeps until the     *)
(* next event, no job could start its queued task: no notification gets    *)
(* lost between the release of a lock and the attempt of a job, though a   *)
(* release notifies one requestor only (jobs that are not stopped).        *)
No_job_could_start_while_idle ==
  calls = {} =>
    \A j \in Jobs :
      ~ /\ queued[j] /\ May_start_task(j, job_state[j], task_state)
        /\ Job_locks_are_available(j, waiting_queues)
        /\ Free_tasks(j, task_state) # {}

(* What a task holds belongs to its job, or to itself at a level at which  *)
(* it may hold it: process level locks are held during one spooler_process *)
(* only, and a closed task holds nothing.                                  *)
Holds_no_longer_than_allowed ==
  \A t \in Tasks, l \in Locks : \A u \in holder_map[l][t] :
    /\ task_state[t] \notin {"none", "closed"}
    /\ Requestor_of(u) \in {Job_requestor(Job_of[t]), Task_api(t), Process_api(t)}
    /\ Requestor_of(u) = Process_api(t) => task_state[t] = "running" /\ operation[t]
    /\ Requestor_of(u) = Task_api(t) => task_state[t] # "starting"

(* The job's state tells whether it has tasks: a stopped job has none, a   *)
(* stopping or running job has at least one.                               *)
Job_state_agrees ==
  \A j \in Jobs :
    /\ job_state[j] = "stopped" => Running_tasks(j) = {}
    /\ job_state[j] \in {"stopping", "running"} => Running_tasks(j) # {}

(* A lock is replaced or removed when it is free, neither before nor never: *)
(* a lock that waits for it is held or is a candidate of its folder, and a *)
(* lock that has gone is not held, nor taken or waited for later.          *)
Lock_changes_wait_for_holders ==
  \A l \in Locks :
    LET changing == file_based[l].to_be_removed \/ file_based[l].replacement # NoReplacement
        is_held  == Held_by(holder_map, l) # {}
    IN  /\ changing => is_held \/ file_based[l].candidate
        /\ ~file_based[l].known => ~is_held /\ waiting_queues[l] = Empty_queues

(* A job with a single lock that takes it is the first of those that wait  *)
(* for the lock in the same mode, whatever other locks these wait for.     *)
No_overtaking ==
  [][\A t \in Tasks, l \in Locks, m \in Modes :
       LET r     == Job_requestor(Job_of[t])
           queue == waiting_queues[l][m]
       IN  Len(use_list[r]) = 1 /\ <<r, l, m>> \in holder_map'[l][t] \ holder_map[l][t] /\ queue # <<>> =>
             Head(queue) = <<r, l, m>>]_vars

(* A task that waits for locks keeps waiting until it is notified or ends; *)
(* when it leaves the waiting state without ending, do_something is called. *)
Woken_tasks_are_called ==
  [][\A t \in Tasks :
       task_state[t] \in Waiting /\ task_state'[t] # task_state[t] =>
         \/ task_state'[t] = "ending" /\ end[t]
         \/ <<"Task_locks_are_available", t>> \in calls']_vars

(* What the locks promise: each is a readers/writer lock with a limit.     *)
Access_of(U) ==
  IF U = {} THEN "none" ELSE IF Has_exclusive(U) THEN "exclusive" ELSE "shared"

RW == INSTANCE ReadersWriterLock WITH
        Limits <- Max_values,
        limit  <- max_non_exclusive,
        access <- [l \in Locks |-> [h \in Holders |-> Access_of(holder_map[l][h])]]

Implements_readers_writer_lock == RW!Spec

(* A task in the queue of a job that is not stopped starts at last.        *)
Queued_tasks_get_their_locks ==
  \A j \in Jobs :
    queued[j] ~> (~queued[j] \/ job_state[j] \in {"stopping", "stopped"})

(* A task that has been asked to end is closed and its object goes (with   *)
(* it goes _end), whatever it was doing or waiting for.                    *)
Tasks_end == \A t \in Tasks : end[t] ~> ~end[t]
==============================================================================

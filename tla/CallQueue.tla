------------------------------ MODULE CallQueue ------------------------------
(***************************************************************************)
(* The call queue of the main thread, and queued tasks as its user         *)
(* (StandardCallQueue.scala, Timed_call.cxx, spooler.cxx, spooler_job.cxx).*)
(*                                                                         *)
(* Every object registers its calls by type: it has one call of each type, *)
(* and a new one replaces the one before.  The calls are in a queue that   *)
(* the main thread empties up to the present time before it sleeps until   *)
(* the time of the first call.  Other threads may put calls of their own   *)
(* into the queue, as the completion of a future does, and then signal the *)
(* event that ends the sleep of the main thread.                           *)
(*                                                                         *)
(* A job starts its queued tasks by a call at the time of the first one.   *)
(***************************************************************************)
EXTENDS Naturals, Sequences, FiniteSets

CONSTANTS Jobs, Tasks,
          Job_of,           \* [t]: the job whose task t is
          Max_tasks,        \* [j]: the number of tasks that may run at a time
          Start_ats,        \* [t]: the times for which t may be queued
          Max_time          \* bound: the last instant

ASSUME CallQueueAssumption ==
  /\ Max_time \in Nat
  /\ Job_of \in [Tasks -> Jobs] /\ Max_tasks \in [Jobs -> Nat \ {0}]
  /\ Start_ats \in [Tasks -> SUBSET (0 .. Max_time)]

VARIABLES
  now,
  queue,          \* the calls of StandardCallQueue, in the order of their execution
  registered,     \* [e]: the time of the call in this entry of its register
  loop,           \* what the main loop is doing
  signaled,       \* _scheduler_event, or the pipe that signals it
  wait_until,     \* until when the main thread sleeps
  task_queue,     \* [j]: the tasks that will be started
  task_state,     \* [t]
  signaling       \* the tasks whose threads have enqueued a call and not yet signaled

call_vars == <<queue, registered>>
loop_vars == <<loop, wait_until>>
task_vars == <<task_queue, task_state, signaling>>
vars      == <<now, call_vars, loop_vars, signaled, task_vars>>

Never == Max_time + 1

(* The entries of the call registers of jobs and tasks, and the calls of   *)
(* other threads, which are in no register.                                *)
Entries == ({"Start_queued_task", "Below_max_tasks"} \X Jobs)
           \cup ({"Task_end_completed", "Task_closed"} \X Tasks)
Foreign_calls == {"onComplete"} \X Tasks

Init ==
  /\ now = 0
  /\ queue = <<>> /\ registered = [e \in Entries |-> Never]
  /\ loop = "executing" /\ signaled = FALSE /\ wait_until = 0
  /\ task_queue = [j \in Jobs |-> <<>>]
  /\ task_state = [t \in Tasks |-> "none"]
  /\ signaling = {}

-----------------------------------------------------------------------------
(* The queue and the registers.                                            *)

(* insert, append and remove of a list; nothing is erased at no position.  *)
First_of(I) == CHOOSE i \in I : \A k \in I : i <= k
Inserted(list, i, x) == SubSeq(list, 1, i - 1) \o <<x>> \o SubSeq(list, i, Len(list))
Erased(list, I) ==
  IF I = {} THEN list ELSE SubSeq(list, 1, First_of(I) - 1) \o SubSeq(list, First_of(I) + 1, Len(list))

(* add: behind the calls that are not later.                               *)
positionAfter(q, at) == First_of({i \in DOMAIN q : q[i].at > at} \cup {Len(q) + 1})
Added(q, e, at) == Inserted(q, positionAfter(q, at), [entry |-> e, at |-> at])

(* tryCancel of the call that is in the register.                          *)
Cancelled(q, e) == Erased(q, {i \in DOMAIN q : q[i].entry = e})

nextTime(q) == IF q = <<>> THEN Never ELSE Head(q).at
Is_mature(q) == nextTime(q) <= now

\* Mutant: the call of this type that waits is not cancelled.
enqueue_id_besides(q, e, at) ==
  /\ queue' = Added(q, e, at)
  /\ registered' = [registered EXCEPT ![e] = at]

(* enqueue_id: a call replaces the one of its type.                        *)
enqueue_id(q, e, at) ==
  /\ queue' = Added(Cancelled(q, e), e, at)
  /\ registered' = [registered EXCEPT ![e] = at]

\* Mutant: a call for never is enqueued.
call_at_even_never(q, e, at) ==
  IF at = registered[e] THEN queue' = q /\ UNCHANGED <<registered, signaled>>
  ELSE enqueue_id(q, e, at) /\ signaled' = TRUE

(* call_at by the main thread, which signals itself.  Nothing is done if   *)
(* the register has a call of this time, be it executed or not.            *)
call_at(q, e, at) ==
  IF at = registered[e] THEN queue' = q /\ UNCHANGED <<registered, signaled>>
  ELSE IF at = Never
    THEN queue' = Cancelled(q, e) /\ registered' = [registered EXCEPT ![e] = Never]
         /\ UNCHANGED signaled
    ELSE enqueue_id(q, e, at) /\ signaled' = TRUE

-----------------------------------------------------------------------------
(* The main loop.                                                          *)

(* A turn of the loop begins with the reset of the event.                  *)
Begin_turn ==
  /\ loop = "waiting"
  /\ loop' = "executing"
  /\ signaled' = FALSE
  /\ UNCHANGED <<now, call_vars, wait_until, task_vars>>

(* The event is signaled, or it is time.                                   *)
Wake == (signaled \/ wait_until <= now) /\ Begin_turn

(* popMature finds nothing.                                                *)
Nothing_mature ==
  /\ loop = "executing" /\ ~Is_mature(queue)
  /\ loop' = "entering_sleep"
  /\ UNCHANGED <<now, call_vars, wait_until, signaled, task_vars>>

(* The end of onEnteringSleepState.                                        *)
onEnteringSleepState ==
  /\ loop = "entering_sleep"
  /\ wait_until' = nextTime(queue)
  /\ loop' = "entering_wait"
  /\ UNCHANGED <<now, call_vars, signaled, task_vars>>

\* Mutant: the event is reset before the wait.
wait_after_reset ==
  /\ loop = "entering_wait"
  /\ loop' = "waiting"
  /\ signaled' = FALSE
  /\ UNCHANGED <<now, call_vars, wait_until, task_vars>>

wait ==
  /\ loop = "entering_wait"
  /\ loop' = "waiting"
  /\ UNCHANGED <<now, call_vars, wait_until, signaled, task_vars>>

(* popMature gives the call of this entry.                                 *)
Pop(e) ==
  /\ loop = "executing"
  /\ Is_mature(queue) /\ Head(queue).entry = e

-----------------------------------------------------------------------------
(* Jobs with their task queues.  All times are within a period.            *)

Running(j) == {t \in Tasks : Job_of[t] = j /\ task_state[t] \in {"running", "completed", "closed"}}

Entry(name, object) == <<name, object>>

(* next_start_time of a task queue.                                        *)
next_start_time(tasks) == IF tasks = <<>> THEN Never ELSE Head(tasks).start_at

(* try_start_tasks starts this number of tasks, the first ones, if n run.  *)
Startable(j, n) ==
  LET mature == {i \in DOMAIN task_queue[j] : task_queue[j][i].start_at <= now}
  IN  IF Cardinality(mature) < Max_tasks[j] - n THEN Cardinality(mature) ELSE Max_tasks[j] - n

Task_queue_after_start(j, k) == SubSeq(task_queue[j], k + 1, Len(task_queue[j]))
Start_first(j, k, states) ==
  /\ task_queue' = [task_queue EXCEPT ![j] = Task_queue_after_start(j, k)]
  /\ task_state' = [t \in Tasks |->
                     IF \E i \in 1 .. k : task_queue[j][i].task = t THEN "running" ELSE states[t]]

(* Task_queue::enqueue_task: behind the tasks that do not start later.     *)
Enqueued(tasks, t, at) ==
  Inserted(tasks, First_of({i \in DOMAIN tasks : tasks[i].start_at > at} \cup {Len(tasks) + 1}),
           [task |-> t, start_at |-> at])

(* A command, or a script, starts a task at some time.                     *)
enqueue_task(t, at) ==
  LET j     == Job_of[t]
      tasks == Enqueued(task_queue[j], t, at)
  IN  /\ loop = "executing" /\ task_state[t] = "none"
      /\ task_state' = [task_state EXCEPT ![t] = "queued"]
      /\ task_queue' = [task_queue EXCEPT ![j] = tasks]
      /\ call_at(queue, Entry("Start_queued_task", j), next_start_time(tasks))
      /\ UNCHANGED <<now, loop_vars, signaling>>

kill_queued_task(t) ==
  LET j     == Job_of[t]
      tasks == Erased(task_queue[j], {i \in DOMAIN task_queue[j] : task_queue[j][i].task = t})
  IN  /\ loop = "executing" /\ task_state[t] = "queued"
      /\ task_state' = [task_state EXCEPT ![t] = "killed"]
      /\ task_queue' = [task_queue EXCEPT ![j] = tasks]
      /\ call_at(queue, Entry("Start_queued_task", j), next_start_time(tasks))
      /\ UNCHANGED <<now, loop_vars, signaling>>

\* Mutant: the call is not registered for the next task.
On_start_queued_task_once(j) ==
  LET e  == Entry("Start_queued_task", j)
      at == next_start_time(task_queue[j])
      k  == IF at <= now THEN Startable(j, Cardinality(Running(j))) ELSE 0
  IN  /\ Pop(e)
      /\ Start_first(j, k, task_state)
      /\ IF at <= now
           THEN queue' = Tail(queue) /\ UNCHANGED <<registered, signaled>>
           ELSE call_at(Tail(queue), e, at)
      /\ UNCHANGED <<now, loop_vars, signaling>>

(* Tasks are started if it is time for the first one.  If the next one has *)
(* another start time the call is registered for that.                     *)
On_start_queued_task(j) ==
  LET e  == Entry("Start_queued_task", j)
      at == next_start_time(task_queue[j])
      k  == IF at <= now THEN Startable(j, Cardinality(Running(j))) ELSE 0
      next == next_start_time(Task_queue_after_start(j, k))
  IN  /\ Pop(e)
      /\ Start_first(j, k, task_state)
      /\ IF at <= now /\ next = at
           THEN queue' = Tail(queue) /\ UNCHANGED <<registered, signaled>>
           ELSE call_at(Tail(queue), e, next)
      /\ UNCHANGED <<now, loop_vars, signaling>>

On_below_max_tasks(j) ==
  /\ Pop(Entry("Below_max_tasks", j))
  /\ queue' = Tail(queue)
  /\ Start_first(j, Startable(j, Cardinality(Running(j))), task_state)
  /\ UNCHANGED <<now, registered, loop_vars, signaled, signaling>>

(* The last operation of a task ends.  The thread of its future puts a     *)
(* call into the queue, and then signals the main thread.                  *)
onComplete(t) ==
  /\ task_state[t] = "running"
  /\ task_state' = [task_state EXCEPT ![t] = "completed"]
  /\ queue' = Added(queue, Entry("onComplete", t), 0)
  /\ signaling' = signaling \cup {t}
  /\ UNCHANGED <<now, registered, loop_vars, signaled, task_queue>>

signal(t) ==
  /\ t \in signaling
  /\ signaling' = signaling \ {t}
  /\ signaled' = TRUE
  /\ UNCHANGED <<now, call_vars, loop_vars, task_queue, task_state>>

(* This call completes the operation, which calls the task.                *)
On_complete(t) ==
  /\ Pop(Entry("onComplete", t))
  /\ enqueue_id(Tail(queue), Entry("Task_end_completed", t), 0)
  /\ signaled' = TRUE
  /\ UNCHANGED <<now, loop_vars, task_vars>>

On_task_end_completed(t) ==
  /\ Pop(Entry("Task_end_completed", t))
  /\ task_state' = [task_state EXCEPT ![t] = "closed"]
  /\ enqueue_id(Tail(queue), Entry("Task_closed", t), 0)
  /\ signaled' = TRUE
  /\ UNCHANGED <<now, loop_vars, task_queue, signaling>>

(* Task_closed_call: remove_running_task, and try_start_tasks.             *)
On_task_closed(t) ==
  LET j    == Job_of[t]
      left == Running(j) \ {t}
  IN  /\ Pop(Entry("Task_closed", t))
      /\ IF left = {} /\ Max_tasks[j] = 1
           THEN enqueue_id(Tail(queue), Entry("Below_max_tasks", j), 0) /\ signaled' = TRUE
           ELSE queue' = Tail(queue) /\ UNCHANGED <<registered, signaled>>
      /\ Start_first(j, Startable(j, Cardinality(left)), [task_state EXCEPT ![t] = "ended"])
      /\ UNCHANGED <<now, loop_vars, signaling>>

-----------------------------------------------------------------------------
Tick ==
  /\ now < Max_time
  /\ now' = now + 1
  /\ UNCHANGED <<call_vars, loop_vars, signaled, task_vars>>

Execute_mature_call ==
  \/ \E j \in Jobs  : On_start_queued_task(j) \/ On_below_max_tasks(j)
  \/ \E t \in Tasks : On_complete(t) \/ On_task_end_completed(t) \/ On_task_closed(t)

Main_loop == Wake \/ Execute_mature_call \/ Nothing_mature \/ onEnteringSleepState \/ wait

(* Begin_turn without Wake: a connection has brought a command.            *)
Next ==
  \/ Main_loop \/ Begin_turn \/ Tick
  \/ \E t \in Tasks :
       \/ onComplete(t) \/ signal(t) \/ kill_queued_task(t)
       \/ \E at \in Start_ats[t] : enqueue_task(t, at)

Spec == Init /\ [][Next]_vars

(* The main loop does not stop, the operations of tasks end, their threads *)
(* signal it, and time goes on.                                            *)
Fairness ==
  /\ WF_vars(Main_loop) /\ WF_vars(Tick)
  /\ \A t \in Tasks : WF_vars(onComplete(t)) /\ WF_vars(signal(t))

FairSpec == Spec /\ Fairness
-----------------------------------------------------------------------------
(* Every variable has a value of its type.                                 *)
TypeOK ==
  /\ now \in 0 .. Max_time
  /\ queue \in Seq([entry : Entries \cup Foreign_calls, at : 0 .. Max_time])
  /\ registered \in [Entries -> 0 .. Never]
  /\ loop \in {"executing", "entering_sleep", "entering_wait", "waiting"}
  /\ signaled \in BOOLEAN /\ wait_until \in 0 .. Never
  /\ task_queue \in [Jobs -> Seq([task : Tasks, start_at : 0 .. Max_time])]
  /\ task_state \in [Tasks -> {"none", "queued", "killed", "running", "completed", "closed", "ended"}]
  /\ signaling \subseteq Tasks

(* A register knows the calls of its object: the queue has at most one     *)
(* call of an entry, and it has the time in the register (Timed_call.cxx:80). *)
(* The queue is in the order of time.                                      *)
Registers_agree_with_queue ==
  /\ \A i \in DOMAIN queue :
       queue[i].entry \in Entries => queue[i].at = registered[queue[i].entry]
  /\ \A i, k \in DOMAIN queue : i < k => queue[i].at <= queue[k].at /\ queue[i].entry # queue[k].entry

(* No call is slept through: while the main thread sleeps and the event is *)
(* not signaled, every call is at the end of the sleep or later, but for   *)
(* those whose threads are about to signal (SchedulerThreadCallQueue.scala:15). *)
No_call_is_slept_through ==
  loop = "waiting" /\ ~signaled =>
    \A i \in DOMAIN queue :
      \/ wait_until <= queue[i].at
      \/ \E t \in signaling : queue[i].entry = Entry("onComplete", t)

(* Every queued task is started, or killed.                                *)
Queued_tasks_start == \A t \in Tasks : task_state[t] = "queued" ~> task_state[t] # "queued"

(* A task with at="period" starts as soon as a period allows               *)
(* (spooler_command.cxx:1013): the main thread does not go to sleep while  *)
(* one could start.                                                        *)
Sleeps_without_startable_tasks ==
  loop = "waiting" /\ ~signaled /\ signaling = {} /\ now < wait_until =>
    \A j \in Jobs : Startable(j, Cardinality(Running(j))) = 0
==============================================================================

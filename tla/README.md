# A TLA+ model of the JobScheduler engine

The JobScheduler starts jobs - shell scripts, programs, script functions - at given
times, on orders or by command, keeps them from disturbing each other with locks and
process classes, and may run as a cluster. The core is C++
(`src/engine-kernelcpp/scheduler`, about 85 000 lines); newer parts (agents, HTTP,
tunnel, timers, the call queue) are Scala (`src/engine-*`).

This directory is the verification project of the engine. It grows one component at a
time; so far it covers the locks with the jobs and tasks that use them, the call queue
of the main thread, process classes, the orders of a job chain, the exclusive cluster,
and the HTTP calls with heartbeats between a scheduler and its agents.
Sections: [inventory](#1-inventory), [plan](#2-plan), [modules](#3-modules-and-how-they-correspond-to-the-code),
[runs](#4-runs), [fairness](#5-fairness), [proofs](#6-proofs), [what the code does not keep](#7-what-the-code-does-not-keep),
[limits](#8-what-is-not-modelled).

## 1. Inventory

How the engine executes: one main thread takes *calls* from a queue and runs each of
them to its end. An object (job, task, ...) registers calls for itself in a
`Typed_call_register`, at once, for a time, or as the completion of an asynchronous
operation. Inside a call everything is sequential; all interleaving is between calls.
User code runs in other processes and calls back through the API while the main
thread handles other calls. So the hard behaviours are: what an object has decided in
one call and carries out in a later one, notifications that arrive when the state has
changed, and conditions nobody is told of.

| component | state | operations | interacts with | what must be right |
|---|---|---|---|---|
| **Lock subsystem** (`lock.cxx`, `lock.h`) | per lock: holders with their uses, mode, limit of readers, a queue per mode; per requestor: list of uses, enqueued flag | is_free_for, its_my_turn, require/release_lock_for, enqueue, dequeue, notify_waiting_requestor, set_max_non_exclusive | called by jobs and tasks, calls back `on_locks_available`; is a file based object | readers/writer exclusion, upgrades and downgrades, fair queues, no forgotten queue entry, no lost notification |
| **Jobs** (`spooler_job.cxx`) | job state, task queue, running tasks, locks, next start | start, stop, unstop, try_start_tasks, task_to_start, set_state | tasks, locks, process classes, orders, schedules, call queue | no more than `tasks` tasks, state agrees with tasks, a queued task starts at last, all locks or none |
| **Tasks** (`spooler_task.cxx`) | task state, running operation, lock levels, end request, error | do_something over 25 states, try_hold_lock, call_me_again_when_locks_available, end, close | job, module instance in another process, locks, process class, order | always ends when asked to, leaves nothing behind, is called after each notification |
| **Folders** (`folder_*.cxx`) | objects by path, replacement, to-be-removed flag, candidates | add, replace_with, remove, handle candidates | every configurable object | a change is neither lost nor carried out while the object is in use |
| **Typed calls and call queue** (`Timed_call.cxx`, `StandardCallQueue.scala`, `CallRunner.scala`) | calls ordered by time, one call per type and object | register, cancel, run the due calls | everything | no call lost, none run twice or after cancel |
| **Process classes** (`spooler_process.cxx` 1271-1520) | processes, limit, waiting requestors | process_available, enqueue, remove, notify | jobs and tasks | limit kept, a waiting requestor is told |
| **Orders and job chains** (`spooler_order.cxx`, `Order.cxx`, `job_chain.cxx`) | order queues, order state, occupation by a task | add, occupy, postprocess, set state, suspend, setback | tasks, database | an order is processed by one task at a time and moves to the right node |
| **Cluster** (`cluster.cxx`) | heartbeats and the active member, in database rows | heartbeat, check, become exclusive, watchdog | database, whole scheduler | at most one exclusive scheduler |
| **Idempotent requests, heartbeats** (`engine-http-server`, `engine-http-client`) | pending operation, expected request id; timers | execute once, answer duplicates; split a long request | agents | executed once although a response is lost; no response after a timeout mistaken for another |
| **Tunnel** (`engine-tunnel`) | connection, outstanding request, handle per task server | connect, request, response, close | agents, task servers | responses in order, closed once, inactivity seen |
| **Agent failover** (`FailableSelector`, `FailableCollection`) | failed agents with delays | select, fail, cancel | process classes | a working agent is found, a cancelled selection calls nobody |
| **Agent task handler** (`TaskHandler.scala`) | tasks by id, terminating flag | start, close, terminate | tunnel | no task starts after termination began |
| **Timer service** (`TimerService.scala`) | ordered queue of timers, clock thread | delay, cancel, run | agents, HTTP | a timer runs or is cancelled, never both |
| **File order sources**, **schedules**, **main loop and commands** | directories; periods; - | poll; next period; dispatch | orders, jobs | see `PROJECT.json` |

Database access, the supervisor, web/XML/COM interfaces, mail, logs and script engines
are I/O or formatting; `js`, `3rd_party`, `kram`, `file`, `javaproxy`, `zschimmer` and
`engine-kernelcpp-generated` are libraries and generated code. They are listed in
`PROJECT.json` and not modelled. `PROJECT.json` also lists the hazards of the code, each
at its line with the properties that watch it.

## 2. Plan

| step | modules | abstract specification | checks | theorems |
|---|---|---|---|---|
| 1 (done) | `LockSubsystem`, `LockedTasks` | `ReadersWriterLock` | exclusion, queues, order, notification, ending, job states, lock changes | done: all invariants but three, the action property of woken tasks, the refinement |
| 2 (done) | `CallQueue` | - | sleep and wake-up, replaced calls, start times | done: all invariants, the number of running tasks |
| 3 (done) | `ProcessClasses` | - | lists, notification, idle tasks | done: no dangling requestor, nobody waits without reason, the types |
| 4 (done) | `HeartbeatCalls` | `RemoteCall` | lost and repeated messages, heartbeats, timeouts | done: all invariants, the refinement |
| 5 (done) | `Cluster` | - | exclusiveness under the timing assumptions, crashes, lost answers of commits | done: all invariants, one exclusive member, the action property |
| 6 (done) | `Orders` | - | queues, tasks, replacement, `max_orders`, forgotten orders | done: the types, orders in their queues, orders and tasks agree, replacements wait for tasks, `max_orders` |
| 7 | `FailableSelector`, `TimerService` | - | selection, cancel races | - |
| 8 | `Tunnel`, `TaskHandler` | a request/response channel | order of responses, close races, inactivity | one response per request |
| 9 | folders in full, file order sources | - | life cycle of objects, files seen once | - |

What is left to prove: in `Orders` the properties about what jobs are told
(`No_order_is_forgotten`, `No_time_is_forgotten`); see section 6.

## 3. Modules and how they correspond to the code

`ReadersWriterLock` is the abstract promise: for each lock, what each holder may do
(nothing, read, write) and how many readers are admitted. One holder changes its access
to any number of locks in one step, if each change is compatible with the others'
access; the limit is configured at any time.

`LockSubsystem` is `lock.cxx`. `holder_map[l][h]` is `_holder_map` with the set of uses,
`lock_mode` is `_lock_mode` (whose value is kept, and ignored, while nobody holds the
lock), `waiting_queues[l][m]` the two lists, `use_list[r]` and `is_enqueued[r]` the
requestor. A use is the triple of requestor, lock and mode. `file_based[l]` keeps what
the folder knows of the lock. All loops run inside one call, so the module gives the
state after *k* iterations of `hold_locks` and `release_locks` as operators (`Hold`,
`Release`, ...). This matters in two places: `hold_locks` may throw half-way
(`Holds_up_to`), and each iteration of `release_locks` may notify somebody, who is
chosen by what is released *so far* (`Notified_by_release`). The operators take queues,
holder map and modes as arguments because callers ask in the middle of a call.

`LockedTasks` adds jobs and tasks and is the specification that is checked and proved.

| action | code |
|---|---|
| `Start_job`, `Stop_job`, `Unstop_job` | `<start_job>` (`enqueue_task`), `stop( true )`, `set_state_cmd( sc_unstop )` |
| `On_job_call` | `Standard_job::on_call` of `Start_queued_task_call`, `Locks_available_call`, `Below_max_tasks_call`: all call `try_start_tasks` |
| `Starts_task`, `Starts_no_task` | `try_start_one_task` with `task_to_start`: start with all locks, enter the queues, leave them |
| `On_task_closed` | `Task_closed_call`: `remove_running_task`, the task object is destroyed with its requestors and calls, `try_start_tasks` |
| `Do_something` | `Task::do_something` when no operation is running, called by `Task_locks_are_available_call`, `Try_next_step_call`, `End_task_call` |
| `Try_hold_lock`, `Delay_until_locks_available` | the script calls `try_hold_lock`, `call_me_again_when_locks_available` |
| `Starting_completed`, `Opening_completed`, `Step_completed`, `Ending_completed`, `Process_signaled` | the `*_completed_call` of an operation with its result, and what `do_something` does until the next operation |
| `End_task` | `cmd_end` (`<kill_task>` without `immediately`) |
| `Change_lock`, `Handle_candidate` | `<lock>` added, replaced, removed, `put_Max_non_exclusive`; `handle_replace_or_remove_candidates` |

`Notified_task_states` and `Notified_calls` are `on_locks_are_available`: a job
registers a call, a task changes its state at once *and* registers a call, and a task
that is not waiting throws, which the lock only logs.

Decisions:

* `calls` is a set. Which registered call comes next is left open; the call queue's
  order is one of the orders the model allows. A register keeps one call per type and
  object, so a set of (type, object) is exact.
* `use_list` of a job is constant; those of a task grow with `try_hold_lock` and go with
  the task or, at process level, with the step.
* A task from `s_ending` to `s_deleting_files` uses locks in one place, `close`, and
  `finish` stops the job after an error just before. These states are one state
  `"ending"` whose operation ends once. `close` visits a set of pointers to requestors,
  so their order is any order (`Requestor_orders`).
* A stopped task object becomes free for the job again (`task_state = "none"`): the pool
  of objects is finite, a bound.
* `stop_on_error` has its default `yes`.
* Names are the source's, except `Start_job` etc. for commands.

`CallQueue` is the queue of the main thread and its sleep: `StandardCallQueue`,
`CallRunner`, `Typed_call_register`, `SchedulerThreadCallQueue`, the end of
`Spooler::run`'s loop, and as users the task queues of jobs. `queue` is the ordered
queue, `registered[e]` the time an entry of a register remembers - also after its call
has been executed, as in the code. `loop` says where the main thread is between the last
look at the queue and the sleep; other threads act in between (`onComplete`, `signal`).
Calls and tasks are put and erased by position, as the lists of the code do it: behind
those that are not later (`positionAfter`), and nothing is erased if there is no position.

| action | code |
|---|---|
| `Begin_turn`, `Execute_mature_call`, `Nothing_mature`, `onEnteringSleepState`, `wait`, `Wake` | `Spooler::run`, `CallRunner.executeMatureCalls`, `Scheduler.onEnteringSleepState`, `Spooler::wait` |
| `enqueue_task`, `kill_queued_task` | `Standard_job::enqueue_task`, `kill_queued_task` |
| `On_start_queued_task`, `On_below_max_tasks`, `On_task_closed`, ... | the handlers of the typed calls |
| `onComplete`, `signal` | a thread adds a call, then signals the event |

`ProcessClasses` is `Process_class` with `Process_class_requestor`, `task_to_start` and
the states of a task that waits for a process or an order. While the main thread is in
`try_start_tasks` of a job, `turn` is the job: several tasks may start before the next
call. `Notified_by_removal` etc. say who is notified when a requestor goes, a process
ends or the limit grows. `Without` is `list::remove`: the elements that are left, each at
the position of its rank among them.

`Orders` is one job chain of N nodes. A handler changes several objects, so it is written
as operators on a record `s` of the whole state, each named after a method of `Order`,
`Order_queue`, `Job_chain` or `Standard_job` and composed as the methods call each other;
an action is `Become(s)`. `Reinsert_homeless` and `Skip_node` are the two loops of
`Order_queue_node::set_action`, `Is_startable` is the condition of the search in a queue.

| action | code |
|---|---|
| `Order_timed_call`, `Order_possibly_available_call`, `Task_closed_call`, `Calculated_next_time_do_something_call` | `Standard_job::on_call` |
| `Step_ends`, `Step_throws` | `Task::step__end`, `Order::postprocessing`, `postprocessing2`; `detach_order_after_error` |
| `Try_next_step_call`, `Next_order_step_call`, `Task_idle_timeout_call` | `Task::do_something` in `s_running` and `s_running_waiting_for_order` |
| `Task_closes` | `Standard_job::remove_running_task`, `calculate_next_time` |
| `Add_order`, `Replace_order`, `Remove_order`, `Modify_...`, `Set_action`, `Set_stopped` | `<add_order>`, `<add_order replace="yes">`, `<remove_order>`, `<modify_order>`, `<job_chain_node.modify>`, `<job_chain.modify>` |
| `Script_sets_state`, `Script_sets_back` | the API calls of a script for the order it processes |

Times are relative (`Zero`, `Past`, `Future`, `Never`): only their order and equality
matter, and the code depends on equality (`call_at` ignores a call for the same time). A
command comes over a connection, which the main loop serves only after the calls that
were due; the guard of `Command` says so for the calls by which a job learns that a task
has gone. The running step of a task, and the state it moves the order to, are in
`order[o].task`, `moved`, `setback_called`.

`Cluster` is the exclusive cluster: `row[m]` and `empty_row` are the database table, `pc`
is where the main thread of a member is between two transactions. Each transaction is an
action, so everything can happen between the look at the table and the update. Ages
stand for time stamps; `Abort` is the watchdog thread, which is punctual. A commit may
succeed without the member's knowing, and each read of the table (`Reads`) may fail
half-way, after any of the rows: `check_schedulers_heart_beat` catches the error and the
member goes on with what it has read (`cluster.cxx:1971`). Both count as faults
(`Max_faults`). Whether a member that has not read the whole table knows of an empty row from an
earlier reading is left open (`Believes_to_be_allowed`); it is then asked again by
`check_empty_member_record` or by the transaction. A process ends in any state.

`RemoteCall` is what a client expects of its calls; `HeartbeatCalls` is
`HeartbeatRequestor` and `IdempotentRequestor` of the client, messages that get lost in
both directions, and `HeartbeatService` and `Idempotence` of the server, whose futures,
timers and callbacks interleave. The n-th sending of a request is a message of its own.
A request that is executed takes four steps, between which other threads act: its id is
eaten (`Receive`), it becomes the pending operation (`Set_pending_operation`), the body is
executed as far as the timer of the period (`Execute`, `HeartbeatService.scala:81`), and the
body reads the promise that answers the request (`Return_current_future`, line 98). `future`
has this promise; duplicates wait for it from the second step on. `Execute` is one step
although it starts the operation, or removes the heartbeat id, before it arms the timer:
other threads compare neither with the timer before it is armed. When a period elapses
between the last two steps, its heartbeat is *missed* (`Missed_its_heartbeat`; section 7).

The `MC` modules have the instances, the `...Proofs` modules the proofs: section 6.
Definitions marked *Mutant* are small defects put into a definition of the
same parameters; they are used by nothing and serve to show that each property can fail.

## 4. Runs

All runs are `tlc -workers 2 -config <run>.cfg <module>`; the longest takes less than
three minutes.

| run | module | instance | shows |
|---|---|---|---|
| `job_commands` | `MCLockedTasks` | two jobs, one exclusive lock; start, stop, unstop | types, queues and job states consistent; a job takes the lock only as the first of those that wait for it |
| `starts` | `MCLockedTasks` | two jobs list two exclusive locks in opposite orders, one has two tasks in turn; fairness | all locks or none, kept until the task is closed; no notification is lost; each queued task starts (or the job is stopped): taking all locks at once excludes the deadlock the order suggests |
| `api_modes` | `MCLockedTasks` | three tasks hold their job's lock as readers, their scripts try to hold it in both modes at both levels; limits 1 and 3 | `_lock_mode` up to date and `ReadersWriterLock` under upgrades and downgrades; enqueued requestors are in the queues |
| `lock_changes` | `MCLockedTasks` | one script, one lock that is removed, added, replaced, limited to none; fairness | a change is carried out when the lock is free; nothing stays held longer than its level; a woken task is called; a task asked to end does end |
| `call_queue` | `MCCallQueue` | three tasks of two jobs, times 0..2; fairness | one call per entry; the main thread sleeps through no call; each queued task starts |
| `processes` | `MCProcessClasses` | two jobs, a class of one process and one that is loaded later with none or one | those who wait are in the lists, nobody waits for a free process, idle tasks make room |
| `orders` | `MCOrders` | two orders, two nodes with `on_error` set back and suspend, one task each; one chain of `max_orders` 1, one whose orders repeat | queues, tasks and replacements stay consistent; `max_orders` is kept; no order and no time is forgotten |
| `cluster` | `MCCluster` | a primary and a backup; periods of 1 to 2 seconds; one commit without answer or failed read; fairness | one exclusive row; nobody takes the exclusiveness from a live member (but by a second look, section 7); a member that keeps running finds or becomes an exclusive one again and again |
| `calls` | `MCHeartbeatCalls` | two calls, the first with a heartbeat, each request sent twice | implements `RemoteCall`; a request gets the answer of its own period, or of its call if the heartbeat was missed; heartbeat ids are registered exactly as long as needed, and no request waits for a promise that nobody completes, but for missed ones |
| `calls_live` | `MCHeartbeatCalls` | two calls with a heartbeat each, timely (section 5); fairness | each call whose operation ends is answered |
| `lost_start`, `set_back_order` | | see section 7 | what the code does not keep |

**Bounds.** *Locks*: at most one queued task per job, a finite pool of task objects, one or
two locks. Two tasks show every pairwise conflict of modes and levels, the third makes a
reader next to another reader behind a holder; limits 0, 1 and 3 are none, one and all
of the tasks. Two locks suffice for half-way failures and for opposite orders. `lock_changes`
has one task, as its states are many; scripts that contend are in `api_modes`. *Call queue*:
at most one task more than a job may run at a time (with two more the run is
`lost_start`); three instants are before, at and after a call's time. *Process classes*: one
waiting order per job, limits 0 and 1, so that each process is one somebody waits for.
*Orders*: orders are added at the first node (`InitialStates`), and moved by
commands; `MaxCommands` 2 commands or script calls, which include the adding of the
orders, so that one order with one command, or two orders that meet, are complete;
`MaxSetbacks` 1, so that the second one is the last. *Cluster*: ages are capped at the
greatest one that is compared; a third member is too much for TLC. *Calls*: a message is
sent at most twice, and the last sending is not lost in `calls_live`.

**Symmetry** is used where task objects or orders are interchangeable and no liveness is
checked.

**Deadlock.** `CHECK_DEADLOCK FALSE` is in the cfgs of systems that rest: scripts that wait
for a lock nobody gives back, and instances whose commands, calls or orders are used up.

**Scope of some properties.** `No_job_could_start_while_idle` is stated for exclusive
uses: a release notifies one requestor only, so that of two waiting readers one waits for
the next release although the lock admits it. `Enqueued_requestors_wait` is checked
without removing locks: closing a lock clears its queues but not the flags of the
requestors, which then do not enqueue again; `on_prepare_to_remove` was meant to dequeue
them, but it is called when `is_to_be_removed()` is already true. `No_overtaking` speaks
about jobs with a single lock: with several, `locks_are_available_for_holder` asks for
one lock to be the requestor's turn and only for freedom of the others.
`No_order_is_forgotten` and `No_time_is_forgotten` leave out what section 7 says of
chains with `max_orders`.

## 5. Fairness

`LockedTasks`: one weak fairness condition for each object that the main thread serves:
the calls a job has registered, those of a task, the completion of a task's operation,
the candidates of a folder. The main thread runs every registered call, in order, so a
call that stays registered is executed; a script function or a process is assumed to
return (`Operation_completed`, `Process_signaled`), which is what ends any wait in a
scheduler. Nothing is assumed of operators, of scripts' API calls, or of lock changes.

`CallQueue`: the main loop runs (as one condition: it is one thread, and which call comes
next is not fair but given by the queue), time passes, and a thread that has something
to complete does so and then signals.

`HeartbeatCalls`: the thread pool executes the handlers and callbacks that are due, an
operation ends at last, and the client repeats a request that is not answered. The last
repetition is not lost. `Timely_spec` has the behaviours in which no request meets its
timeout, no two requests meet between `eatRequestId` and the registration of the
operation - otherwise a call may fail, as the code says -, and no heartbeat is missed: a
period lasts longer than its handler takes from the timer to the promise. Without the last
restriction a call may get no answer (section 7). Nothing is assumed of the
messages before the last one.

`Cluster`: time passes, the watchdog thread acts, and a member that runs looks at the
table. The heartbeat has strong fairness: a wait or a transaction of the same thread disables
it for a moment, again and again. Members may end or crash at any time and need not be started again.

`ProcessClasses` and `Orders` are checked for safety. What must happen there at last is
stated as invariants: somebody is called, or is busy and will look when done.

## 6. Proofs

`tlapm <module>.tla` checks the proofs of a module. They hold for every value of the
constants that the named assumptions allow; TLC evaluates the assumptions in the runs.
`LockAssumption` and `TaskAssumption`: limits are numbers, the NULLs are not values, the
holders are finite, a job names a lock once. `ClusterAssumption`: periods and timeouts
are numbers, and `heart_beat_own_timeout` is shorter than `heart_beat_timeout`.
`CallQueueAssumption`: times and limits are numbers, a job may run at least one task.
`ProcessClassesAssumption`: limits are numbers, the tasks are finite, jobs, tasks and the
NULL are different.
`OrdersAssumption`: orders and tasks are finite, None is neither; jobs have tasks of their
own; limits and bounds are numbers; orders are added at nodes, and only orders repeat.
`BoundAssumption`: the bounds are numbers.

| module | theorems | property of a run |
|---|---|---|
| `LockedTasksProofs` | `Hold_keeps_holds_right`, `Release_keeps_holds_right` and lemmas about queues; `Type_correct`, `Holders_are_exclusive`, `Locks_are_readers_writer_locks` | `TypeOK`, `Mode_agrees`, `Implements_readers_writer_lock` |
| `TaskHoldsProofs` | `Job_states_agree`, `Job_locks_are_kept`, `Holds_are_given_back`, `Starts_hold_all_locks`, `Nobody_is_woken_and_forgotten` | `Job_state_agrees`, `Job_locks_are_held`, `Holds_no_longer_than_allowed`, `Job_hold_does_not_throw`, `Woken_tasks_are_called` |
| `LockQueueProofs` | `Queues_stay_sound`, `Lock_changes_are_not_lost` | `Queues_are_sound`, `Lock_changes_wait_for_holders` |
| `ClusterProofs` | `Type_correct`, `Database_keeps_integrity`, `Exclusive_members_keep_the_row`, `One_member_is_exclusive`, `Exclusiveness_needs_the_empty_row` | `Database_integrity`, `Exclusive_members_have_the_row`, `Backups_need_the_empty_row` |
| `HeartbeatCallsProofs` | `Type_correct`, `Messages_get_their_answers`, `Heartbeat_ids_stay_registered`, `Results_get_to_their_requests`, `Remote_call_is_implemented` | `TypeOK`, `Answers_belong_to_requests`, `Heartbeat_ids_are_registered`, `Results_are_not_lost`, `Implements_remote_call` |
| `CallQueueProofs` | `Type_correct`, `Registers_keep_to_the_queue`, `Sleeps_end_in_time`, `Max_tasks_is_kept` | `TypeOK`, `Registers_agree_with_queue`, `No_call_is_slept_through` |
| `ProcessClassesProofs` | `Type_correct`, `Requestors_do_not_dangle`, `Processes_belong_to_tasks`, `First_requestor_is_told`, `Nobody_waits_without_reason` | `TypeOK`, `No_dangling_requestors`, `Waiting_only_without_process` |
| `OrdersProofs` | `Type_correct`, `Orders_stay_in_their_queues`, `Orders_and_tasks_know_each_other`, `Replacements_are_released`, `Max_orders_always_kept` | `TypeOK`, `Orders_are_in_their_queues`, `Orders_and_tasks_agree`, `Replacements_wait_for_tasks`, `Max_orders_is_kept` |

`ClusterProofs!Type_correct` has no run of its own: it also says that a member that takes the
exclusiveness has somebody to take it from (`cluster.cxx:2022`).

Each invariant rests on an inductive one, which was checked with TLC on the instances of
the runs before it was proved. There is one lemma per action, or two where the action
disturbs independent parts.

**Locks.**

* *Types* rest on lemmas about the operators: `Without` (erasing one entry keeps a queue a
  queue, which needs that the first occurrence exists), `Enqueued`, `Hold`, `Release`,
  `Candidates_after_release`.
* *Exclusion* alone is not inductive: `is_free_for` does not look at the uses of the
  holders but at `_lock_mode`, so the mode must be known to agree with the uses
  (`Mode_agrees`); and a lock that is added again starts with a new mode, so a lock that is
  not known must be known to be free. The invariant is `Holds_are_right_invariant`. The two
  lemmas that carry it are `Hold_keeps_holds_right` and `Release_keeps_holds_right`: taking the first *k* uses of a
  list, if each was free when its turn came, or if all were free before
  (`May_hold_first` covers tasks and jobs), and giving back the first *k* uses.
* *Refinement*: the abstract lock asks what a holder may have when a step is over
  (`May_have`), the code asks before each use of a list. `hold_locks` may take a lock as a
  reader and upgrade it in the same call; for each lock the first use of the list that
  names it decides whether a reader is admitted (`Required_uses_are_admitted`), the later
  ones only upgrade. A job takes its locks after it has asked for all of them at once,
  which is the same since the list names a lock once (`Available_uses_are_admitted`). Giving back
  only lowers an access. With `Holders_are_exclusive`, the mode then tells the access of
  the others. Limits change in steps of their own.
* *What tasks hold* (`TaskHoldsProofs`, `IInv`): `Holds_no_longer_than_allowed` needs that
  each list has only uses of its own requestor (`Lists_are_own`), otherwise giving back the
  list would leave something; that the lists of jobs do not change (`Job_lists_stay`),
  since a task takes its job's list at its start and gives it back in `close`; and that a
  `Task_closed_call` is registered for closed tasks only (`Closed_calls`), since it destroys
  the requestors. `Job_state_agrees` joins in as `try_start_tasks` runs at the end of the
  handlers that change both.
* *Queues* (`LockQueueProofs`, `Queue_invariant`, on top of the former). Soundness needs to know when a
  task has entered the queues: with `try_hold_lock` a script changes the very list whose
  uses are enqueued. `Waits_in_time` says that a task is enqueued only in the waiting state
  of this level, or until its next call takes the locks, or when it has ended while it
  waited, so that no list grows or is emptied while it is in the queues.
  For the lock changes, `Lock_invariant` adds that a lock is not both to be removed and
  to be replaced, and that nobody waits for a lock that has gone.
* *Action property*: `Nobody_is_woken_and_forgotten` needs little of the invariant, but every
  handler: whichever changes the state of another task registers its call in the same step.

**Call queue.** The first lemmas say what a list has after an insertion, at the first position
behind entries that are not later, and after an erasure. From them, order is kept.
* *Registers* (`Queue_right`): to cancel a call erases one entry of the queue, the first with this
  register entry. Only as no entry has two calls is none left over, and the register's
  time that of the new call alone. For the calls of other threads, which no register
  knows, this needs the tasks: the call that completes a future is in the queue only while
  its task is completed and not yet closed, and never together with the next call of the
  task (`Task_calls_right`), so that a future is not completed twice.
* *Sleep* (`Sleeps_in_time`): it begins where the main thread has read the time of the first
  call, not where it sleeps. From there on, each call that is put into the queue is either
  signaled by the main thread itself or one whose thread will signal. That no call is earlier than
  the first one is the order of the queue.
* *Number of tasks* (`Tasks_right`): the queued tasks of a job are distinct and not running, so
  that the tasks that `try_start_tasks` starts are as many as it takes from the queue. The theorem is about
  jobs that are not unstopped: section 7 says what happens to those.

**Process classes.** The lemmas about lists come first: where `Without` finds the k-th element
that is left (`Removed`), and whom `waiting_requestor` chooses.
* *Lists* (`IInv`): `No_dangling_requestors` is nearly inductive: a task is put into the list
  only when it is not there, which is told by its state, and a job by its flag. But a
  `Task_closed_call` destroys the task, so it must be known that such a call is registered for
  closed tasks only (`Calls_right`). That processes are taken and given back in step with the
  states of the tasks (`Processes_right`) is proved beside it.
* *Notification* (`Wake_inv`): what is stated for the moments when the main thread is idle needs
  a promise for all others. `First_is_told`: while a class has a process, the first of its
  list has a call registered, and for a job the flag `try_again` with it, or it is its turn. For this
  promise to help, a job that waits must be able to start a task when it is called
  (`Could_start`), as otherwise it would let its turn pass without leaving the list or telling the
  next one. It is, since `set_state` withdraws the request of a job whose state changes, and the tasks
  of a job that waits only become fewer.
* *Hypothesis*: the two theorems about notification assume `Classes_are_apart`, a formula about
  the configuration: no job's own class is missing, and tasks that run in the class of a job
  chain do not wait where jobs wait. The instance of the run satisfies it. Section 7 says what the code does otherwise.

**Orders.** The inductive invariant is `IInv`: `Queues_right` (a queue has no order twice; an
order is in the queue of its node and in no other), `Replacements_right`, `Occupied_right` (an
order a task has stays in a queue until it is moved), `Count_right` (the number of times it
is set back) and `Tasks_right` (order and task agree; who has no order is not running).
* *A handler is a composition of methods* on a record of the state, so the lemmas are about
  methods, from the lowest to the highest: what a method does to the other orders (nothing but their
  release by `Close`), to the queues (they stay well formed), and to the order itself. `Acts_on`,
  `Becomes`, `Goes` and `Keeps` are the forms in which this is said: of one order, of its exact
  value, of its place in the chain, and of what a task that is through with it relies on. In
  between an order may be in no queue, or with no task while its task still refers to it; the
  forms say how much of the invariant holds at that point.
* *Sets*: signals to several jobs or orders, tasks that take orders and orders that leave a skipped
  node are folds. What a fold computes cannot be derived here, since its
  definition is recursive; but it is derived that the fold exists on finite sets
  (`Fold_exists`, by the sizes of the subsets), and that what each of its steps
  keeps, the fold keeps (`Subsets_reached`).
* *Setting back*: after `MaxSetbacks` the order waits for `Never`, and the task that is through with it
  resets the count in the same handler, unless a command or a script intervenes: so the bound in
  `TypeOK` is `MaxSetbacks` + commands + 1 (`Count_right`).
* *`max_orders`*: a handler either begins orders or moves them, never both. Commands, scripts and the
  end of a step begin none: an order that has begun and stands in the chain did so before
  (`Nobody_begins`; `Begun_before` is part of `Acts_on`, so each method says it of its order).
  Handlers in which tasks take orders leave the begun orders as they are or find, with the
  last one that begins, room for it (`Begins_within_limit`), however many tasks take orders in it.
  The step keeps one of the two (`Begins_rightly`), which is proved together with `IInv`
  (`Step_right`). The exception in `Max_orders_is_kept` is needed: a suspended order that reaches the
  end is blacklisted and no longer counted, and a command that sets its state brings it back
  without asking `is_max_orders_reached`, whoever has taken its place.

**Cluster.** `IInv` has two halves. `Database_integrity` is kept by each transaction alone,
but for those that carry out a decision of an earlier one: a member that is about to take
the exclusiveness has a target (`TypeOK`), and only an idle or confirming one is exclusive
(`Exclusive_members_do_not_take`); an exclusive row is active and not dead, and a running member that
has been deprived has a row that is still active, so that it cannot take the
exclusiveness again (`Dead_rows_are_not_taken`).
`Exclusive_members_have_the_row` is about time: a member that takes the exclusiveness has
not seen a heartbeat of its target for `Dead_age` (`Targets_are_late`), a heartbeat is
detected at the earliest when it was written (`Detected_after_written`), so the target's
last heartbeat is as old, and its watchdog, whose timeout is shorter, has aborted it. This is
where `heart_beat_own_timeout < heart_beat_timeout` is needed. `One_member_is_exclusive`, what it
is all for, follows from both.

**HTTP calls.** A call's promises are numbered by heartbeat period. The invariant follows a
request through the system: the client makes its requests in order and never two for one
promise (`Requests_in_order`); of all sendings of a request one is accepted
(`Messages_in_order`); who waits for an answer waits for that of its request, and
this gets its own promise or, if its heartbeat was missed, the next one, which is then the
last: no timer and no heartbeat follow (`Answers_in_order`); a call that is executed is not
accepted again (`Executed_once`); the current promise has either a timer or a registered id
(`Timers_in_order`); and a heartbeat id is registered from before the heartbeat is answered
until the continue request that uses it, and who continues has not missed the heartbeat
before (`Heartbeats_in_order`). The last part, `Answered_calls_have_a_result`, is needed
for the ids that stay after the answer. For `Results_are_not_lost`, `Results_in_order` is
added: the callback leaves the current promise open only when the one before it has got the
result, and then nobody continues, since a continue request needs a heartbeat in its
place. The refinement follows step by step: `executed`
grows only from `Executed_once`'s zero, and an answer comes only from a promise that has
the result.

**Only model-checked**, and why:

* Liveness (`Queued_tasks_get_their_locks`, `Queued_tasks_start`, `Tasks_end`, `Calls_are_answered`,
  `The_cluster_continues`), and whatever needs `ENABLED`: out of the prover's reach.
* `No_overtaking`, `Enqueued_requestors_wait` and `No_job_could_start_while_idle` hold for the
  instances they are checked on and not in general: a task that closes may be itself the
  head of a queue that it leaves in the same step; removing a lock clears its queues; the
  third is about exclusive uses (section 4).
* `Idle_tasks_make_room` holds for limits 0 and 1 and not in general (section 7).
* `No_order_is_forgotten` and `No_time_is_forgotten` of `Orders`. They compare the first
  processable order of each queue, before and after every handler, with the calls of its job; the
  lemmas of `OrdersProofs` follow one order, not those behind it in its queue.
* `lost_start` and `set_back_order`: counterexamples.

## 7. What the code does not keep

Two runs end in a counterexample to what a text of the repository says.

* `lost_start` - `spooler_command.cxx:1013` says that a task queued with `at="period"` starts as
  soon as a period allows. The register keeps the time of an executed call, and `call_at`
  for the same time does nothing (`Timed_call.h:218`); `on_call(Start_queued_task_call)` does
  not cancel the entry first (`spooler_job.cxx:1948`). With two tasks more than the job may
  run at a time, the third one stays in the queue of a job that runs nothing, until another
  call of the job. The same happens with different start times when a task is queued
  for later while another one waits for a running one to end.
* `set_back_order` - with `max_orders`, a job asks for the time of the first order of a
  node that is processable, although `max_orders` may not let it begin
  (`spooler_order.cxx:4706`), and `Order_timed_call` registers again only for another time
  (`spooler_job.cxx:1969`). An order that has begun and was set back, and now stands behind
  one that may not begin, is not called when its time has come; it keeps the only place, so
  the chain stops. The comment at `Order.cxx:283` says that orders further back never start
  before the first one: this one has to.

The following the models have, or exclude as noted, without a run of their own.

Locks:
* `hold_locks` asserts `locks_are_available_for_holder` (`lock.cxx:1314`). A notified task
  leaves the waiting state at once and takes its locks in a later call. In between a job
  with a pending start call, whose own queue is empty, takes the lock; the task then fails.
  Likewise a job with two locks takes one past a job that waits for this one only.
* `on_locks_are_available` asserts that the task is waiting (`spooler_task.cxx:940`). A task
  that ends while it waits does not leave the queues (only leaving `s_running` does that);
  it is notified in `s_ending`, throws, and the notification is lost for the next.
* `spooler_module.cxx:883` says that `spooler_open` is called again after
  `call_me_again_when_locks_available`. The script's call only sets a flag; the queue is
  entered when the operation has ended, without another look at the locks. If the lock is
  released in between, the task waits for a free lock.
* `spooler_job.h:522` says `_running_tasks.size() <= _max_tasks`. Unstopping a job that is
  stopping makes it pending with a running task (`spooler_job.cxx:2948`), and a pending job
  starts a task without counting.

HTTP calls:
* `HeartbeatIT.scala:149` asserts after each call that no heartbeat id is registered.
  `startHeartbeatPeriod` arms the timer (`HeartbeatService.scala:81`) before it reads the
  promise of the answer (98). If the period elapses in between, the heartbeat answers the old
  promise, for which nobody waits, and the request waits for the new one. The client gets
  the result, but no heartbeat until then, and the id stays registered for ever. This is the
  exception `Missed_its_heartbeat` of `Answers_belong_to_requests` and
  `Heartbeat_ids_are_registered`.
* The comment at `HeartbeatService.scala:129` says that a result which finds its promise
  completed by a heartbeat completes the new promise. When the result comes first and the
  period elapses after it, but before line 98, the promise with the result is replaced by one
  that nobody completes, and the handler returns this one: the call gets no answer before
  its timeout. The callback that would cancel the timer is registered only after that (48).
  `Results_are_not_lost` excepts the same requests.
* `IdempotenceTest.scala:86-91` shows that a duplicate of a request whose operation has been
  replaced by the next one is rejected, not answered. The client, which sends one request
  after the other, has given up such a request before.

Cluster: a member that finds nobody exclusive inserts the empty row and looks again
(`cluster.cxx:2003-2006`). The member it finds then is deprived, dead or alive; it finds
out only with its next heartbeat. This happens when another member has become exclusive
between the two looks, or when the first look failed before it had read the exclusive row
(`cluster.cxx:1971`). The history variable `deprived` of the model excepts these members from
`Exclusive_members_have_the_row`.

Process classes: when two jobs wait for a class that is missing, and it is loaded with one
process, the second one has `_waiting_for_process` set but is in no list
(`spooler_job.cxx:2857`); in the run only tasks run in the class that is loaded. When a job of its own class
and a task of a job chain with the same class wait in one list, the task is notified
first and the job, which could use another process, is not (`spooler_process.cxx:1511`).
A task asks for an idle task's process only when it begins to wait (`spooler_task.cxx:1429-1463`).
When the limit of its class is lowered meanwhile, the place of the idle task that ends is no longer
free; the task goes on waiting, and another idle task of the class keeps its process until its timeout.

Orders:
* A place under `max_orders` that becomes free because an order repeats, or goes to the
  blacklist, is not announced by `Job_chain::wake_orders`; an order at another node may wait
  until some other event (exception `Every_free_place_is_announced`).
* An order that its script has moved to a node with `on_error="setback"`, and whose step then
  fails, throws SCHEDULER-188 in its postprocessing again and again (excluded by the guard
  of `Script_sets_state`).
* An order that waits to replace another, and is itself replaced meanwhile, releases the
  third one at once: two orders of one id may be processed at a time. Ids are not in the
  model; the task that has the first order and the one that has the third are different.
* `place_or_replace_in_job_chain` removes the old order even if the new one cannot be placed.

## 8. What is not modelled

*Jobs and tasks*: periods (each instant is in one), `min_tasks`, suspending and killing, timeouts and
subprocesses, errors of the connection to a process, `stop_on_error="no"` in `LockedTasks` and
`"yes"` in `Orders`, removal of jobs, monitors and schedules as requisites. They change
when a task starts or ends, not what it then does; ends are possible at any time.
*Call queue*: its closing, after which calls are cancelled or rejected.
*Process classes*: their removal, the limit of all processes, remote schedulers and agents.
*Orders*: nested and distributed chains, priorities, delaying and suspending nodes, end
states, `reset`, `ignore_max_orders`, file orders with their sources and sinks, the
database; commands of the web server that come between the end of a task and its calls.
*Cluster*: configurations without a watchdog thread (an own timeout "never" is accepted as
well, `cluster.cxx:1396`, and the thread can be suppressed): in them nothing ends a member
that is late, and `ClusterAssumption` leaves them out; distributed orders, the tolerance
while a member reconnects to the database, the check inside of a transaction, cluster
commands.
*HTTP heartbeats*: the callback for a missing heartbeat.
Log lines and XML answers are left out: no property is about them.

Not modelled at all: the tunnel and the task handler of agents, agent failover, the timer
service, file order sources, schedules and periods (calendar arithmetic without shared
state), the database, the supervisor, script engines, web, XML and COM interfaces, mail,
logs, vendored and generated code. They make up most of the source lines: the modelled
parts are the core of the scheduler, a few thousand lines of C++ and Scala.

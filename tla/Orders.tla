------------------------------- MODULE Orders -------------------------------
(***************************************************************************)
(* The orders of one job chain (Order.cxx, spooler_order.cxx), the queues  *)
(* of its nodes, and the tasks of the nodes' jobs that take the orders     *)
(* (spooler_job.cxx, spooler_task.cxx).                                    *)
(*                                                                         *)
(* Nodes 1..N follow each other, each has an order queue and a job; the    *)
(* next state of N and the error state of every node is the end node.      *)
(* Everything happens in calls of the scheduler's main thread: commands,   *)
(* the calls of the jobs (Order_timed_call, Order_possibly_available_call, *)
(* Task_closed_call) and those of the tasks. A handler that changes more   *)
(* than one object is written as operators on a record s of the whole      *)
(* state, named after the methods it is composed of; Become(s) is the step *)
(* to s.                                                                   *)
(*                                                                         *)
(* Times are seen from now: Zero is Time(0), Past has been reached, Future *)
(* will be, Never is Time::never. All times in the future come together.   *)
(***************************************************************************)
EXTENDS Naturals, FiniteSets, Sequences, SequencesExt

CONSTANTS
    Orders,             \* order objects
    Jobs,
    Tasks,
    None,
    N,                  \* number of nodes with a job
    JobOf,              \* the job of each node
    TasksOf,            \* the tasks a job may run at a time (max_tasks)
    OnError,            \* on_error of each node: "error", "setback" or "suspend"
    MaxSetbacks,        \* setback_max of the jobs
    Configurations,     \* [max_orders, repeating (orders with a file and a schedule)]
    InitialStates,      \* bound: states that orders are added with
    MaxCommands         \* bound: commands and calls of scripts to orders

Nodes == 1..N
End   == N + 1
Out   == 0              \* not in the job chain

ASSUME OrdersAssumption ==
    /\ N \in Nat \ {0}
    /\ IsFiniteSet(Orders) /\ IsFiniteSet(Tasks)
    /\ None \notin Orders \cup Tasks
    /\ JobOf \in [Nodes -> Jobs]
    /\ TasksOf \in [Jobs -> SUBSET Tasks]
    /\ \A j, k \in Jobs : j # k => TasksOf[j] \cap TasksOf[k] = {}
    /\ OnError \in [Nodes -> {"error", "setback", "suspend"}]
    /\ InitialStates \subseteq Nodes
    /\ MaxSetbacks \in Nat /\ MaxCommands \in Nat
    /\ \A c \in Configurations : c.max_orders \in Nat /\ c.repeating \subseteq Orders

Zero  == 0
Past  == 1
Future == 2
Never == 3

VARIABLES
    order,      \* the Order objects
    queue,      \* Order_queue::_queue of each node
    action,     \* Node::_action
    stopped,    \* Job_chain::_is_stopped
    timed,      \* when a job's Order_timed_call is due; Never if it is not registered
    calculated, \* the register entry of a job's Calculated_next_time_do_something_call
    available,  \* a job's Order_possibly_available_call is in the call queue
    closed,     \* a job's Task_closed_call is in the call queue, or its Below_max_tasks_call
    task,       \* the Task objects
    config,     \* max_orders of the chain, and the orders that repeat
    commands    \* number of commands so far

vars == <<order, queue, action, stopped, timed, calculated, available, closed, task, config, commands>>

New_order ==
    [node |-> Out, initial |-> 1, setback |-> Zero, setback_count |-> 0,
     setback_called |-> FALSE, suspended |-> FALSE, blacklisted |-> FALSE,
     touched |-> FALSE, moved |-> FALSE, task |-> None, replacement_for |-> None]

\* An entry of a register keeps the time of its call when that has been executed; call_at
\* does nothing for the same time (Timed_call.h:218).
No_call == [at |-> Never, pending |-> FALSE]
call_at(call, t) == IF call.at = t THEN call ELSE [at |-> t, pending |-> t # Never]
Is_mature(call) == call.pending /\ call.at <= Past

No_task == [state |-> "none", order |-> None, next_step |-> No_call]

State == [order |-> order, queue |-> queue, action |-> action, stopped |-> stopped,
          timed |-> timed, calculated |-> calculated, available |-> available, closed |-> closed,
          task |-> task]

Become(s) ==
    /\ order' = s.order /\ queue' = s.queue /\ action' = s.action
    /\ stopped' = s.stopped /\ task' = s.task
    /\ timed' = s.timed /\ calculated' = s.calculated
    /\ available' = s.available /\ closed' = s.closed
    /\ UNCHANGED config

-----------------------------------------------------------------------------
(* What may be processed *)

\* The node an order in state n goes to: nodes with action "next_state" are skipped.
Referenced(s, n) ==
    CHOOSE m \in n..End : /\ m # End => s.action[m] # "next_state"
                          /\ \A k \in n..(m - 1) : s.action[k] = "next_state"

Is_queued(s, o) == LET n == s.order[o].node IN n \in Nodes /\ o \in Range(s.queue[n])

Is_processable(s, o) ==
    LET x == s.order[o] IN
    /\ ~x.blacklisted /\ ~x.suspended /\ x.task = None /\ x.replacement_for = None
    /\ ~s.stopped
    /\ x.node \in Nodes => s.action[x.node] # "stop"

Next_time(s, o) == IF Is_processable(s, o) THEN s.order[o].setback ELSE Never

First(seq, Test(_)) ==
    LET i == SelectInSeq(seq, Test) IN IF i = 0 THEN None ELSE seq[i]

First_processable(s, n) == First(s.queue[n], LAMBDA o : Is_processable(s, o))

Number_of_touched_orders(s) ==
    Cardinality({o \in Orders : Is_queued(s, o) /\ s.order[o].touched})

\* mutant of Untouched_is_allowed: off by one
Untouched_up_to_max_orders(s) == Number_of_touched_orders(s) <= config.max_orders

Untouched_is_allowed(s) == Number_of_touched_orders(s) < config.max_orders

Is_startable(s, o) ==
    /\ Is_processable(s, o) /\ s.order[o].setback <= Past
    /\ s.order[o].touched \/ Untouched_is_allowed(s)

\* Order_queue::first_immediately_processable_order: the search ends behind an
\* order whose time has not come.
First_immediately_processable(s, n) ==
    LET o == First(s.queue[n], LAMBDA x : Is_startable(s, x) \/ s.order[x].setback > Past)
    IN IF o # None /\ Is_startable(s, o) THEN o ELSE None

Nodes_of(j) == {n \in Nodes : JobOf[n] = j}

Least(S) == CHOOSE x \in S : \A y \in S : x <= y

Next_order_time(s, j) ==
    LET first == {First_processable(s, n) : n \in Nodes_of(j)} \ {None}
    IN Least({Next_time(s, o) : o \in first} \cup {Never})

-----------------------------------------------------------------------------
(* Signals to the jobs *)

\* Order::handle_changed_processable_state, Standard_job::signal_earlier_order
Signal(s, o) ==
    LET n == s.order[o].node
        t == Next_time(s, o)
    IN IF n \in Nodes /\ t # Never
       THEN [s EXCEPT !.timed[JobOf[n]] = IF @ >= t THEN t ELSE @]
       ELSE s

\* Job_node::wake_orders
Wake_node(s, n) ==
    LET o == First_processable(s, n)
        s1 == [s EXCEPT !.available[JobOf[n]] = TRUE]
    IN IF o = None THEN s1 ELSE Signal(s1, o)

\* Job_chain::wake_orders
Wake_orders(s) ==
    IF s.stopped THEN s ELSE FoldSet(LAMBDA n, r : Wake_node(r, n), s, Nodes)

-----------------------------------------------------------------------------
(* The queue of a node *)

Remove_from_queue(s, o) ==
    [s EXCEPT !.queue[s.order[o].node] = RemoveFirst(@, o)]

\* Order_queue::add_order: not suspended before suspended, earlier before later.
Add_to_queue(s, o) ==
    LET n == s.order[o].node
        a == s.order[o]
        Behind(x) == LET b == s.order[x] IN
            IF a.suspended = b.suspended THEN b.setback > a.setback ELSE b.suspended
        i == SelectInSeq(s.queue[n], Behind)
        at == IF i = 0 THEN Len(s.queue[n]) + 1 ELSE i
    IN Signal([s EXCEPT !.queue[n] = InsertAt(@, at, o)], o)

Reinsert(s, o) == Add_to_queue(Remove_from_queue(s, o), o)

Reinsert_if_queued(s, o) == IF Is_queued(s, o) THEN Reinsert(s, o) ELSE s

-----------------------------------------------------------------------------
(* The methods of Order *)

Set_setback(s, o, t) ==
    IF s.order[o].setback = t THEN s
    ELSE Signal(Reinsert_if_queued([s EXCEPT !.order[o].setback = t], o), o)

\* mutant of Forget_setbacks: the count is never reset
Keep_setbacks(s, o) == s

Forget_setbacks(s, o) == [s EXCEPT !.order[o].setback_count = 0]

Clear_setback(s, o) ==
    IF s.order[o].setback_count > 0 THEN Forget_setbacks(Set_setback(s, o, Zero), o) ELSE s

\* mutant of Close: the order that waits is not released
Close_alone(s, o) == [s EXCEPT !.order[o] = New_order]

\* Order::close: the order is done with; one that has been waiting to replace it goes on.
Close(s, o) ==
    LET waiting == {r \in Orders : s.order[r].replacement_for = o}
        s1 == [s EXCEPT !.order = [r \in Orders |->
                  IF r = o THEN New_order
                  ELSE IF r \in waiting THEN [@[r] EXCEPT !.replacement_for = None]
                  ELSE @[r]]]
    IN FoldSet(LAMBDA r, x : Signal(x, r), s1, waiting)

\* mutant of Close_if_free: closed although a task has it
Close_anyway(s, o) == Close(s, o)

\* An order a task has stays with it, and is closed when the task is through with it.
Close_if_free(s, o) == IF s.order[o].task = None THEN Close(s, o) ELSE s

\* mutant of Announce_place: nobody hears of the free place
Announce_nothing(s) == s

\* Job_chain::remove_order: an order that has not begun may begin now.
Announce_place(s) == IF Untouched_is_allowed(s) THEN Wake_orders(s) ELSE s

\* Order::remove_from_job_chain
Remove_from_job_chain(s, o) ==
    LET s1 == IF Is_queued(s, o) THEN Remove_from_queue(s, o) ELSE s
        s2 == [s1 EXCEPT !.order[o].node = Out, !.order[o].blacklisted = FALSE,
                         !.order[o].moved = @ \/ s.order[o].task # None]
        s3 == [Announce_place(s2) EXCEPT !.order[o].setback = Zero, !.order[o].setback_count = 0,
                         !.order[o].replacement_for = None]
    IN Close_if_free(s3, o)

\* mutant of Leave_queue: an order that a task has stays in the queue it was in
Leave_queue_if_free(s, o) ==
    IF Is_queued(s, o) /\ s.order[o].task = None THEN Remove_from_queue(s, o) ELSE s

Leave_queue(s, o) == IF Is_queued(s, o) THEN Remove_from_queue(s, o) ELSE s

Move_to_node(s, o, n) ==
    LET from == s.order[o].node
        s1 == [s EXCEPT !.order[o].moved = @ \/ s.order[o].task # None]
        s2 == [Leave_queue(s1, o) EXCEPT !.order[o].node = n]
    IN IF n = from THEN s1
       ELSE IF n \in Nodes THEN Add_to_queue(s2, o) ELSE s2

\* Order::handle_end_state_repeat_order: first the state, then the time.
Repeat(s, o) ==
    LET s1 == Clear_setback([s EXCEPT !.order[o].touched = FALSE], o)
        s2 == Move_to_node(s1, o, Referenced(s1, s.order[o].initial))
    IN Forget_setbacks(Set_setback(s2, o, Future), o)

Handle_end_state(s, o) ==
    IF o \in config.repeating THEN Repeat(s, o)
    ELSE IF s.order[o].suspended THEN [s EXCEPT !.order[o].blacklisted = TRUE]
    ELSE Remove_from_job_chain(s, o)

Set_state1(s, o, n) ==
    LET to == Referenced(s, n)
        s1 == Move_to_node(s, o, to)
    IN IF to = End /\ s.order[o].node # End THEN Handle_end_state(s1, o) ELSE s1

Set_state(s, o, n) ==
    LET s1 == Clear_setback(s, o)
    IN Set_state1([s1 EXCEPT !.order[o].blacklisted = FALSE], o, n)

Set_suspended(s, o, b) ==
    LET s1 == [s EXCEPT !.order[o].suspended = b] IN
    IF s.order[o].suspended = b THEN s
    ELSE IF s.order[o].blacklisted /\ ~b THEN Remove_from_job_chain(s1, o)
    ELSE Signal(Reinsert_if_queued(s1, o), o)

\* Order::setback: the order waits, or, after too many times, never runs again here.
Setback(s, o) ==
    LET count == s.order[o].setback_count + 1
    IN Reinsert([s EXCEPT !.order[o].setback_count = count,
                          !.order[o].setback_called = TRUE,
                          !.order[o].setback = IF count <= MaxSetbacks THEN Future ELSE Never], o)

\* Order::postprocessing2
Postprocessing2(s, o) ==
    LET s1 == Signal([s EXCEPT !.order[o].moved = FALSE], o)
        n == s.order[o].node
    IN IF n = Out THEN Close(s1, o)
       ELSE IF n \in Nodes /\ s.action[n] = "next_state" THEN Set_state1(s1, o, n)
       ELSE s1

\* Order::postprocessing: a task is through with the order.
Postprocessing(s, o, success) ==
    LET n == s.order[o].node
        On_error(kind) == n \in Nodes /\ OnError[n] = kind
        s1 == IF ~success /\ On_error("setback") THEN Setback(s, o) ELSE s
        s2 == IF s1.order[o].setback_called THEN s1 ELSE Forget_setbacks(s1, o)
        x  == s2.order[o]
        exhausted == ~x.suspended /\ x.setback = Never /\ x.setback_count > MaxSetbacks
        s3 == IF exhausted THEN [Forget_setbacks(s2, o) EXCEPT !.order[o].setback = Zero] ELSE s2
        s4 == [s3 EXCEPT !.order[o].task = None]
        ok == success /\ ~exhausted
        s5 == IF exhausted \/ (x.setback_count = 0 /\ ~x.moved)
              THEN IF n \notin Nodes THEN s4
                   ELSE IF ~ok /\ On_error("suspend") THEN Set_suspended(s4, o, TRUE)
                   ELSE Set_state1(s4, o, IF ok THEN n + 1 ELSE End)
              ELSE IF x.moved THEN s4
              ELSE Set_state1(IF s4.action[n] = "next_state" THEN Clear_setback(s4, o) ELSE s4, o, n)
    IN Postprocessing2(s5, o)

-----------------------------------------------------------------------------
(* Tasks take orders *)

Occupy_for_task(s, o, t) ==
    [s EXCEPT !.order[o].setback = Zero, !.order[o].setback_called = FALSE,
              !.order[o].moved = FALSE, !.order[o].task = t, !.order[o].touched = TRUE,
              !.task[t].state = "running", !.task[t].order = o]

\* Task::fetch_and_occupy_order, Combined_job_nodes::fetch_and_occupy_order.
\* None of the orders may be free: then s is as before.
Fetch(s, t, j) ==
    LET ready == {n \in Nodes_of(j) : First_immediately_processable(s, n) # None}
        o == First_immediately_processable(s, Least(ready))
    IN IF ready = {} THEN s ELSE Occupy_for_task(s, o, t)

\* Standard_job::continue_tasks_waiting_for_order
Continue_tasks(s, j) ==
    FoldSet(LAMBDA t, r : IF r.task[t].state = "waiting_for_order" THEN Fetch(r, t, j) ELSE r,
            s, TasksOf[j])

\* Standard_job::try_start_tasks: a new task for each order there is one for.
Try_start_tasks(s, j) ==
    FoldSet(LAMBDA t, r : IF r.task[t].state = "none" THEN Fetch(r, t, j) ELSE r,
            s, TasksOf[j])

Process_orders(s, j) == Try_start_tasks(Continue_tasks(s, j), j)

\* mutant of Order_timed_call: called too early, it does not register again
Order_timed_call_once(j) ==
    LET s == [State EXCEPT !.timed[j] = Never]
    IN /\ timed[j] <= Past
       /\ Become(IF Next_order_time(s, j) > Past THEN s ELSE Process_orders(s, j))
       /\ UNCHANGED commands

Order_timed_call(j) ==
    LET s == [State EXCEPT !.timed[j] = Never]
        t == Next_order_time(s, j)
        s1 == Process_orders(s, j)
        next == Next_order_time(s1, j)
    IN /\ timed[j] <= Past
       /\ IF t > Past THEN Become([s EXCEPT !.timed[j] = t])
          ELSE Become([s1 EXCEPT !.timed[j] = IF next # t THEN next ELSE @])
       /\ UNCHANGED commands

Order_possibly_available_call(j) ==
    /\ available[j]
    /\ Become(Process_orders([State EXCEPT !.available[j] = FALSE], j))
    /\ UNCHANGED commands

Task_closed_call(j) ==
    /\ closed[j]
    /\ Become(Try_start_tasks([State EXCEPT !.closed[j] = FALSE], j))
    /\ UNCHANGED commands

Calculated_next_time_do_something_call(j) ==
    /\ Is_mature(calculated[j])
    /\ Become(Try_start_tasks([State EXCEPT !.calculated[j].pending = FALSE], j))
    /\ UNCHANGED commands

Job_of_task(t) == CHOOSE j \in Jobs : t \in TasksOf[j]

\* A step ends: Task::step__end, then Try_next_step_call is on its way.
Step_ends(t, success) ==
    /\ task[t].state = "running"
    /\ LET s == [State EXCEPT !.task[t].state = "next_step", !.task[t].order = None]
       IN Become(Postprocessing(s, task[t].order, success))
    /\ UNCHANGED commands

\* A step, or the task, fails: the order goes on to its error state, the task ends.
Step_throws(t) ==
    /\ task[t].state = "running"
    /\ LET s == [State EXCEPT !.task[t] = [No_task EXCEPT !.state = "ending"]]
       IN Become(Postprocessing(s, task[t].order, FALSE))
    /\ UNCHANGED commands

\* Without an order the task waits, until the next order of its job is due.
Fetch_or_wait(s, t) ==
    LET j == Job_of_task(t)
        s1 == Fetch(s, t, j)
    IN Become(IF s1.task[t].order # None THEN s1
              ELSE [s1 EXCEPT !.task[t].state = "waiting_for_order",
                              !.task[t].next_step = call_at(@, Next_order_time(s1, j))])

Try_next_step_call(t) ==
    /\ task[t].state = "next_step"
    /\ Fetch_or_wait(State, t)
    /\ UNCHANGED commands

\* While the task runs a step, the call finds nothing to do.
Next_order_step_call(t) ==
    LET s == [State EXCEPT !.task[t].next_step.pending = FALSE] IN
    /\ Is_mature(task[t].next_step)
    /\ IF task[t].state = "waiting_for_order" THEN Fetch_or_wait(s, t) ELSE Become(s)
    /\ UNCHANGED commands

Task_idle_timeout_call(t) ==
    /\ task[t].state = "waiting_for_order"
    /\ LET s == Fetch(State, t, Job_of_task(t))
       IN Become(IF s.task[t].order # None THEN s
                 ELSE [s EXCEPT !.task[t] = [No_task EXCEPT !.state = "ending"]])
    /\ UNCHANGED commands

\* Standard_job::request_order, of which the search sets the time of the order it finds.
Request_order(s, j) ==
    LET found == {First_immediately_processable(s, n) : n \in Nodes_of(j)} \ {None}
    IN IF found = {} THEN s ELSE [s EXCEPT !.order[CHOOSE o \in found : TRUE].setback = Zero]

\* Standard_job::calculate_next_time
Calculate_next_time(s, j) ==
    LET has_order == \E n \in Nodes_of(j) : First_immediately_processable(s, n) # None
        t == IF has_order THEN Zero ELSE Next_order_time(s, j)
    IN [Request_order(s, j) EXCEPT !.calculated[j] = call_at(@, t)]

\* After the last task of the job, remove_running_task calculates its next start.
Task_closes(t) ==
    LET j == Job_of_task(t)
        s == [State EXCEPT !.task[t] = No_task, !.closed[j] = TRUE]
    IN /\ task[t].state = "ending"
       /\ Become(IF \A u \in TasksOf[j] : s.task[u].state = "none"
                 THEN Calculate_next_time(s, j) ELSE s)
       /\ UNCHANGED commands

Time_passes ==
    LET Passed(t) == IF t = Future THEN Past ELSE t
        s == [State EXCEPT
                 !.order = [o \in Orders |-> [order[o] EXCEPT !.setback = Passed(@)]],
                 !.timed = [j \in Jobs |-> Passed(timed[j])],
                 !.calculated = [j \in Jobs |-> [calculated[j] EXCEPT !.at = Passed(@)]],
                 !.task  = [t \in Tasks |-> [task[t] EXCEPT !.next_step.at = Passed(@)]]]
    IN /\ s # State
       /\ Become(s)
       /\ UNCHANGED commands

-----------------------------------------------------------------------------
(* Commands, and calls of scripts to the orders they process *)

\* They come over a connection, which the main loop serves when the calls of a task
\* that has ended have been executed (Spooler::run).
Command(s) ==
    /\ commands < MaxCommands
    /\ \A j \in Jobs : ~closed[j] /\ ~Is_mature(calculated[j])
    /\ commands' = commands + 1
    /\ Become(s)

In_chain(o) == order[o].node # Out
Has_no_task(o) == order[o].task = None

\* Job_chain::add_order
Place(s, o, n, at) ==
    Add_to_queue([s EXCEPT !.order[o] = [New_order EXCEPT !.node = Referenced(s, n),
                                                          !.initial = n, !.setback = at]], o)

Add_order(o, n, at) ==
    /\ order[o] = New_order
    /\ Referenced(State, n) # End
    /\ Command(Place(State, o, n, at))

\* Order::place_or_replace_in_job_chain: new gets the id of old, which is removed
\* first, even if new cannot be placed then; new waits for the task that has old.
Replace_order(new, old) ==
    /\ In_chain(old) /\ new # old /\ order[new] = New_order
    /\ LET s1 == Remove_from_job_chain(State, old)
           s2 == Place(s1, new, 1, Zero)
       IN Command(IF Referenced(s1, 1) = End THEN s1
                  ELSE IF Has_no_task(old) THEN s2
                  ELSE [s2 EXCEPT !.order[new].replacement_for = old])

Remove_order(o) == In_chain(o) /\ Command(Remove_from_job_chain(State, o))

\* The end of Command_processor::execute_modify_order: a finished order goes.
Modify(s, o) ==
    LET x == s.order[o]
        finished == x.node = End /\ ~x.suspended /\ ~x.blacklisted /\ o \notin config.repeating
    IN In_chain(o) /\ Command(IF finished THEN Remove_from_job_chain(s, o) ELSE s)

Modify_state(o, n) == Has_no_task(o) /\ Modify(Set_state(State, o, n), o)

Modify_at(o, at) == Has_no_task(o) /\ Modify(Forget_setbacks(Set_setback(State, o, at), o), o)

Modify_setback(o) ==
    /\ Has_no_task(o)
    /\ Modify(IF order[o].setback_count > 0 THEN Set_setback(State, o, Zero) ELSE State, o)

Modify_suspended(o, b) == Modify(Set_suspended(State, o, b), o)

\* Orders that have lost their node while it was skipped are set to their initial states.
Reinsert_homeless(s, homeless) ==
    FoldSet(LAMBDA o, r : LET to == Referenced(r, s.order[o].initial)
                          IN IF to = End THEN r ELSE Set_state(r, o, to),
            s, homeless)

\* The orders of the node go on to the next one that is not skipped, except those a task has.
Skip_node(s, n) ==
    LET next == Referenced(s, n)
    IN FoldLeft(LAMBDA r, o : IF s.order[o].task = None THEN Set_state1(r, o, next) ELSE r,
                s, s.queue[n])

\* Order_queue_node::set_action, Job_node::set_action
Set_action(n, a) ==
    LET s == [State EXCEPT !.action[n] = a]
        homeless == {o \in config.repeating : In_chain(o) /\ ~order[o].touched /\ ~Is_queued(State, o)}
        s1 == IF action[n] = "next_state" THEN Reinsert_homeless(s, homeless) ELSE s
        s2 == Skip_node(s1, n)
        next == Referenced(s1, n)
    IN /\ action[n] # a
       /\ Command(CASE a = "process" -> Wake_node(s1, n)
                    [] a = "stop" -> s1
                    [] a = "next_state" -> IF next \in Nodes
                                           THEN [s2 EXCEPT !.available[JobOf[next]] = TRUE]
                                           ELSE s2)

\* Job_chain::set_stopped
Set_stopped(b) ==
    /\ stopped # b
    /\ Command(Wake_orders([State EXCEPT !.stopped = b]))

Processes_of_chain(t) == task[t].state = "running" /\ In_chain(task[t].order)

Script_sets_state(t, n) ==
    /\ Processes_of_chain(t)
    /\ OnError[n] # "setback"           \* see "Not modelled" in the README
    /\ Command(Set_state(State, task[t].order, n))

Script_sets_back(t) ==
    /\ Processes_of_chain(t)
    /\ ~order[task[t].order].moved
    /\ Command(Setback(State, task[t].order))

-----------------------------------------------------------------------------
Init ==
    /\ order = [o \in Orders |-> New_order]
    /\ queue = [n \in Nodes |-> <<>>]
    /\ action = [n \in Nodes |-> "process"]
    /\ stopped = FALSE
    /\ timed = [j \in Jobs |-> Never]
    /\ calculated = [j \in Jobs |-> No_call]
    /\ available = [j \in Jobs |-> FALSE]
    /\ closed = [j \in Jobs |-> FALSE]
    /\ task = [t \in Tasks |-> No_task]
    /\ config \in Configurations
    /\ commands = 0

Job_call(j) ==
    \/ Order_timed_call(j) \/ Order_possibly_available_call(j)
    \/ Task_closed_call(j) \/ Calculated_next_time_do_something_call(j)

Task_runs(t) ==
    \/ \E success \in BOOLEAN : Step_ends(t, success)
    \/ Step_throws(t)
    \/ Try_next_step_call(t)
    \/ Task_closes(t)

Commands ==
    \/ \E o \in Orders, at \in {Zero, Future} :
          \/ \E n \in InitialStates : Add_order(o, n, at)
          \/ Modify_at(o, at)
    \/ \E o \in Orders :
          \/ \E old \in Orders : Replace_order(o, old)
          \/ Remove_order(o)
          \/ \E n \in Nodes \cup {End} : Modify_state(o, n)
          \/ Modify_setback(o)
          \/ \E b \in BOOLEAN : Modify_suspended(o, b)
    \/ \E n \in Nodes, a \in {"process", "stop", "next_state"} : Set_action(n, a)
    \/ \E b \in BOOLEAN : Set_stopped(b)
    \/ \E t \in Tasks :
          \/ \E n \in Nodes : Script_sets_state(t, n)
          \/ Script_sets_back(t)

Next ==
    \/ \E j \in Jobs : Job_call(j)
    \/ \E t \in Tasks : Task_runs(t) \/ Next_order_step_call(t) \/ Task_idle_timeout_call(t)
    \/ Time_passes
    \/ Commands

Spec == Init /\ [][Next]_vars

-----------------------------------------------------------------------------
(* Properties *)

Register_entries == [at : Zero..Never, pending : BOOLEAN]

\* The variables have their types.
TypeOK ==
    /\ order \in [Orders -> [node : Nodes \cup {Out, End}, initial : Nodes, setback : Zero..Never,
                            setback_count : 0..(MaxSetbacks + MaxCommands + 1),
                            setback_called : BOOLEAN, suspended : BOOLEAN, blacklisted : BOOLEAN,
                            touched : BOOLEAN, moved : BOOLEAN, task : Tasks \cup {None},
                            replacement_for : Orders \cup {None}]]
    /\ DOMAIN queue = Nodes /\ \A n \in Nodes : Range(queue[n]) \subseteq Orders
    /\ action \in [Nodes -> {"process", "stop", "next_state"}] /\ stopped \in BOOLEAN
    /\ timed \in [Jobs -> Zero..Never] /\ calculated \in [Jobs -> Register_entries]
    /\ available \in [Jobs -> BOOLEAN] /\ closed \in [Jobs -> BOOLEAN]
    /\ task \in [Tasks -> [state : {"none", "running", "next_step", "waiting_for_order", "ending"},
                           order : Orders \cup {None}, next_step : Register_entries]]
    /\ config \in Configurations /\ commands \in 0..MaxCommands

\* However an order is moved, suspended, set back, replaced or removed, also while a
\* task has it: it stands once in the queue of its node, and in no other
\* (Order::move_to_node, Order_queue::remove_order throws SCHEDULER-156).
Orders_are_in_their_queues ==
    \A o \in Orders, n \in Nodes :
        Cardinality({i \in DOMAIN queue[n] : queue[n][i] = o}) = IF order[o].node = n THEN 1 ELSE 0

\* A task and its order know each other, until the task is through with the order,
\* even if that has been removed from the chain: no order is processed twice at a time,
\* and none is left behind with a task that has gone (Order::_task, Task::_order).
\* An order that a script has moved is not occupied (SCHEDULER-0, Order.cxx:346).
Orders_and_tasks_agree ==
    /\ \A o \in Orders, t \in Tasks : order[o].task = t <=> task[t].order = o
    /\ \A o \in Orders : order[o].moved => order[o].task # None

\* An order that waits to replace another one waits for one that has been removed and
\* that a task has (Order::set_replacement): otherwise nobody would release it.
Replacements_wait_for_tasks ==
    \A o \in Orders : LET old == order[o].replacement_for IN
        old # None => order[old].task # None /\ order[old].node = Out

\* More than max_orders orders have begun only after a command has brought
\* back one that had reached the end of the chain, where it was not counted
\* (Job_chain::is_max_orders_reached).
Max_orders_is_kept ==
    [][LET count == Number_of_touched_orders(State)
           next  == Number_of_touched_orders(State)'
       IN next > count /\ next > config.max_orders
          => \E o \in Orders : /\ order[o].touched /\ order[o].node = End
                              /\ order'[o].node \in Nodes]_vars

\* The order could be processed now.
Is_due(o) ==
    /\ order[o].node \in Nodes
    /\ Is_processable(State, o) /\ order[o].setback <= Past

May_begin(o) == order[o].touched \/ Untouched_is_allowed(State)

Job_is_told(j) ==
    \/ timed[j] <= Past \/ available[j] \/ closed[j] \/ Is_mature(calculated[j])
    \/ \E t \in TasksOf[j] : \/ task[t].state \in {"running", "next_step", "ending"}
                             \/ task[t].state = "waiting_for_order" /\ Is_mature(task[t].next_step)

\* max_orders may keep an order from beginning.
Is_limited == config.max_orders < Cardinality(Orders)

\* Places that max_orders limits become free without Job_chain::wake_orders when an
\* order goes to the blacklist or repeats: see the README.
Every_free_place_is_announced ==
    config.repeating = {} /\ \A b \in Orders : ~order[b].blacklisted

\* An order that is due and may begin is known to its job: a call is on its way to the
\* job or to one of its tasks, or a task is busy and looks for an order when it is done
\* (Order::handle_changed_processable_state). In a chain with max_orders this is so for
\* the orders that have not begun: for the others see set_back_order.cfg.
No_order_is_forgotten ==
    \A o \in Orders :
        Is_due(o) /\ May_begin(o)
        => \/ Job_is_told(JobOf[order[o].node])
           \/ Is_limited /\ (order[o].touched \/ ~Every_free_place_is_announced)

\* Somebody is called when the time of the order has come.
Time_is_known(o) ==
    order[o].node \in Nodes /\ Is_processable(State, o) /\ order[o].setback = Future
    => LET j == JobOf[order[o].node] IN
       \/ Job_is_told(j) \/ timed[j] = Future \/ calculated[j].at = Future
       \/ \E t \in TasksOf[j] : task[t].next_step.at = Future

\* The time of an order in the future is not forgotten either: not by an earlier call of
\* the job or of its task, nor by a move, a suspension or a new time of this or of the
\* orders before it. In a chain with max_orders it may be: see set_back_order.cfg.
No_time_is_forgotten ==
    ~Is_limited => \A o \in Orders : Time_is_known(o)

\* A comment at Order.cxx:283 and the message SCHEDULER-946, "setback(): order has been
\* set back $1 times, until $2": an order that has begun and is set back goes on then.
Set_back_orders_go_on ==
    \A o \in Orders : order[o].touched => Time_is_known(o)
=============================================================================

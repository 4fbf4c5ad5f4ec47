SPECIFICATION Spec
CONSTANTS
    o1 = o1
    o2 = o2
    j1 = j1
    j2 = j2
    t1 = t1
    t2 = t2
    None = None
    Orders = {o1, o2}
    Jobs = {j1, j2}
    Tasks = {t1, t2}
    N = 2
    JobOf <- MC_JobOf
    TasksOf <- MC_TasksOf
    OnError <- MC_OnError
    MaxSetbacks = 1
    Configurations <- MC_Configurations
    InitialStates = {1}
    MaxCommands = 2
INVARIANTS
    TypeOK
    Orders_are_in_their_queues
    Orders_and_tasks_agree
    Replacements_wait_for_tasks
    No_order_is_forgotten
    No_time_is_forgotten
PROPERTIES
    Max_orders_is_kept
SYMMETRY Symmetry
CHECK_DEADLOCK FALSE

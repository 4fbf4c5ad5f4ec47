SPECIFICATION Spec
CONSTANTS
    o1 = o1
    o2 = o2
    j1 = j1
    j2 = j2
    t1 = t1
    t2 = t2
    None = None
    Orders = {o1, o2}
    Jobs = {j1, j2}
    Tasks = {t1, t2}
    N = 2
    JobOf <- MC_JobOf
    TasksOf <- MC_TasksOf
    OnError <- MC_OnError
    MaxSetbacks = 1
    Configurations <- MC_Configurations
    InitialStates = {1}
    MaxCommands = 2
INVARIANT
    Set_back_orders_go_on
SYMMETRY Symmetry
CHECK_DEADLOCK FALSE

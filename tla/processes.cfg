CONSTANTS
  j1 = j1
  j2 = j2
  t1 = t1
  t2 = t2
  t3 = t3
  d = d
  e = e
  Classes = {d, e}
  Jobs = {j1, j2}
  Tasks = {t1, t2, t3}
  Job_of <- Job_of_three
  Job_class <- Default_class
  Task_class <- Default_or_chain
  Max_tasks <- Two_one
  Known_classes = {d}
  Limits <- Some_limits
  Max_orders = 1
  Commands <- Some_commands
  Nobody = Nobody
SPECIFICATION Spec
INVARIANTS
  TypeOK
  No_dangling_requestors
  Waiting_only_without_process
  Idle_tasks_make_room
CHECK_DEADLOCK FALSE
SYMMETRY Tasks_are_alike

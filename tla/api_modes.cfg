CONSTANTS
  j1 = j1
  j2 = j2
  t1 = t1
  t2 = t2
  t3 = t3
  t4 = t4
  l1 = l1
  l2 = l2
  NoHolder = NoHolder
  NoReplacement = NoReplacement
  Jobs = {j1}
  Tasks = {t1, t2, t4}
  Locks = {l1}
  Job_of <- One_three
  Max_tasks <- Tasks_one_three
  Job_lock_uses <- Reads_l1
  Process_jobs = {}
  Api_uses <- Both_modes
  Max_values = {1, 3}
  Results = {"true"}
  Commands = {"start_job"}
SPECIFICATION Spec
INVARIANTS
  Mode_agrees
  Enqueued_requestors_wait
PROPERTIES
  Implements_readers_writer_lock
CHECK_DEADLOCK FALSE
SYMMETRY Job_tasks_are_alike

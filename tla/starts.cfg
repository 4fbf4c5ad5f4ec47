CONSTANTS
  j1 = j1
  j2 = j2
  t1 = t1
  t2 = t2
  t3 = t3
  t4 = t4
  l1 = l1
  l2 = l2
  NoHolder = NoHolder
  NoReplacement = NoReplacement
  Jobs = {j1, j2}
  Tasks = {t1, t2, t3}
  Locks = {l1, l2}
  Job_of <- Two_one
  Max_tasks <- Tasks_one_one
  Job_lock_uses <- Opposite_orders
  Process_jobs = {j1, j2}
  Api_uses = {}
  Max_values = {1}
  Results = {"true"}
  Commands = {"start_job", "end_task"}
SPECIFICATION FairSpec
INVARIANTS
  Job_locks_are_held
  No_job_could_start_while_idle
  Job_hold_does_not_throw
PROPERTIES
  Queued_tasks_get_their_locks

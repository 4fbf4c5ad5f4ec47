CONSTANTS
  j1 = j1
  j2 = j2
  t1 = t1
  t2 = t2
  t3 = t3
  t4 = t4
  l1 = l1
  l2 = l2
  NoHolder = NoHolder
  NoReplacement = NoReplacement
  Jobs = {j1}
  Tasks = {t1}
  Locks = {l1}
  Job_of <- One
  Max_tasks <- Tasks_one
  Job_lock_uses <- Alone
  Process_jobs = {}
  Api_uses <- Both_modes
  Max_values = {0, 1}
  Results = {"true", "false"}
  Commands = {"start_job", "end_task", "remove_lock", "add_lock", "replace_lock", "limit_lock"}
SPECIFICATION FairSpec
INVARIANTS
  Lock_changes_wait_for_holders
  Holds_no_longer_than_allowed
PROPERTIES
  Tasks_end
  Woken_tasks_are_called
CHECK_DEADLOCK FALSE

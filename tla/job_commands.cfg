CONSTANTS
  j1 = j1
  j2 = j2
  t1 = t1
  t2 = t2
  t3 = t3
  t4 = t4
  l1 = l1
  l2 = l2
  NoHolder = NoHolder
  NoReplacement = NoReplacement
  Jobs = {j1, j2}
  Tasks = {t1, t2}
  Locks = {l1}
  Job_of <- One_one
  Max_tasks <- Tasks_one_one
  Job_lock_uses <- One_exclusive
  Process_jobs = {j1, j2}
  Api_uses = {}
  Max_values = {1}
  Results = {"true", "error"}
  Commands = {"start_job", "stop", "unstop"}
SPECIFICATION Spec
INVARIANTS
  TypeOK
  Queues_are_sound
  Job_state_agrees
PROPERTIES
  No_overtaking

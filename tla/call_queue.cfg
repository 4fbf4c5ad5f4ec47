CONSTANTS
  j1 = j1
  j2 = j2
  t1 = t1
  t2 = t2
  t3 = t3
  Jobs = {j1, j2}
  Tasks = {t1, t2, t3}
  Job_of <- Two_one
  Max_tasks <- One_and_two
  Start_ats <- Some_times
  Max_time = 2
SPECIFICATION FairSpec
INVARIANTS
  TypeOK
  Registers_agree_with_queue
  No_call_is_slept_through
PROPERTIES
  Queued_tasks_start

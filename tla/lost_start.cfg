CONSTANTS
  j1 = j1
  j2 = j2
  t1 = t1
  t2 = t2
  t3 = t3
  Jobs = {j1}
  Tasks = {t1, t2, t3}
  Job_of <- Three
  Max_tasks <- One_at_a_time
  Start_ats <- At_period
  Max_time = 1
SPECIFICATION Spec
INVARIANT Sleeps_without_startable_tasks

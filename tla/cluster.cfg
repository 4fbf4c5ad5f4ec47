CONSTANTS
  a = a
  b = b
  Members = {a, b}
  Backups = {b}
  Backup_precedence <- Default_precedence
  Heart_beat_period = 1
  Heart_beat_timeout = 2
  Heart_beat_own_timeout = 1
  Continuations = {"any", "non_backup"}
  Max_faults = 1
  Empty = Empty
  Nobody = Nobody
  No_row = No_row
  Unseen = Unseen
SPECIFICATION FairSpec
INVARIANTS
  Database_integrity
  Exclusive_members_have_the_row
PROPERTIES
  Backups_need_the_empty_row
  The_cluster_continues
CHECK_DEADLOCK FALSE

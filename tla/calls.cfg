CONSTANTS
  Nothing = Nothing
  Max_calls = 2
  Max_requests = 3
  Max_sends = 2
  Max_heartbeats <- One_none
SPECIFICATION Spec
INVARIANTS
  TypeOK
  Answers_belong_to_requests
  Heartbeat_ids_are_registered
  
PROPERTIES
  Implements_remote_call
CHECK_DEADLOCK FALSE

CONSTANTS
  Nothing = Nothing
  Max_calls = 2
  Max_requests = 4
  Max_sends = 2
  Max_heartbeats <- One_one
SPECIFICATION Timely_spec
PROPERTIES
  Calls_are_answered
CHECK_DEADLOCK FALSE

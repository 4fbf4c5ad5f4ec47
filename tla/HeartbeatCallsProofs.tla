-------------------------- MODULE HeartbeatCallsProofs --------------------------
(***************************************************************************)
(* Proofs about HeartbeatCalls for any number of calls, requests, sendings *)
(* and heartbeats: type correctness, that messages wait for the answer to  *)
(* their own request, that heartbeat ids are registered while they are     *)
(* needed, that results are not lost, and that the protocol implements     *)
(* RemoteCall.                                                             *)
(***************************************************************************)
EXTENDS HeartbeatCalls, TLAPS

-----------------------------------------------------------------------------
(* The invariant.                                                          *)

(* Accepted, its body not yet executed; and its handler not yet through.   *)
Is_eaten(m)   == Place(m) \in {"eaten", "registered"}
Is_handled(m) == Place(m) \in {"eaten", "registered", "started"}

(* Where the server has something to do with a message.                    *)
Busy == {"eaten", "registered", "started", "waiting"}

(* The client has sent what under some id.                                 *)
Is_requested(what) == \E id \in 1 .. requestId : request[id] = what

Previous(p) == <<p[1], p[2] - 1>>

(* The client makes one call after the other.  The last request belongs to *)
(* the pending call, and nothing is requested twice.                       *)
Requests_in_order ==
  /\ \A c, d \in Calls : outcome[c] # "none" /\ d < c => outcome[d] \notin {"none", "pending"}
  /\ \A id \in 1 .. requestId : request[id] \in Promises /\ outcome[request[id][1]] # "none"
  /\ \A i, j \in 1 .. requestId : request[i] = request[j] => i = j
  /\ \A c \in Calls : outcome[c] = "pending" =>
       /\ requestId > 0 /\ request[requestId][1] = c
       /\ \A id \in 1 .. requestId : request[id][1] = c => request[id][2] <= request[requestId][2]

(* One message of a request at most is accepted, and none after that.  Its *)
(* handler is the one that returns the future.                             *)
Messages_in_order ==
  /\ \A m \in Messages : message[m] # At("none") => m[1] <= requestId
  /\ \A m \in Messages : Is_handled(m) => m[1] < expectedId /\ future[m[1]] = Nothing
  /\ \A m, n \in Messages : Is_handled(m) /\ Is_handled(n) /\ m[1] = n[1] => m = n
  /\ \A id \in Ids : future[id] # Nothing => id < expectedId /\ id \in 1 .. requestId

(* The request q has used up its heartbeat id and has begun its period:    *)
(* that may have elapsed, but not a second one.                            *)
Has_begun(q) == q \notin pendingOperations /\ currentPromiseRef[q[1]] \in {q[2], q[2] + 1}

(* A message waits for the Operation of its request, and this gets the      *)
(* promise of the request, or the next one, which is the last.             *)
Answers_in_order ==
  /\ \A m \in Messages : Place(m) = "waiting" => message[m][2] = m[1]
  /\ \A m \in Messages : Place(m) = "started" => Has_begun(request[m[1]])
  /\ \A id \in Ids : future[id] # Nothing =>
       /\ request[id] \notin pendingOperations
       /\ future[id] = request[id] \/ Missed_its_heartbeat(id)

(* What has been executed is not accepted again; there is a result only    *)
(* after the execution.                                                    *)
Executed_once ==
  /\ \A c \in Calls : executions[c] \in {0, 1}
  /\ \A c \in Calls : executions[c] = 0 => operation[c] = "none" /\ completion[c][1] = "none"
                                           /\ currentPromiseRef[c] = 0
  /\ \A c \in Calls : executions[c] = 1 => outcome[c] # "none"
  /\ \A p \in Promises : promise[p] = "result" => executions[p[1]] = 1
  /\ \A id \in 1 .. requestId : request[id][2] = 0 /\ executions[request[id][1]] = 1 =>
       id < expectedId /\ \A m \in Messages : m[1] = id => ~Is_eaten(m)

(* The current promise of a call has either a timer or a registered id,    *)
(* never both; each promise before it has been requested.                  *)
Timers_in_order ==
  /\ \A p \in heartbeatTimers :
       p[2] = currentPromiseRef[p[1]] /\ p \notin pendingOperations /\ Is_requested(p)
       /\ executions[p[1]] = 1
  /\ \A p \in pendingOperations :
       /\ p[2] = currentPromiseRef[p[1]] /\ p[2] > 0
       /\ Previous(p) \in responding \/ promise[Previous(p)] = "heartbeat"
  /\ \A p \in Promises : p[2] < currentPromiseRef[p[1]] => Is_requested(p)

(* A heartbeat id is registered from before its heartbeat is answered until *)
(* the continue request that uses it has been executed.  The request before *)
(* that one has got the heartbeat: it has not missed it.                   *)
Heartbeats_in_order ==
  /\ \A p \in responding :
       p[2] < currentPromiseRef[p[1]] /\ promise[p] # "heartbeat" /\ Renewed(p) \in pendingOperations
  /\ \A p \in Promises : promise[p] = "heartbeat" =>
       /\ p[2] < currentPromiseRef[p[1]]
       /\ Renewed(p) \in pendingOperations \/ Is_requested(Renewed(p))
  /\ \A id \in 1 .. requestId : request[id][2] > 0 =>
       /\ promise[Previous(request[id])] = "heartbeat"
       /\ \E i \in 1 .. requestId :
            request[i] = Previous(request[id]) /\ future[i] = Previous(request[id])
       /\ id >= expectedId \/ (\E m \in Messages : m[1] = id /\ Is_eaten(m)) =>
            request[id] \in pendingOperations

(* An answered call has a request whose promise has the result.            *)
Answered_calls_have_a_result ==
  \A c \in Calls : outcome[c] = "answered" =>
    \E id \in 1 .. requestId :
      request[id][1] = c /\ future[id] # Nothing /\ promise[future[id]] = "result"

IInv == /\ TypeOK
        /\ Requests_in_order
        /\ Messages_in_order
        /\ Answers_in_order
        /\ Executed_once
        /\ Timers_in_order
        /\ Heartbeats_in_order
        /\ Answered_calls_have_a_result

-----------------------------------------------------------------------------
(* Types.                                                                  *)

(* A promise is named by its call and its number.                          *)
LEMMA Promise_type ==
  /\ \A p : p \in Promises <=> /\ p = <<p[1], p[2]>>
                               /\ p[1] \in Calls /\ p[2] \in 0 .. Max_heartbeats[p[1]]
  /\ \A c \in Calls, k \in Nat : <<c, k>> \in Promises <=> k <= Max_heartbeats[c]
  /\ \A c \in Calls : c \in Nat /\ Max_heartbeats[c] \in Nat
  /\ Nothing \notin Promises
<1>1. \A c \in Calls : c \in Nat /\ Max_heartbeats[c] \in Nat
  BY BoundAssumption DEF Calls
<1>2. \A p : p \in Promises <=> \E c \in Calls : p \in {c} \X (0 .. Max_heartbeats[c])
  BY DEF Promises
<1>3. \A p : p \in Promises <=> /\ p = <<p[1], p[2]>>
                                /\ p[1] \in Calls /\ p[2] \in 0 .. Max_heartbeats[p[1]]
  BY <1>2
<1>4. \A c \in Calls, k \in Nat : <<c, k>> \in Promises <=> k <= Max_heartbeats[c]
  BY <1>1, <1>3
<1>5. Nothing \notin Promises
  <2>1. Promises \subseteq Nat \X Nat
    BY <1>1, <1>3
  <2> QED
    BY <2>1, BoundAssumption
<1> QED
  BY <1>1, <1>3, <1>4, <1>5

(* A message is named by its request and the number of its sending.        *)
LEMMA Message_type ==
  /\ \A m \in Messages : m = <<m[1], m[2]>> /\ m[1] \in Ids /\ m[2] \in 1 .. Max_sends
  /\ Ids \subseteq Nat \ {0}
  /\ \A id \in Ids : <<id, 1>> \in Messages
BY BoundAssumption DEF Messages, Ids

(* The successor of a promise, and its predecessor.                        *)
LEMMA Renewed_type ==
  ASSUME NEW p \in Promises
  PROVE  /\ Renewed(p)[1] = p[1] /\ Renewed(p)[2] = p[2] + 1 /\ Previous(Renewed(p)) = p
         /\ p[2] < Max_heartbeats[p[1]] => Renewed(p) \in Promises
         /\ p[2] > 0 => Previous(p) \in Promises /\ Renewed(Previous(p)) = p
                        /\ Previous(p)[1] = p[1] /\ Previous(p)[2] = p[2] - 1
<1>1. p = <<p[1], p[2]>> /\ p[1] \in Calls /\ p[2] \in 0 .. Max_heartbeats[p[1]]
      /\ Max_heartbeats[p[1]] \in Nat
  BY Promise_type
<1> QED
  BY <1>1, Promise_type DEF Renewed, Previous

(* Dropping messages keeps the types; only answers that the client no      *)
(* longer awaits are dropped.                                              *)
LEMMA Dropped_type ==
  ASSUME TypeOK, NEW m \in Messages
  PROVE  /\ DOMAIN Dropped = Messages
         /\ Dropped[m] = message[m] \/ (Dropped[m] = At("over") /\ Place(m) \in {"waiting", "rejected"})
BY DEF Dropped

Message_states ==
  {"none", "requested", "eaten", "refused", "registered", "started", "waiting", "rejected", "over"}
    \X (0 .. Max_requests)

(* A place, and a place with an Operation, are message states.             *)
LEMMA Message_states_type ==
  /\ \A place \in {"none", "requested", "eaten", "refused", "registered", "started",
                   "rejected", "over"} :
       At(place) \in Message_states /\ At(place)[1] = place
  /\ \A id \in 0 .. Max_requests :
       Waits_for(id) \in Message_states /\ Waits_for(id)[1] = "waiting" /\ Waits_for(id)[2] = id
BY BoundAssumption DEF At, Waits_for, Message_states

LEMMA Dropped_message_type ==
  ASSUME TypeOK
  PROVE  Dropped \in [Messages -> Message_states]
BY Dropped_type, Message_states_type DEF Dropped, TypeOK, Message_states

(* A step of the client or of the network leaves the server alone: the     *)
(* types of the other variables are enough.                                *)
LEMMA Client_step_type ==
  ASSUME TypeOK, UNCHANGED server_vars,
         outcome' \in [Calls -> {"none", "pending", "answered", "rejected", "failed"}],
         requestId' \in 0 .. Max_requests, request' \in [Ids -> Promises \cup {Nothing}],
         sent' \in 0 .. Max_sends,
         message' \in [Messages -> Message_states]
  PROVE  TypeOK'
BY DEF TypeOK, server_vars, idempotence_vars, service_vars, Message_states

(* A message with an answer waits for its request, whose promise has it.   *)
LEMMA Answer_type ==
  ASSUME IInv, NEW m \in Messages, Answer(m) \in {"heartbeat", "result"}
  PROVE  /\ Place(m) = "waiting" /\ Awaited_promise(m) = future[m[1]]
         /\ future[m[1]] \in Promises /\ promise[future[m[1]]] = Answer(m)
<1> USE DEF IInv
<1>1. m[1] \in Ids
  BY Message_type
<1>2. Awaited_promise(m) # Nothing /\ Answer(m) = promise[Awaited_promise(m)]
  BY DEF Answer
<1>3. Place(m) = "waiting" /\ Awaited_promise(m) = future[m[1]]
  BY <1>2 DEF Awaited_promise, Answers_in_order
<1>4. future[m[1]] \in Promises
  BY <1>1, <1>2, <1>3 DEF TypeOK
<1> QED
  BY <1>2, <1>3, <1>4

-----------------------------------------------------------------------------
(* The client.                                                             *)

(* Losing, dropping and repeating messages: no message is accepted, none   *)
(* waits for another Operation.  The calls may end.                        *)
LEMMA Messages_dropped ==
  ASSUME IInv, UNCHANGED <<requestId, request, server_vars>>,
         \A m \in Messages : \/ message'[m] = message[m]
                             \/ m[1] <= requestId /\ message'[m][1] \notin Busy,
         \A c \in Calls : outcome[c] # "none" => outcome'[c] # "none"
  PROVE  Messages_in_order' /\ Answers_in_order' /\ Executed_once' /\ Timers_in_order'
         /\ Heartbeats_in_order'
<1> USE DEF IInv, server_vars, idempotence_vars, service_vars
<1>1. \A m \in Messages : Is_eaten(m)' => Is_eaten(m)
  BY DEF Is_eaten, Place, Busy
<1>2. \A m \in Messages : Is_handled(m)' => Is_handled(m)
  BY DEF Is_handled, Place, Busy
<1>3. Messages_in_order'
  BY <1>2 DEF Messages_in_order
<1>4. Answers_in_order'
  <2>1. \A m \in Messages : Place(m)' \in Busy => message'[m] = message[m] /\ Place(m)' = Place(m)
    BY DEF Place
  <2>2. \A id \in Ids : Missed_its_heartbeat(id)' <=> Missed_its_heartbeat(id)
    BY DEF Missed_its_heartbeat, Current_promise
  <2>3. \A q : Has_begun(q)' <=> Has_begun(q)
    BY DEF Has_begun
  <2> QED
    BY <2>1, <2>2, <2>3 DEF Answers_in_order, Busy
<1>5. Executed_once'
  BY <1>1 DEF Executed_once
<1>6. Timers_in_order'
  BY DEF Timers_in_order, Is_requested
<1>7. Heartbeats_in_order'
  BY <1>1 DEF Heartbeats_in_order, Is_requested
<1> QED
  BY <1>3, <1>4, <1>5, <1>6, <1>7

(* A new request is sent: nothing of it is known to the server.            *)
LEMMA Request_sent ==
  ASSUME IInv, NEW what \in Promises, sendAndRetry(what), UNCHANGED server_vars,
         ~Is_requested(what),
         what[2] = 0 => executions[what[1]] = 0,
         what[2] > 0 =>
           /\ promise[Previous(what)] = "heartbeat"
           /\ \E i \in 1 .. requestId : request[i] = Previous(what) /\ future[i] = Previous(what),
         \A c \in Calls : outcome[c] # "none" => outcome'[c] # "none"
  PROVE  /\ Messages_in_order' /\ Answers_in_order' /\ Executed_once' /\ Timers_in_order'
         /\ Heartbeats_in_order'
         /\ requestId' = requestId + 1 /\ request' = [request EXCEPT ![requestId'] = what]
         /\ \A id \in 1 .. requestId : id \in 1 .. requestId' /\ request'[id] = request[id]
         /\ \A id \in 1 .. requestId' : id = requestId' \/ id \in 1 .. requestId
         /\ request'[requestId'] = what
         /\ requestId \in Nat /\ requestId' \in Ids
<1> USE DEF IInv
<1>1. /\ requestId \in Nat /\ requestId + 1 \in Ids /\ requestId' = requestId + 1
      /\ request' = [request EXCEPT ![requestId + 1] = what]
      /\ message' = [Dropped EXCEPT ![<<requestId + 1, 1>>] = At("requested")]
  BY BoundAssumption DEF sendAndRetry, TypeOK, Ids
<1>2. /\ \A id \in 1 .. requestId : id \in Ids /\ id # requestId + 1 /\ id \in 1 .. requestId'
                                    /\ request'[id] = request[id]
      /\ \A id \in 1 .. requestId' : id = requestId' \/ id \in 1 .. requestId
      /\ request'[requestId'] = what
  <2>1. DOMAIN request = Ids
    BY DEF TypeOK
  <2>2. \A id \in 1 .. requestId : id \in Ids /\ id # requestId + 1
    BY <1>1, BoundAssumption DEF Ids
  <2>3. /\ \A id \in 1 .. requestId : request'[id] = request[id]
        /\ request'[requestId + 1] = what
    BY <1>1, <2>1, <2>2
  <2> QED
    BY <1>1, <2>2, <2>3
<1>3. \A m \in Messages :
        \/ message'[m] = message[m] /\ m[1] <= requestId'
        \/ m[1] <= requestId' /\ message'[m][1] \notin Busy
        \/ message'[m] = message[m] /\ message[m] = At("none")
  <2> SUFFICES ASSUME NEW m \in Messages
               PROVE  \/ message'[m] = message[m] /\ m[1] <= requestId'
                      \/ m[1] <= requestId' /\ message'[m][1] \notin Busy
                      \/ message'[m] = message[m] /\ message[m] = At("none")
    OBVIOUS
  <2>1. m[1] \in Nat /\ (message[m] # At("none") => m[1] <= requestId)
    BY Message_type DEF Messages_in_order
  <2>2. CASE m = <<requestId + 1, 1>>
    <3>1. message'[m] = At("requested")
      BY <1>1, <2>2, Dropped_type
    <3> QED
      BY <1>1, <2>2, <3>1, Message_states_type DEF Busy
  <2>3. CASE m # <<requestId + 1, 1>>
    <3>1. message'[m] = Dropped[m]
      BY <1>1, <2>3, Dropped_type
    <3>2. At("none")[1] = "none" /\ At("over")[1] = "over"
      BY Message_states_type
    <3> QED
      BY <1>1, <2>1, <3>1, <3>2, Dropped_type DEF Place, Busy
  <2> QED
    BY <2>2, <2>3
<1>4. \A m \in Messages : Place(m)' \in Busy =>
        message'[m] = message[m] /\ Place(m)' = Place(m) /\ m[1] \in 1 .. requestId
  <2>1. At("none")[1] \notin Busy
    BY Message_states_type DEF Busy
  <2> QED
    BY <1>1, <1>3, <2>1, Message_type DEF Place, Messages_in_order
<1>5. \A m \in Messages : (Is_eaten(m)' => Is_eaten(m)) /\ (Is_handled(m)' => Is_handled(m))
                          /\ (Is_handled(m)' => m[1] \in 1 .. requestId)
  BY <1>4 DEF Is_eaten, Is_handled, Busy
<1>6. \A m \in Messages : Is_eaten(m)' => m[1] \in 1 .. requestId
  BY <1>4 DEF Is_eaten, Busy
<1>7. \A q : Is_requested(q)' <=> Is_requested(q) \/ q = what
  BY <1>1, <1>2 DEF Is_requested
<1>8. Messages_in_order'
  <2>1. \A m \in Messages : message'[m] # At("none") => m[1] <= requestId'
    BY <1>1, <1>3, Message_type
  <2> QED
    BY <1>2, <1>5, <2>1 DEF Messages_in_order, server_vars, idempotence_vars
<1>9. Answers_in_order'
  <2>1. \A m \in Messages : Place(m)' = "waiting" => message'[m][2] = m[1]
    BY <1>4 DEF Answers_in_order, Busy
  <2>2. \A m \in Messages : Place(m)' = "started" => Has_begun(request[m[1]])'
    BY <1>2, <1>4 DEF Answers_in_order, Busy, Has_begun, server_vars, service_vars
  <2>3. ASSUME NEW id \in Ids, future[id] # Nothing
        PROVE  request'[id] = request[id] /\ (Missed_its_heartbeat(id)' <=> Missed_its_heartbeat(id))
    <3>1. request'[id] = request[id]
      BY <1>2, <2>3 DEF Messages_in_order
    <3> QED
      BY <3>1 DEF Missed_its_heartbeat, Current_promise, server_vars, idempotence_vars, service_vars
  <2> QED
    BY <2>1, <2>2, <2>3 DEF Answers_in_order, server_vars, idempotence_vars, service_vars
<1>10. Executed_once'
  BY <1>1, <1>2, <1>5, <1>6 DEF Executed_once, server_vars, idempotence_vars, service_vars
<1>11. Timers_in_order'
  BY <1>7 DEF Timers_in_order, server_vars, idempotence_vars, service_vars
<1>12. Heartbeats_in_order'
  <2>1. what[2] > 0 => what \in pendingOperations
    BY Renewed_type DEF Heartbeats_in_order
  <2>2. \A q \in Promises : (\E i \in 1 .. requestId : request[i] = q /\ future[i] = q)
          => (\E i \in 1 .. requestId' : request'[i] = q /\ future'[i] = q)
    BY <1>2 DEF server_vars, idempotence_vars
  <2>3. ASSUME NEW id \in 1 .. requestId', request'[id][2] > 0
        PROVE  /\ promise'[Previous(request'[id])] = "heartbeat"
               /\ \E i \in 1 .. requestId' :
                    request'[i] = Previous(request'[id]) /\ future'[i] = Previous(request'[id])
               /\ id >= expectedId' \/ (\E m \in Messages : m[1] = id /\ Is_eaten(m)') =>
                    request'[id] \in pendingOperations'
    <3>1. request'[id] \in Promises /\ Previous(request'[id]) \in Promises
      BY <1>2, <2>3, Renewed_type DEF Requests_in_order
    <3>2. CASE id = requestId'
      BY <1>2, <2>1, <2>2, <2>3, <3>1, <3>2 DEF server_vars, idempotence_vars, service_vars
    <3>3. CASE id \in 1 .. requestId
      <4>1. request'[id] = request[id]
        BY <1>2, <3>3
      <4> QED
        BY <1>5, <2>2, <2>3, <3>1, <3>3, <4>1
           DEF Heartbeats_in_order, server_vars, idempotence_vars, service_vars
    <3> QED
      BY <1>2, <3>2, <3>3
  <2> QED
    BY <1>7, <2>3 DEF Heartbeats_in_order, server_vars, idempotence_vars, service_vars
<1> QED
  BY <1>1, <1>2, <1>8, <1>9, <1>10, <1>11, <1>12

(* At most one call is pending.                                            *)
LEMMA One_call_is_pending ==
  ASSUME Requests_in_order, NEW c \in Calls, NEW d \in Calls,
         outcome[c] = "pending", outcome[d] = "pending"
  PROVE  c = d
BY Promise_type DEF Requests_in_order

(* The next call begins when those before it have ended.                   *)
LEMMA Call_keeps_IInv ==
  ASSUME IInv, NEW c \in Calls, Call(c)
  PROVE  IInv'
<1> USE DEF IInv
<1> DEFINE what == <<c, 0>>
<1>1. /\ outcome[c] = "none" /\ outcome' = [outcome EXCEPT ![c] = "pending"]
      /\ \A d \in Calls : d < c => outcome[d] \notin {"none", "pending"}
      /\ sendAndRetry(what) /\ UNCHANGED server_vars
  BY Promise_type DEF Call, Calls
<1>2. what \in Promises /\ what[1] = c /\ what[2] = 0
  BY Promise_type
<1>3. \A id \in 1 .. requestId : request[id][1] # c
  BY <1>1 DEF Requests_in_order
<1>4. ~Is_requested(what)
  BY <1>2, <1>3 DEF Is_requested
<1>5. executions[c] = 0
  BY <1>1 DEF Executed_once
<1>6. \A d \in Calls : outcome[d] # "none" => outcome'[d] # "none"
  BY <1>1 DEF TypeOK
<1> HIDE DEF what
<1>7. /\ Messages_in_order' /\ Answers_in_order' /\ Executed_once' /\ Timers_in_order'
      /\ Heartbeats_in_order'
      /\ requestId' = requestId + 1 /\ request' = [request EXCEPT ![requestId'] = what]
      /\ \A id \in 1 .. requestId : id \in 1 .. requestId' /\ request'[id] = request[id]
      /\ \A id \in 1 .. requestId' : id = requestId' \/ id \in 1 .. requestId
      /\ request'[requestId'] = what
      /\ requestId \in Nat /\ requestId' \in Ids
  BY <1>1, <1>2, <1>4, <1>5, <1>6, Request_sent
<1>8. TypeOK'
  <2>1. message' \in [Messages -> Message_states]
    BY <1>1, Dropped_message_type, Message_states_type DEF sendAndRetry
  <2> QED
    <3>1. /\ outcome' \in [Calls -> {"none", "pending", "answered", "rejected", "failed"}]
          /\ requestId' \in 0 .. Max_requests /\ request' \in [Ids -> Promises \cup {Nothing}]
      BY <1>1, <1>2, <1>7 DEF TypeOK, Ids
    <3>2. sent' \in 0 .. Max_sends
      BY <1>1, BoundAssumption DEF sendAndRetry
    <3> QED
      BY <1>1, <2>1, <3>1, <3>2, Client_step_type
<1>9. \A d \in Calls : outcome'[d] = IF d = c THEN "pending" ELSE outcome[d]
  BY <1>1 DEF TypeOK
<1>10. \A d \in Calls : c < d => outcome[d] = "none"
  BY <1>1 DEF Requests_in_order
<1>11. Requests_in_order'
  <2>1. \A d, e \in Calls : outcome'[d] # "none" /\ e < d => outcome'[e] \notin {"none", "pending"}
    BY <1>1, <1>9, <1>10, Promise_type DEF Requests_in_order
  <2>2. \A id \in 1 .. requestId' : request'[id] \in Promises /\ outcome'[request'[id][1]] # "none"
    BY <1>2, <1>7, <1>9, Promise_type DEF Requests_in_order
  <2>3. \A i, j \in 1 .. requestId' : request'[i] = request'[j] => i = j
    BY <1>4, <1>7 DEF Requests_in_order, Is_requested
  <2>4. \A d \in Calls : outcome'[d] = "pending" => d = c
    <3> SUFFICES ASSUME NEW d \in Calls, d # c, outcome[d] = "pending"
                 PROVE  FALSE
      BY <1>9
    <3>1. d < c \/ c < d
      BY Promise_type
    <3> QED
      BY <1>1, <1>10, <3>1
  <2>5. /\ requestId' > 0 /\ request'[requestId'][1] = c
        /\ \A id \in 1 .. requestId' : request'[id][1] = c => request'[id][2] <= request'[requestId'][2]
    BY <1>2, <1>3, <1>7
  <2> QED
    BY <2>1, <2>2, <2>3, <2>4, <2>5 DEF Requests_in_order
<1>12. Answered_calls_have_a_result'
  BY <1>1, <1>7, <1>9 DEF Answered_calls_have_a_result, server_vars, idempotence_vars, service_vars
<1> QED
  BY <1>7, <1>8, <1>11, <1>12

(* A heartbeat is continued with a request for its renewed promise, which  *)
(* nobody has requested before: the last request was for the old one.      *)
LEMMA Continue_keeps_IInv ==
  ASSUME IInv, NEW m \in Messages, Is_awaited(m), Answer(m) = "heartbeat",
         sendAndRetry(Renewed(Awaited_promise(m))), UNCHANGED outcome, UNCHANGED server_vars
  PROVE  IInv'
<1> USE DEF IInv
<1> DEFINE p == Awaited_promise(m)
           what == Renewed(p)
<1>1. p \in Promises /\ promise[p] = "heartbeat" /\ p = future[requestId]
  BY Answer_type DEF Is_awaited
<1>2. PICK c \in Calls : outcome[c] = "pending"
  BY DEF Is_awaited, Pending
<1>3. /\ p = request[requestId] /\ requestId \in 1 .. requestId /\ p[1] = c
      /\ \A id \in 1 .. requestId : request[id][1] = c => request[id][2] <= p[2]
  <2>1. /\ requestId > 0 /\ request[requestId][1] = c
        /\ \A id \in 1 .. requestId : request[id][1] = c => request[id][2] <= request[requestId][2]
    BY <1>2 DEF Requests_in_order
  <2>2. requestId \in Nat /\ requestId \in Ids
    BY <2>1, BoundAssumption DEF TypeOK, Ids
  <2>3. p[2] < currentPromiseRef[p[1]] /\ currentPromiseRef[p[1]] \in Nat /\ p[2] \in Nat
    BY <1>1, Promise_type DEF Heartbeats_in_order, TypeOK
  <2> HIDE DEF p
  <2>4. p # Nothing /\ (p = request[requestId] \/ Missed_its_heartbeat(requestId))
    BY <1>1, <2>2, Promise_type DEF Answers_in_order
  <2>5. ~Missed_its_heartbeat(requestId)
    <3> SUFFICES ASSUME Missed_its_heartbeat(requestId)
                 PROVE  FALSE
      OBVIOUS
    <3>1. p = <<request[requestId][1], currentPromiseRef[request[requestId][1]]>>
      BY <1>1 DEF Missed_its_heartbeat, Current_promise
    <3>2. p[1] = request[requestId][1] /\ p[2] = currentPromiseRef[p[1]]
      BY <3>1
    <3> QED
      BY <2>3, <3>2
  <2> QED BY <2>1, <2>2, <2>4, <2>5
<1>4. p[2] < Max_heartbeats[c]
  <2>1. p[2] < currentPromiseRef[c] /\ <<c, currentPromiseRef[c]>> \in Promises
        /\ currentPromiseRef[c] \in Nat
    BY <1>1, <1>3 DEF Heartbeats_in_order, TypeOK
  <2>2. currentPromiseRef[c] <= Max_heartbeats[c] /\ p[2] \in Nat /\ Max_heartbeats[c] \in Nat
    BY <1>1, <2>1, Promise_type
  <2> QED
    BY <2>1, <2>2
<1>5. /\ what \in Promises /\ what[1] = c /\ what[2] = p[2] + 1 /\ Previous(what) = p
      /\ p[2] \in Nat
  BY <1>1, <1>3, <1>4, Renewed_type, Promise_type
<1>6. ~Is_requested(what)
  <2> SUFFICES ASSUME NEW id \in 1 .. requestId, request[id] = what
               PROVE  FALSE
    BY DEF Is_requested
  <2>1. what[2] <= p[2]
    BY <1>3, <1>5
  <2> QED
    BY <1>5, <2>1
<1> HIDE DEF p, what
<1>7. /\ Messages_in_order' /\ Answers_in_order' /\ Executed_once' /\ Timers_in_order'
      /\ Heartbeats_in_order'
      /\ requestId' = requestId + 1 /\ request' = [request EXCEPT ![requestId'] = what]
      /\ \A id \in 1 .. requestId : id \in 1 .. requestId' /\ request'[id] = request[id]
      /\ \A id \in 1 .. requestId' : id = requestId' \/ id \in 1 .. requestId
      /\ request'[requestId'] = what
      /\ requestId \in Nat /\ requestId' \in Ids
  <2>1. sendAndRetry(what)
    BY DEF p, what
  <2>2. request[requestId] = Previous(what) /\ future[requestId] = Previous(what)
    BY <1>1, <1>3, <1>5
  <2> QED
    BY <1>1, <1>3, <1>5, <1>6, <2>1, <2>2, Request_sent
<1>8. TypeOK'
  <2>1. message' \in [Messages -> Message_states] /\ sent' = 1
    BY Dropped_message_type, Message_states_type DEF sendAndRetry
  <2>2. requestId' \in 0 .. Max_requests /\ 1 \in 0 .. Max_sends
    BY <1>7, BoundAssumption DEF Ids
  <2>3. request' \in [Ids -> Promises \cup {Nothing}]
    BY <1>5, <1>7 DEF TypeOK
  <2> QED
    BY <2>1, <2>2, <2>3, Client_step_type DEF TypeOK
<1>9. Requests_in_order'
  <2>1. \A d, e \in Calls : outcome'[d] # "none" /\ e < d => outcome'[e] \notin {"none", "pending"}
    BY DEF Requests_in_order
  <2>2. \A id \in 1 .. requestId' : request'[id] \in Promises /\ outcome'[request'[id][1]] # "none"
    BY <1>2, <1>5, <1>7 DEF Requests_in_order
  <2>3. \A i, j \in 1 .. requestId' : request'[i] = request'[j] => i = j
    BY <1>6, <1>7 DEF Requests_in_order, Is_requested
  <2>4. \A d \in Calls : outcome'[d] = "pending" => d = c
    BY <1>2, One_call_is_pending
  <2>5. /\ requestId' > 0 /\ request'[requestId'][1] = c
        /\ \A id \in 1 .. requestId' : request'[id][1] = c => request'[id][2] <= request'[requestId'][2]
    <3>1. \A id \in 1 .. requestId : request[id][2] \in Nat
      BY Promise_type DEF Requests_in_order
    <3> QED
      BY <1>3, <1>5, <1>7, <3>1
  <2> QED
    BY <2>1, <2>2, <2>3, <2>4, <2>5 DEF Requests_in_order
<1>10. Answered_calls_have_a_result'
  BY <1>7 DEF Answered_calls_have_a_result, server_vars, idempotence_vars, service_vars
<1> QED
  BY <1>7, <1>8, <1>9, <1>10

(* The pending call ends; if it is answered, its last request has the      *)
(* result.                                                                 *)
LEMMA End_call_keeps_IInv ==
  ASSUME IInv, NEW result \in {"answered", "rejected", "failed"}, End_call(result),
         UNCHANGED server_vars,
         result = "answered" => future[requestId] # Nothing /\ promise[future[requestId]] = "result"
  PROVE  IInv'
<1> USE DEF IInv
<1>1. /\ \A c \in Calls : outcome'[c] = IF outcome[c] = "pending" THEN result ELSE outcome[c]
      /\ message' = Dropped /\ UNCHANGED <<requestId, request, sent>>
  BY DEF End_call
<1>2. \A m \in Messages : \/ message'[m] = message[m]
                          \/ m[1] <= requestId /\ message'[m][1] \notin Busy
  <2> SUFFICES ASSUME NEW m \in Messages, message'[m] # message[m]
               PROVE  m[1] <= requestId /\ message'[m][1] \notin Busy
    OBVIOUS
  <2>1. message'[m] = At("over") /\ Place(m) \in {"waiting", "rejected"}
    BY <1>1, Dropped_type
  <2>2. message[m] # At("none") /\ At("over")[1] = "over"
    BY <2>1, Message_states_type DEF Place
  <2> QED
    BY <2>1, <2>2 DEF Messages_in_order, Busy
<1>3. \A c \in Calls : outcome[c] # "none" => outcome'[c] # "none"
  BY <1>1
<1>4. Messages_in_order' /\ Answers_in_order' /\ Executed_once' /\ Timers_in_order' /\ Heartbeats_in_order'
  BY <1>1, <1>2, <1>3, Messages_dropped
<1>5. TypeOK'
  <2>1. outcome' \in [Calls -> {"none", "pending", "answered", "rejected", "failed"}]
    BY DEF End_call, TypeOK
  <2>2. /\ requestId' \in 0 .. Max_requests /\ request' \in [Ids -> Promises \cup {Nothing}]
        /\ sent' \in 0 .. Max_sends
    BY <1>1 DEF TypeOK
  <2>3. message' \in [Messages -> Message_states]
    BY <1>1, Dropped_message_type
  <2> QED
    BY <2>1, <2>2, <2>3, Client_step_type
<1>6. Requests_in_order'
  <2>1. \A id \in 1 .. requestId : request[id] \in Promises /\ request[id][1] \in Calls
    BY Promise_type DEF Requests_in_order
  <2> QED
    BY <1>1, <2>1 DEF Requests_in_order
<1>7. Answered_calls_have_a_result'
  <2> SUFFICES ASSUME NEW c \in Calls, outcome'[c] = "answered", outcome[c] # "answered"
               PROVE  \E id \in 1 .. requestId :
                        request[id][1] = c /\ future[id] # Nothing /\ promise[future[id]] = "result"
    BY <1>1 DEF Answered_calls_have_a_result, server_vars, idempotence_vars, service_vars
  <2>1. outcome[c] = "pending" /\ result = "answered"
    BY <1>1
  <2>2. requestId \in 1 .. requestId /\ request[requestId][1] = c
    BY <2>1 DEF Requests_in_order, TypeOK
  <2> QED
    BY <2>1, <2>2
<1> QED
  BY <1>4, <1>5, <1>6, <1>7

(* handleResponse keeps the invariant, whatever the answer.                *)
LEMMA handleResponse_keeps_IInv ==
  ASSUME IInv, NEW m \in Messages, handleResponse(m)
  PROVE  IInv'
<1> USE DEF IInv
<1>1. Is_awaited(m) /\ UNCHANGED server_vars
  BY DEF handleResponse
<1>2. CASE Answer(m) = "heartbeat" /\ sendAndRetry(Renewed(Awaited_promise(m))) /\ UNCHANGED outcome
  BY <1>1, <1>2, Continue_keeps_IInv
<1>3. CASE Answer(m) = "result" /\ End_call("answered")
  <2>1. future[requestId] \in Promises /\ promise[future[requestId]] = "result"
    BY <1>1, <1>3, Answer_type DEF Is_awaited
  <2> QED
    BY <1>1, <1>3, <2>1, Promise_type, End_call_keeps_IInv
<1>4. CASE Answer(m) = "rejected" /\ End_call("rejected")
  BY <1>1, <1>4, End_call_keeps_IInv
<1> QED
  BY <1>2, <1>3, <1>4 DEF handleResponse

(* Repeating a request, giving up and the loss of messages keep the        *)
(* invariant.                                                              *)
LEMMA Client_waits_keeps_IInv ==
  ASSUME IInv, Repeat \/ Give_up \/ \E m \in Messages : Lose(m)
  PROVE  IInv'
<1> USE DEF IInv
<1>1. ASSUME UNCHANGED <<outcome, requestId, request, server_vars>>, TypeOK',
             \A m \in Messages : \/ message'[m] = message[m]
                                 \/ m[1] <= requestId /\ message'[m][1] \notin Busy
      PROVE  IInv'
  <2>1. Messages_in_order' /\ Answers_in_order' /\ Executed_once' /\ Timers_in_order' /\ Heartbeats_in_order'
    BY <1>1, Messages_dropped
  <2>2. Requests_in_order'
    BY <1>1 DEF Requests_in_order
  <2>3. Answered_calls_have_a_result'
    BY <1>1 DEF Answered_calls_have_a_result, server_vars, idempotence_vars, service_vars
  <2> QED
    BY <1>1, <2>1, <2>2, <2>3
<1>2. CASE Repeat
  <2> DEFINE n == <<requestId, sent + 1>>
  <2>1. /\ message' = [message EXCEPT ![n] = At("requested")]
        /\ sent' = sent + 1 /\ sent < Max_sends
        /\ UNCHANGED <<outcome, requestId, request, server_vars>>
    BY <1>2 DEF Repeat
  <2>2. sent' \in 0 .. Max_sends
    BY <2>1, BoundAssumption DEF TypeOK
  <2>3. TypeOK'
    BY <2>1, <2>2, Message_states_type
       DEF TypeOK, Message_states, server_vars, idempotence_vars, service_vars
  <2>4. \A m \in Messages : \/ message'[m] = message[m]
                            \/ m[1] <= requestId /\ message'[m][1] \notin Busy
    <3> SUFFICES ASSUME NEW m \in Messages, message'[m] # message[m]
                 PROVE  m[1] <= requestId /\ message'[m][1] \notin Busy
      OBVIOUS
    <3>1. m = n /\ message'[m] = At("requested")
      BY <2>1 DEF TypeOK
    <3>2. m[1] = requestId /\ requestId \in Nat
      BY <3>1 DEF TypeOK
    <3> QED
      BY <3>1, <3>2, Message_states_type DEF Busy
  <2> QED
    BY <1>1, <2>1, <2>3, <2>4
<1>3. CASE Give_up
  BY <1>3, End_call_keeps_IInv DEF Give_up
<1>4. ASSUME NEW m \in Messages, Lose(m)
      PROVE  IInv'
  <2>1. /\ message' = [message EXCEPT ![m] = At("over")]
        /\ Place(m) \in {"requested", "waiting", "rejected"}
        /\ UNCHANGED <<client_vars, server_vars>>
    BY <1>4 DEF Lose
  <2>2. TypeOK'
    BY <2>1, Message_states_type
       DEF TypeOK, Message_states, client_vars, server_vars, idempotence_vars, service_vars
  <2>3. m[1] <= requestId
    BY <2>1, Message_states_type DEF Place, Messages_in_order
  <2>4. \A n \in Messages : \/ message'[n] = message[n]
                            \/ n[1] <= requestId /\ message'[n][1] \notin Busy
    BY <2>1, <2>3, Message_states_type DEF TypeOK, Busy
  <2> QED
    BY <1>1, <2>1, <2>2, <2>4 DEF client_vars
<1> QED
  BY <1>2, <1>3, <1>4

-----------------------------------------------------------------------------
(* The server.                                                             *)

(* The steps of the server change nothing of the client.                   *)
LEMMA Client_is_unchanged ==
  ASSUME Requests_in_order, UNCHANGED client_vars
  PROVE  Requests_in_order' /\ \A q : Is_requested(q)' <=> Is_requested(q)
BY DEF Requests_in_order, client_vars, Is_requested

(* While promises and futures stay and no id is registered, messages and   *)
(* Operations keep waiting for what they wait for.                         *)
LEMMA Answers_stay_in_order ==
  ASSUME IInv, UNCHANGED <<client_vars, future, currentPromiseRef>>,
         pendingOperations' \subseteq pendingOperations,
         \A m \in Messages : Place(m)' = "waiting" => message'[m][2] = m[1],
         \A m \in Messages : Place(m)' = "started" => \/ Place(m) = "started"
                                                     \/ Has_begun(request[m[1]])'
  PROVE  Answers_in_order'
<1> USE DEF IInv
<1>1. \A q : Has_begun(q) => Has_begun(q)'
  BY DEF Has_begun
<1>2. \A id \in Ids : Missed_its_heartbeat(id)' <=> Missed_its_heartbeat(id)
  BY DEF Missed_its_heartbeat, Current_promise, client_vars
<1>3. UNCHANGED request
  BY DEF client_vars
<1>4. \A m \in Messages : Place(m)' = "started" => Has_begun(request[m[1]])'
  BY <1>1, <1>3 DEF Answers_in_order
<1> QED
  BY <1>2, <1>3, <1>4 DEF Answers_in_order

(* A handler moves its message to another place.                           *)
LEMMA Message_moved ==
  ASSUME IInv, NEW m \in Messages, Place(m) # "none", NEW state \in Message_states,
         message' = [message EXCEPT ![m] = state], UNCHANGED <<client_vars, expectedId, future>>,
         state[1] \in {"eaten", "registered", "started"} => Is_handled(m)
  PROVE  /\ message' \in [Messages -> Message_states]
         /\ message'[m] = state /\ Place(m)' = state[1]
         /\ \A n \in Messages \ {m} : message'[n] = message[n] /\ Place(n)' = Place(n)
         /\ Messages_in_order'
<1> USE DEF IInv
<1>1. message \in [Messages -> Message_states]
  BY DEF TypeOK, Message_states
<1>2. /\ message'[m] = state /\ Place(m)' = state[1]
      /\ \A n \in Messages \ {m} : message'[n] = message[n] /\ Place(n)' = Place(n)
  BY <1>1 DEF Place
<1>3. m[1] <= requestId
  BY Message_states_type DEF Messages_in_order, Place
<1>4. \A n \in Messages : Is_handled(n)' => Is_handled(n)
  BY <1>2 DEF Is_handled
<1> QED
  BY <1>1, <1>2, <1>3, <1>4 DEF Messages_in_order, client_vars

(* Idempotence.apply accepts a message whose id has not been accepted      *)
(* before.                                                                 *)
LEMMA Receive_keeps_IInv ==
  ASSUME IInv, NEW m \in Messages, Receive(m)
  PROVE  IInv'
<1> USE DEF IInv
<1>1. /\ Place(m) = "requested"
      /\ UNCHANGED <<client_vars, pendingOperation, future, service_vars>>
      /\ \A n \in Messages \ {m} : message'[n] = message[n]
      /\ message'[m] \in {At("eaten"), At("refused")}
      /\ message'[m] = At("eaten") => expectedId \in {0, m[1]} /\ expectedId' = m[1] + 1
      /\ message'[m] = At("refused") => UNCHANGED expectedId
      /\ expectedId' \in {expectedId, m[1] + 1}
  BY Message_states_type DEF Receive, eatRequestId, TypeOK
<1>2. m[1] \in Ids /\ m[1] \in 1 .. requestId /\ m[1] \in Nat
  BY <1>1, Message_type, Message_states_type DEF Messages_in_order, Place
<1>3. requestId \in Nat /\ expectedId \in Nat /\ expectedId' \in Nat
  BY <1>1, <1>2, BoundAssumption DEF TypeOK
<1>4. TypeOK'
  <2>1. message' \in [Messages -> Message_states]
    <3>1. message \in [Messages -> Message_states]
      BY DEF TypeOK, Message_states
    <3> QED
      BY <3>1, Message_states_type DEF Receive
  <2>2. expectedId' \in 0 .. Max_requests + 1
    BY <1>1, <1>2, BoundAssumption DEF TypeOK, Ids
  <2> QED
    BY <1>1, <2>1, <2>2 DEF TypeOK, client_vars, service_vars, Message_states
<1>5. Requests_in_order' /\ \A q : Is_requested(q)' <=> Is_requested(q)
  BY <1>1, Client_is_unchanged
<1>6. /\ \A n \in Messages : Is_eaten(n)' => Is_eaten(n) \/ (n = m /\ Is_handled(m)')
      /\ \A n \in Messages : Is_handled(n)' => Is_handled(n) \/ n = m
      /\ Is_handled(m)' => expectedId \in {0, m[1]} /\ expectedId' = m[1] + 1
      /\ expectedId <= expectedId'
  <2>1. At("refused")[1] = "refused"
    BY Message_states_type
  <2> QED
    BY <1>1, <1>2, <1>3, <2>1, Message_states_type DEF Is_eaten, Is_handled, Place
<1>7. Messages_in_order'
  <2>1. \A n \in Messages : message'[n] # At("none") => n[1] <= requestId'
    BY <1>1, <1>2 DEF Messages_in_order, client_vars
  <2>2. Is_handled(m)' => future[m[1]] = Nothing
    BY <1>2, <1>6 DEF Messages_in_order
  <2>3. \A n \in Messages : Is_handled(n)' => n[1] < expectedId' /\ future[n[1]] = Nothing
    BY <1>2, <1>3, <1>6, <2>2, Message_type DEF Messages_in_order
  <2>4. Is_handled(m)' => \A n \in Messages : Is_handled(n) => n[1] # m[1]
    BY <1>2, <1>3, <1>6, Message_type DEF Messages_in_order
  <2>5. \A n, k \in Messages : Is_handled(n)' /\ Is_handled(k)' /\ n[1] = k[1] => n = k
    BY <1>6, <2>4 DEF Messages_in_order
  <2>6. \A id \in Ids : future[id] # Nothing => id < expectedId' /\ id \in 1 .. requestId
    BY <1>3, <1>6, Message_type DEF Messages_in_order
  <2> QED
    BY <1>1, <2>1, <2>3, <2>5, <2>6 DEF Messages_in_order, client_vars
<1>8. Answers_in_order'
  <2>1. Place(m)' \notin {"waiting", "started"} /\ \A n \in Messages \ {m} : Place(n)' = Place(n)
    BY <1>1, Message_states_type DEF Place
  <2> QED
    BY <1>1, <2>1, Answers_stay_in_order DEF Answers_in_order, service_vars
<1>9. Executed_once'
  BY <1>1, <1>2, <1>3, <1>6 DEF Executed_once, client_vars, service_vars
<1>10. Timers_in_order'
  BY <1>1, <1>5 DEF Timers_in_order, service_vars
<1>11. Heartbeats_in_order'
  <2>1. ASSUME NEW id \in 1 .. requestId, request[id][2] > 0,
               id >= expectedId' \/ \E n \in Messages : n[1] = id /\ Is_eaten(n)'
        PROVE  request[id] \in pendingOperations
    BY <1>2, <1>3, <1>6, <2>1 DEF Heartbeats_in_order
  <2> QED
    BY <1>1, <1>5, <2>1 DEF Heartbeats_in_order, client_vars, service_vars
<1>12. Answered_calls_have_a_result'
  BY <1>1 DEF Answered_calls_have_a_result, client_vars, service_vars
<1> QED
  BY <1>4, <1>5, <1>7, <1>8, <1>9, <1>10, <1>11, <1>12

(* Its Operation becomes the pending one.                                  *)
LEMMA Set_pending_operation_keeps_IInv ==
  ASSUME IInv, NEW m \in Messages, Set_pending_operation(m)
  PROVE  IInv'
<1> USE DEF IInv
<1>1. /\ Place(m) = "eaten" /\ pendingOperation' = m[1]
      /\ message' = [message EXCEPT ![m] = At("registered")]
      /\ UNCHANGED <<client_vars, expectedId, future, service_vars>>
  BY DEF Set_pending_operation
<1>2. /\ message' \in [Messages -> Message_states] /\ Messages_in_order'
      /\ Place(m)' = "registered"
      /\ \A n \in Messages \ {m} : message'[n] = message[n] /\ Place(n)' = Place(n)
  BY <1>1, Message_moved, Message_states_type DEF Is_handled
<1>3. \A n \in Messages : Is_eaten(n)' <=> Is_eaten(n)
  BY <1>1, <1>2 DEF Is_eaten
<1>4. TypeOK'
  <2>1. m[1] \in 0 .. Max_requests
    BY Message_type DEF Ids
  <2> QED
    BY <1>1, <1>2, <2>1 DEF TypeOK, client_vars, service_vars, Message_states
<1>5. Requests_in_order' /\ \A q : Is_requested(q)' <=> Is_requested(q)
  BY <1>1, Client_is_unchanged
<1>6. Answers_in_order'
  BY <1>1, <1>2, Answers_stay_in_order DEF Answers_in_order, service_vars
<1>7. Executed_once'
  BY <1>1, <1>3 DEF Executed_once, client_vars, service_vars
<1>8. Timers_in_order'
  BY <1>1, <1>5 DEF Timers_in_order, service_vars
<1>9. Heartbeats_in_order'
  BY <1>1, <1>3, <1>5 DEF Heartbeats_in_order, client_vars, service_vars
<1>10. Answered_calls_have_a_result'
  BY <1>1 DEF Answered_calls_have_a_result, client_vars, service_vars
<1> QED
  BY <1>2, <1>4, <1>5, <1>6, <1>7, <1>8, <1>9, <1>10

(* The promise of a message that is about to be executed: the current one  *)
(* of its call is the one that it requests.                                *)
LEMMA Request_is_current ==
  ASSUME IInv, NEW m \in Messages, Is_eaten(m)
  PROVE  LET q == request[m[1]]
         IN  /\ m[1] \in 1 .. requestId /\ m[1] < expectedId
             /\ q \in Promises /\ q[1] \in Calls /\ q[2] \in Nat /\ q = <<q[1], q[2]>>
             /\ currentPromiseRef[q[1]] = q[2] /\ outcome[q[1]] # "none"
             /\ q[2] = 0 => executions[q[1]] = 0
             /\ q[2] > 0 => q \in pendingOperations /\ executions[q[1]] = 1
<1> USE DEF IInv
<1> DEFINE q == request[m[1]]
<1>1. m[1] \in 1 .. requestId /\ m[1] < expectedId
  BY Message_type, Message_states_type DEF Messages_in_order, Is_eaten, Is_handled, Place
<1>2. /\ q \in Promises /\ q[1] \in Calls /\ q[2] \in Nat /\ q = <<q[1], q[2]>>
      /\ outcome[q[1]] # "none"
  BY <1>1, Promise_type DEF Requests_in_order
<1>3. q[2] = 0 => executions[q[1]] = 0
  BY <1>1, <1>2 DEF Executed_once
<1>4. q[2] > 0 => q \in pendingOperations
  BY <1>1 DEF Heartbeats_in_order
<1>5. currentPromiseRef[q[1]] = q[2]
  BY <1>2, <1>3, <1>4 DEF Executed_once, Timers_in_order
<1>6. q[2] > 0 => executions[q[1]] = 1
  BY <1>2, <1>5 DEF Executed_once
<1> QED
  BY <1>1, <1>2, <1>3, <1>4, <1>5, <1>6

(* The body of a message has been executed as far as the timer: its period *)
(* has begun.                                                              *)
LEMMA Started_message ==
  ASSUME IInv, NEW m \in Messages, Place(m) = "registered",
         message' = [message EXCEPT ![m] = At("started")],
         UNCHANGED <<client_vars, expectedId, future, currentPromiseRef>>,
         pendingOperations' \subseteq pendingOperations, Has_begun(request[m[1]])'
  PROVE  /\ message' \in [Messages -> Message_states]
         /\ Messages_in_order' /\ Answers_in_order'
         /\ \A n \in Messages : Is_eaten(n)' => Is_eaten(n) /\ n # m
<1>1. /\ message' \in [Messages -> Message_states] /\ Messages_in_order'
      /\ Place(m)' = "started"
      /\ \A n \in Messages \ {m} : message'[n] = message[n] /\ Place(n)' = Place(n)
  BY Message_moved, Message_states_type DEF Is_handled
<1>2. Answers_in_order'
  BY <1>1, Answers_stay_in_order DEF IInv, Answers_in_order
<1> QED
  BY <1>1, <1>2 DEF Is_eaten

(* Executing a start request: it is the first request of its call, which   *)
(* has no promise but the first and no heartbeat id.                       *)
LEMMA Start_request_keeps_IInv ==
  ASSUME IInv, NEW m \in Messages, Execute(m), request[m[1]][2] = 0
  PROVE  IInv'
<1> USE DEF IInv
<1> DEFINE id == m[1]
           q  == request[id]
           c  == q[1]
<1>1. /\ Place(m) = "registered" /\ Is_eaten(m)
      /\ UNCHANGED <<client_vars, expectedId, pendingOperation, future, currentPromiseRef,
                     promise, responding, completion, cancellation>>
  BY DEF Execute, Is_eaten
<1>2. /\ id \in 1 .. requestId /\ id < expectedId
      /\ q \in Promises /\ c \in Calls /\ q = <<c, 0>> /\ q[2] = 0
      /\ currentPromiseRef[c] = 0 /\ executions[c] = 0 /\ outcome[c] # "none"
  BY <1>1, Request_is_current
<1>3. Current_promise(c) = q
  BY <1>2 DEF Current_promise
<1>4. /\ operation' = [operation EXCEPT ![c] = "running"]
      /\ executions' = [executions EXCEPT ![c] = @ + 1]
      /\ heartbeatTimers' = heartbeatTimers \cup {q} /\ currentHeartbeatTimer' = q
      /\ UNCHANGED pendingOperations
      /\ message' = [message EXCEPT ![m] = At("started")]
  BY <1>2, <1>3 DEF Execute, startHeartbeat, startHeartbeatPeriod
<1> HIDE DEF q, c, id
<1>5. q \notin pendingOperations
  BY <1>2 DEF Timers_in_order
<1>6. \A d \in Calls : executions'[d] = IF d = c THEN 1 ELSE executions[d]
  BY <1>2, <1>4 DEF TypeOK
<1>7. /\ Messages_in_order' /\ Answers_in_order'
      /\ \A n \in Messages : Is_eaten(n)' => Is_eaten(n) /\ n # m
      /\ message' \in [Messages -> Message_states]
  <2>1. Has_begun(request[m[1]])'
    BY <1>1, <1>2, <1>4, <1>5 DEF Has_begun, client_vars, q, c, id
  <2> QED
    BY <1>1, <1>4, <2>1, Started_message
<1>8. TypeOK'
  <2>1. executions' \in [Calls -> Nat] /\ operation' \in [Calls -> {"none", "running", "finished"}]
    BY <1>2, <1>4 DEF TypeOK
  <2> QED
    BY <1>1, <1>2, <1>4, <1>7, <2>1 DEF TypeOK, client_vars, Message_states
<1>9. Requests_in_order' /\ \A r : Is_requested(r)' <=> Is_requested(r)
  BY <1>1, Client_is_unchanged
<1>10. Executed_once'
  <2>1. \A d \in Calls : executions'[d] \in {0, 1}
    BY <1>6 DEF Executed_once
  <2>2. \A d \in Calls : executions'[d] = 0 => operation'[d] = "none" /\ completion'[d][1] = "none"
                                              /\ currentPromiseRef'[d] = 0
    BY <1>1, <1>4, <1>6 DEF Executed_once, TypeOK
  <2>3. \A d \in Calls : executions'[d] = 1 => outcome'[d] # "none"
    BY <1>1, <1>2, <1>6 DEF Executed_once, client_vars
  <2>4. \A p \in Promises : promise'[p] = "result" => executions'[p[1]] = 1
    BY <1>1, <1>6, Promise_type DEF Executed_once
  <2>5. ASSUME NEW i \in 1 .. requestId, request[i][2] = 0, executions'[request[i][1]] = 1
        PROVE  i < expectedId /\ \A n \in Messages : n[1] = i => ~Is_eaten(n)'
    <3>1. request[i] \in Promises /\ request[i][1] \in Calls /\ request[i] = <<request[i][1], request[i][2]>>
      BY Promise_type DEF Requests_in_order
    <3>2. CASE request[i][1] = c
      <4>1. i = id
        BY <1>2, <2>5, <3>1, <3>2 DEF Requests_in_order, q, id
      <4>2. \A n \in Messages : Is_eaten(n) /\ n # m => n[1] # m[1]
        BY <1>1 DEF Messages_in_order, Is_eaten, Is_handled
      <4> QED
        BY <1>2, <1>7, <4>1, <4>2 DEF id
    <3>3. CASE request[i][1] # c
      BY <1>6, <1>7, <2>5, <3>1, <3>3 DEF Executed_once
    <3> QED
      BY <3>2, <3>3
  <2> QED
    BY <1>1, <2>1, <2>2, <2>3, <2>4, <2>5 DEF Executed_once, client_vars
<1>11. Timers_in_order'
  <2>1. Is_requested(q)
    BY <1>2 DEF Is_requested, q
  <2>2. \A p \in Promises : executions[p[1]] = 1 => executions'[p[1]] = 1
    BY <1>6, Promise_type
  <2>3. heartbeatTimers \subseteq Promises
    BY DEF TypeOK
  <2> QED
    BY <1>1, <1>2, <1>4, <1>5, <1>6, <1>9, <2>1, <2>2, <2>3 DEF Timers_in_order
<1>12. Heartbeats_in_order'
  BY <1>1, <1>4, <1>7, <1>9 DEF Heartbeats_in_order, client_vars
<1>13. Answered_calls_have_a_result'
  BY <1>1, <1>4 DEF Answered_calls_have_a_result, client_vars
<1> QED
  BY <1>7, <1>8, <1>9, <1>10, <1>11, <1>12, <1>13

(* Executing a continue request: its heartbeat id is registered, and is    *)
(* used up.                                                                *)
LEMMA Continue_request_keeps_IInv ==
  ASSUME IInv, NEW m \in Messages, Execute(m), request[m[1]][2] # 0
  PROVE  IInv'
<1> USE DEF IInv
<1> DEFINE id == m[1]
           q  == request[id]
           c  == q[1]
<1>1. /\ Place(m) = "registered" /\ Is_eaten(m)
      /\ UNCHANGED <<client_vars, expectedId, pendingOperation, future, currentPromiseRef,
                     promise, responding, completion, cancellation>>
  BY DEF Execute, Is_eaten
<1>2. /\ id \in 1 .. requestId /\ id < expectedId
      /\ q \in Promises /\ c \in Calls /\ q = <<c, q[2]>> /\ q[2] \in Nat /\ q[2] > 0
      /\ currentPromiseRef[c] = q[2] /\ executions[c] = 1 /\ outcome[c] # "none"
      /\ q \in pendingOperations
  BY <1>1, Request_is_current
<1>3. Current_promise(c) = q
  BY <1>2 DEF Current_promise
<1>4. /\ heartbeatTimers' = heartbeatTimers \cup {q} /\ currentHeartbeatTimer' = q
      /\ pendingOperations' = pendingOperations \ {q}
      /\ UNCHANGED <<operation, executions>>
      /\ message' = [message EXCEPT ![m] = At("started")]
  BY <1>2, <1>3 DEF Execute, continueHeartbeat, startHeartbeatPeriod
<1> HIDE DEF q, c, id
<1>5. /\ Messages_in_order' /\ Answers_in_order'
      /\ \A n \in Messages : Is_eaten(n)' => Is_eaten(n) /\ n # m
      /\ message' \in [Messages -> Message_states]
  <2>1. Has_begun(request[m[1]])'
    BY <1>1, <1>2, <1>4 DEF Has_begun, client_vars, q, c, id
  <2> QED
    BY <1>1, <1>4, <2>1, Started_message
<1>6. TypeOK'
  BY <1>1, <1>2, <1>4, <1>5 DEF TypeOK, client_vars, Message_states
<1>7. Requests_in_order' /\ \A r : Is_requested(r)' <=> Is_requested(r)
  BY <1>1, Client_is_unchanged
<1>8. Is_requested(q)
  BY <1>2 DEF Is_requested, q
<1>9. Executed_once'
  BY <1>1, <1>4, <1>5 DEF Executed_once, client_vars
<1>10. Timers_in_order'
  BY <1>1, <1>2, <1>4, <1>7, <1>8 DEF Timers_in_order
<1>11. Heartbeats_in_order'
  <2>1. promise[Previous(q)] = "heartbeat"
    BY <1>2 DEF Heartbeats_in_order, q
  <2>2. \A p \in responding : Renewed(p) # q
    <3> SUFFICES ASSUME NEW p \in responding, Renewed(p) = q
                 PROVE  FALSE
      OBVIOUS
    <3>1. Previous(q) = p
      BY Renewed_type DEF TypeOK
    <3> QED
      BY <2>1, <3>1 DEF Heartbeats_in_order
  <2>3. \A p \in responding : Renewed(p) \in pendingOperations'
    BY <1>4, <2>2 DEF Heartbeats_in_order
  <2>4. ASSUME NEW i \in 1 .. requestId, request[i][2] > 0,
               i >= expectedId \/ \E n \in Messages : n[1] = i /\ Is_eaten(n)'
        PROVE  request[i] \in pendingOperations'
    <3>1. request[i] \in pendingOperations
      BY <1>5, <2>4 DEF Heartbeats_in_order
    <3>2. i # id
      <4>1. \A n \in Messages : Is_eaten(n) /\ n # m => n[1] # m[1]
        BY <1>1 DEF Messages_in_order, Is_eaten, Is_handled
      <4> QED
        BY <1>2, <1>5, <2>4, <4>1 DEF TypeOK, id
    <3>3. request[i] # q
      BY <1>2, <3>2 DEF Requests_in_order, q
    <3> QED
      BY <1>4, <3>1, <3>3
  <2>5. \A p \in Promises : promise[p] = "heartbeat" =>
          p[2] < currentPromiseRef[p[1]] /\ (Renewed(p) \in pendingOperations' \/ Is_requested(Renewed(p)))
    BY <1>4, <1>8 DEF Heartbeats_in_order
  <2> QED
    BY <1>1, <1>7, <2>3, <2>4, <2>5 DEF Heartbeats_in_order, client_vars
<1>12. Answered_calls_have_a_result'
  BY <1>1, <1>4 DEF Answered_calls_have_a_result, client_vars
<1> QED
  BY <1>5, <1>6, <1>7, <1>9, <1>10, <1>11, <1>12

(* The body returns the promise that is current by now: the one of its      *)
(* request, or, if the heartbeat was missed, the next one.                 *)
LEMMA Return_current_future_keeps_IInv ==
  ASSUME IInv, NEW m \in Messages, Return_current_future(m)
  PROVE  IInv'
<1> USE DEF IInv
<1> DEFINE id == m[1]
           q  == request[id]
           c  == q[1]
           p  == Current_promise(c)
<1>1. /\ Place(m) = "started" /\ Is_handled(m)
      /\ future' = [future EXCEPT ![id] = p] /\ Answered(m, Waits_for(id))
      /\ UNCHANGED <<client_vars, expectedId, pendingOperation, operation, executions,
                     currentPromiseRef, promise, pendingOperations, heartbeatTimers,
                     currentHeartbeatTimer, responding, completion>>
  BY DEF Return_current_future, Is_handled
<1>2. /\ id \in Ids /\ id \in 1 .. requestId /\ id < expectedId /\ future[id] = Nothing
      /\ Has_begun(q)
  BY <1>1, Message_type, Message_states_type
     DEF Messages_in_order, Answers_in_order, Is_handled, Place
<1>3. /\ q \in Promises /\ c \in Calls /\ q = <<c, q[2]>> /\ q[2] \in Nat
      /\ p \in Promises /\ p # Nothing /\ p = <<c, currentPromiseRef[c]>>
  BY <1>2, Promise_type DEF Requests_in_order, Current_promise, TypeOK
<1> DEFINE state == IF Is_awaited(m) THEN Waits_for(id) ELSE At("over")
<1>4. /\ message' = [message EXCEPT ![m] = state] /\ state \in Message_states
      /\ state[1] \in {"waiting", "over"} /\ (state[1] = "waiting" => state[2] = id)
  <2>1. id \in 0 .. Max_requests
    BY <1>2, BoundAssumption DEF Ids
  <2> QED
    BY <1>1, <2>1, Message_states_type DEF Answered
<1> HIDE DEF state, p, c, q, id
<1>5. /\ message' \in [Messages -> Message_states]
      /\ message'[m] = state /\ Place(m)' = state[1]
      /\ \A n \in Messages \ {m} : message'[n] = message[n] /\ Place(n)' = Place(n)
  <2>1. message \in [Messages -> Message_states]
    BY DEF TypeOK, Message_states
  <2> QED
    BY <1>4, <2>1 DEF Place
<1>6. /\ future' \in [Ids -> Promises \cup {Nothing}] /\ future'[id] = p
      /\ \A i \in Ids : i # id => future'[i] = future[i]
  BY <1>1, <1>2, <1>3 DEF TypeOK
<1>7. TypeOK'
  <2>1. cancellation' \in [Calls -> {"none", "registered", "submitted"}]
    <3>1. cancellation' = cancellation
          \/ \E v \in {"registered", "submitted"} : cancellation' = [cancellation EXCEPT ![c] = v]
      BY DEF Return_current_future, c, q, id
    <3> QED
      BY <3>1 DEF TypeOK
  <2> QED
    BY <1>1, <1>5, <1>6, <2>1 DEF TypeOK, client_vars, Message_states
<1>8. Requests_in_order' /\ \A r : Is_requested(r)' <=> Is_requested(r)
  BY <1>1, Client_is_unchanged
<1>9. /\ \A n \in Messages : Is_handled(n)' => Is_handled(n) /\ n # m
      /\ \A n \in Messages : Is_eaten(n)' => Is_eaten(n)
  BY <1>1, <1>4, <1>5 DEF Is_handled, Is_eaten
<1>10. Messages_in_order'
  <2>1. \A n \in Messages : message'[n] # At("none") => n[1] <= requestId
    BY <1>2, <1>5, Message_type DEF Messages_in_order, id, TypeOK
  <2>2. \A n \in Messages : Is_handled(n)' => n[1] < expectedId /\ future'[n[1]] = Nothing
    BY <1>1, <1>6, <1>9, Message_type DEF Messages_in_order, id
  <2>3. \A n, k \in Messages : Is_handled(n)' /\ Is_handled(k)' /\ n[1] = k[1] => n = k
    BY <1>9 DEF Messages_in_order
  <2>4. \A i \in Ids : future'[i] # Nothing => i < expectedId /\ i \in 1 .. requestId
    BY <1>2, <1>6 DEF Messages_in_order
  <2> QED
    BY <1>1, <2>1, <2>2, <2>3, <2>4 DEF Messages_in_order, client_vars
<1>11. Answers_in_order'
  <2>1. \A n \in Messages : Place(n)' = "waiting" => message'[n][2] = n[1]
    BY <1>4, <1>5 DEF Answers_in_order, id
  <2>2. \A n \in Messages : Place(n)' = "started" => Has_begun(request[n[1]])'
    BY <1>1, <1>4, <1>5 DEF Answers_in_order, Has_begun, client_vars
  <2>3. \A i \in Ids : i # id => (Missed_its_heartbeat(i)' <=> Missed_its_heartbeat(i))
    BY <1>1, <1>6 DEF Missed_its_heartbeat, Current_promise, client_vars
  <2>4. q \notin pendingOperations /\ (p = q \/ Missed_its_heartbeat(id)')
    <3>1. q \notin pendingOperations /\ currentPromiseRef[c] \in {q[2], q[2] + 1}
      BY <1>2 DEF Has_begun, c
    <3>2. CASE currentPromiseRef[c] = q[2]
      BY <1>3, <3>1, <3>2
    <3>3. CASE currentPromiseRef[c] = q[2] + 1
      <4>1. p = <<q[1], q[2] + 1>> /\ p = <<c, currentPromiseRef[c]>>
        BY <1>3, <3>3 DEF c
      <4>2. request'[id] = q /\ request'[id][1] = c /\ UNCHANGED currentPromiseRef
        BY <1>1 DEF client_vars, q, c
      <4>3. q # Nothing
        BY <1>3, Promise_type
      <4> QED
        BY <1>6, <3>1, <4>1, <4>2, <4>3 DEF Missed_its_heartbeat, Renewed, Current_promise
    <3> QED
      BY <3>1, <3>2, <3>3
  <2>5. ASSUME NEW i \in Ids, future'[i] # Nothing
        PROVE  /\ request'[i] \notin pendingOperations'
               /\ future'[i] = request'[i] \/ Missed_its_heartbeat(i)'
    <3>1. CASE i = id
      BY <1>1, <1>6, <2>4, <3>1 DEF client_vars, q
    <3>2. CASE i # id
      BY <1>1, <1>6, <2>3, <2>5, <3>2 DEF Answers_in_order, client_vars
    <3> QED
      BY <3>1, <3>2
  <2> QED
    BY <1>1, <2>1, <2>2, <2>5 DEF Answers_in_order, client_vars
<1>12. Executed_once'
  BY <1>1, <1>9 DEF Executed_once, client_vars
<1>13. Timers_in_order'
  BY <1>1, <1>8 DEF Timers_in_order
<1>14. Heartbeats_in_order'
  <2>1. ASSUME NEW j \in 1 .. requestId, request[j][2] > 0
        PROVE  \E i \in 1 .. requestId :
                 request[i] = Previous(request[j]) /\ future'[i] = Previous(request[j])
    <3>1. PICK i \in 1 .. requestId :
            request[i] = Previous(request[j]) /\ future[i] = Previous(request[j])
      BY <2>1 DEF Heartbeats_in_order
    <3>2. Previous(request[j]) # Nothing
      BY <2>1, Renewed_type, Promise_type DEF Requests_in_order
    <3>3. i # id /\ i \in Ids
      BY <1>2, <3>1, <3>2, BoundAssumption DEF TypeOK, Ids
    <3> QED
      BY <1>6, <3>1, <3>3
  <2> QED
    BY <1>1, <1>8, <1>9, <2>1 DEF Heartbeats_in_order, client_vars
<1>15. Answered_calls_have_a_result'
  <2>1. \A i \in 1 .. requestId : future[i] # Nothing => future'[i] = future[i]
    BY <1>2, <1>6, BoundAssumption DEF TypeOK, Ids
  <2> QED
    BY <1>1, <2>1 DEF Answered_calls_have_a_result, client_vars
<1> QED
  BY <1>7, <1>8, <1>10, <1>11, <1>12, <1>13, <1>14, <1>15

(* A refused message is answered like the pending operation, if this has    *)
(* its id, or is rejected.                                                 *)
LEMMA Look_up_keeps_IInv ==
  ASSUME IInv, NEW m \in Messages, Look_up(m)
  PROVE  IInv'
<1> USE DEF IInv
<1> DEFINE answer == IF m[1] = pendingOperation THEN Waits_for(pendingOperation) ELSE At("rejected")
           state  == IF Is_awaited(m) THEN answer ELSE At("over")
<1>1. Place(m) = "refused" /\ message' = [message EXCEPT ![m] = state]
      /\ UNCHANGED <<client_vars, server_vars>>
  BY DEF Look_up, Answered
<1>2. /\ state \in Message_states /\ state[1] \in {"waiting", "rejected", "over"}
      /\ state[1] = "waiting" => state[2] = m[1]
  <2>1. pendingOperation \in 0 .. Max_requests
    BY DEF TypeOK
  <2> QED
    BY <2>1, Message_states_type
<1> HIDE DEF state
<1>3. /\ message' \in [Messages -> Message_states] /\ Messages_in_order'
      /\ message'[m] = state /\ Place(m)' = state[1]
      /\ \A n \in Messages \ {m} : message'[n] = message[n] /\ Place(n)' = Place(n)
  BY <1>1, <1>2, Message_moved DEF server_vars, idempotence_vars
<1>4. \A n \in Messages : Is_eaten(n)' => Is_eaten(n)
  BY <1>2, <1>3 DEF Is_eaten
<1>5. TypeOK'
  BY <1>1, <1>3 DEF TypeOK, client_vars, server_vars, idempotence_vars, service_vars, Message_states
<1>6. Requests_in_order' /\ \A r : Is_requested(r)' <=> Is_requested(r)
  BY <1>1, Client_is_unchanged
<1>7. Answers_in_order'
  <2>1. \A n \in Messages : Place(n)' = "waiting" => message'[n][2] = n[1]
    BY <1>2, <1>3 DEF Answers_in_order
  <2>2. \A n \in Messages : Place(n)' = "started" => Place(n) = "started"
    BY <1>2, <1>3
  <2> QED
    BY <1>1, <2>1, <2>2, Answers_stay_in_order DEF server_vars, idempotence_vars, service_vars
<1>8. Executed_once'
  BY <1>1, <1>4 DEF Executed_once, client_vars, server_vars, idempotence_vars, service_vars
<1>9. Timers_in_order'
  BY <1>1, <1>6 DEF Timers_in_order, server_vars, service_vars
<1>10. Heartbeats_in_order'
  BY <1>1, <1>4, <1>6
     DEF Heartbeats_in_order, client_vars, server_vars, idempotence_vars, service_vars
<1>11. Answered_calls_have_a_result'
  BY <1>1 DEF Answered_calls_have_a_result, client_vars, server_vars, idempotence_vars, service_vars
<1> QED
  BY <1>3, <1>5, <1>6, <1>7, <1>8, <1>9, <1>10, <1>11

(* The end of an operation and its two callbacks.  A promise that is        *)
(* completed was open; no heartbeat becomes a result.                      *)
LEMMA Service_keeps_IInv ==
  ASSUME IInv, NEW c \in Calls, Service_step(c)
  PROVE  IInv'
<1> USE DEF IInv
<1>1. /\ UNCHANGED <<client_vars, message, expectedId, pendingOperation, future, executions,
                     currentPromiseRef, pendingOperations, currentHeartbeatTimer, responding>>
      /\ heartbeatTimers' \subseteq heartbeatTimers
  BY DEF Service_step, Finish, Read_promise, Complete_promise, Cancel_timer, idempotence_vars
<1>2. /\ \A m \in Messages : (Is_eaten(m)' <=> Is_eaten(m)) /\ (Is_handled(m)' <=> Is_handled(m))
      /\ \A m \in Messages : Place(m)' = Place(m)
  BY <1>1 DEF Is_eaten, Is_handled, Place
<1>3. Requests_in_order' /\ \A q : Is_requested(q)' <=> Is_requested(q)
  BY <1>1, Client_is_unchanged
<1>4. Messages_in_order' /\ Answers_in_order'
  <2>1. Answers_in_order'
    BY <1>1, <1>2, Answers_stay_in_order DEF Answers_in_order
  <2> QED
    BY <1>1, <1>2, <2>1 DEF Messages_in_order, client_vars
<1>5. \A p \in Promises : promise'[p] = promise[p] \/ (promise[p] = "open" /\ promise'[p] = "result"
                                                       /\ p[1] = c /\ completion[c][1] = "read")
  <2>1. CASE Complete_promise(c)
    <3> DEFINE p == <<c, completion[c][2]>>
               q == IF promise[p] = "open" THEN p ELSE <<c, currentPromiseRef[c]>>
    <3>1. /\ completion[c][1] = "read" /\ q[1] = c
          /\ promise' = [promise EXCEPT ![q] = IF @ = "open" THEN "result" ELSE @]
      BY <2>1 DEF Complete_promise
    <3> HIDE DEF q
    <3> QED
      BY <3>1 DEF TypeOK
  <2>2. CASE ~Complete_promise(c)
    BY <2>2 DEF Service_step, Finish, Read_promise, Cancel_timer
  <2> QED
    BY <2>1, <2>2
<1>6. TypeOK'
  <2>1. promise' \in [Promises -> {"open", "heartbeat", "result"}]
    <3>1. promise' = promise \/ \E q : promise' = [promise EXCEPT ![q] = IF @ = "open" THEN "result" ELSE @]
      BY DEF Service_step, Finish, Read_promise, Complete_promise, Cancel_timer
    <3> QED
      BY <3>1 DEF TypeOK
  <2>2. operation' \in [Calls -> {"none", "running", "finished"}]
    BY DEF Service_step, Finish, Read_promise, Complete_promise, Cancel_timer, TypeOK
  <2>3. completion' \in [Calls -> {"none", "submitted", "read", "done"} \X Nat]
    <3>1. currentPromiseRef[c] \in Nat
      BY DEF TypeOK
    <3>2. \/ completion' = completion
          \/ \E v \in {"submitted", "read", "done"} \X Nat : completion' = [completion EXCEPT ![c] = v]
      BY <3>1 DEF Service_step, Finish, Read_promise, Complete_promise, Cancel_timer
    <3> QED
      BY <3>2 DEF TypeOK
  <2>4. cancellation' \in [Calls -> {"none", "registered", "submitted"}]
    <3>1. CASE Finish(c)
      BY <3>1 DEF Finish, TypeOK
    <3>2. CASE Cancel_timer(c)
      BY <3>2 DEF Cancel_timer, TypeOK
    <3>3. CASE Read_promise(c) \/ Complete_promise(c)
      BY <3>3 DEF Read_promise, Complete_promise, TypeOK
    <3> QED
      BY <3>1, <3>2, <3>3 DEF Service_step
  <2> QED
    BY <1>1, <2>1, <2>2, <2>3, <2>4 DEF TypeOK, client_vars
<1>7. Executed_once'
  <2>1. \A d \in Calls : executions[d] = 0 => operation'[d] = "none" /\ completion'[d][1] = "none"
    <3>1. \A d \in Calls : executions[d] = 0 => operation[d] = "none" /\ completion[d][1] = "none"
      BY DEF Executed_once
    <3>2. \A d \in Calls \ {c} : operation'[d] = operation[d] /\ completion'[d] = completion[d]
      BY DEF Service_step, Finish, Read_promise, Complete_promise, Cancel_timer, TypeOK
    <3>3. executions[c] = 0 => UNCHANGED <<operation, completion>>
      BY <3>1 DEF Service_step, Finish, Read_promise, Complete_promise, Cancel_timer
    <3> QED
      BY <3>1, <3>2, <3>3
  <2>2. completion[c][1] = "read" => executions[c] = 1
    BY DEF Executed_once
  <2> QED
    BY <1>1, <1>2, <1>5, <2>1, <2>2 DEF Executed_once, client_vars
<1>8. Timers_in_order'
  <2>1. \A p \in pendingOperations : Previous(p) \in Promises
    BY Renewed_type DEF Timers_in_order, TypeOK
  <2> QED
    BY <1>1, <1>3, <1>5, <2>1 DEF Timers_in_order
<1>9. Heartbeats_in_order'
  <2>1. \A id \in 1 .. requestId : request[id][2] > 0 => Previous(request[id]) \in Promises
    BY Renewed_type DEF Requests_in_order
  <2>2. responding \subseteq Promises
    BY DEF TypeOK
  <2> QED
    BY <1>1, <1>2, <1>3, <1>5, <2>1, <2>2 DEF Heartbeats_in_order, client_vars
<1>10. Answered_calls_have_a_result'
  <2>1. \A id \in 1 .. requestId : future[id] # Nothing => future[id] \in Promises
    BY BoundAssumption DEF TypeOK, Ids
  <2> QED
    BY <1>1, <1>5, <2>1 DEF Answered_calls_have_a_result, client_vars
<1> QED
  BY <1>3, <1>4, <1>6, <1>7, <1>8, <1>9, <1>10

(* The end of a heartbeat period: the timer of the current promise gives   *)
(* way to a registered heartbeat id, the name of the next promise.         *)
LEMMA renewPromise_keeps_IInv ==
  ASSUME IInv, NEW p \in Promises, renewPromise(p)
  PROVE  IInv'
<1> USE DEF IInv
<1> DEFINE c == p[1]
           r == Renewed(p)
<1>1. /\ p \in heartbeatTimers /\ p[2] = currentPromiseRef[c] /\ p \notin pendingOperations
      /\ Is_requested(p) /\ executions[c] = 1
      /\ c \in Calls /\ p[2] \in Nat /\ p = <<c, p[2]>>
  BY Promise_type DEF renewPromise, Timers_in_order
<1>2. /\ p[2] < Max_heartbeats[c]
      /\ heartbeatTimers' = heartbeatTimers \ {p}
      /\ pendingOperations' = pendingOperations \cup {r}
      /\ currentPromiseRef' = [currentPromiseRef EXCEPT ![c] = p[2] + 1]
      /\ responding' = responding \cup {p}
      /\ UNCHANGED <<client_vars, message, expectedId, pendingOperation, future, operation,
                     executions, promise, currentHeartbeatTimer, completion, cancellation>>
  BY <1>1 DEF renewPromise, Renewed, idempotence_vars
<1>3. /\ r \in Promises /\ r[1] = c /\ r[2] = p[2] + 1 /\ r[2] > 0 /\ Previous(r) = p
      /\ r = <<c, p[2] + 1>>
  BY <1>1, <1>2, Renewed_type DEF Renewed
<1> HIDE DEF c, r
<1>4. \A d \in Calls : currentPromiseRef'[d] = IF d = c THEN p[2] + 1 ELSE currentPromiseRef[d]
  BY <1>2 DEF TypeOK
<1>5. TypeOK'
  <2>1. currentPromiseRef' \in [Calls -> Nat]
    BY <1>1, <1>2 DEF TypeOK
  <2>2. \A d \in Calls : <<d, currentPromiseRef'[d]>> \in Promises
    <3>1. \A d \in Calls : <<d, currentPromiseRef[d]>> \in Promises
      BY DEF TypeOK
    <3>2. <<c, p[2] + 1>> \in Promises
      BY <1>3
    <3> QED BY <1>4, <3>1, <3>2
  <2> QED
    BY <1>2, <1>3, <2>1, <2>2 DEF TypeOK, client_vars
<1>6. Requests_in_order' /\ \A q : Is_requested(q)' <=> Is_requested(q)
  BY <1>2, Client_is_unchanged
<1>7. \A q \in Promises : Is_requested(q) => q[1] \in Calls /\ q[2] <= currentPromiseRef[q[1]]
  <2> SUFFICES ASSUME NEW q \in Promises, Is_requested(q)
               PROVE  q[1] \in Calls /\ q[2] <= currentPromiseRef[q[1]]
    OBVIOUS
  <2>1. q[1] \in Calls /\ q[2] \in Nat /\ currentPromiseRef[q[1]] \in Nat
    BY Promise_type DEF TypeOK
  <2>2. q[2] > 0 => promise[Previous(q)] = "heartbeat"
    BY DEF Heartbeats_in_order, Is_requested
  <2>3. q[2] > 0 => q[2] - 1 < currentPromiseRef[q[1]]
    BY <2>2, Renewed_type DEF Heartbeats_in_order
  <2> QED
    BY <2>1, <2>3
<1>8. ~Is_requested(r)
  BY <1>1, <1>3, <1>7
<1>9. Messages_in_order'
  BY <1>2 DEF Messages_in_order, client_vars, Is_handled, Place
<1>10. Answers_in_order'
  \* p is requested: a request before it has got its own heartbeat
  <2>1. \A id \in 1 .. requestId : Renewed(request[id]) = p =>
          future[id] = request[id] /\ future[id] # p
    <3> SUFFICES ASSUME NEW id \in 1 .. requestId, Renewed(request[id]) = p
                 PROVE  future[id] = request[id] /\ future[id] # p
      OBVIOUS
    <3>1. /\ request[id] \in Promises /\ request[id] = <<request[id][1], request[id][2]>>
          /\ request[id][2] \in Nat /\ p[2] = request[id][2] + 1 /\ Previous(p) = request[id]
      BY Renewed_type, Promise_type DEF Requests_in_order
    <3>2. PICK j \in 1 .. requestId : request[j] = p
      BY <1>1 DEF Is_requested
    <3>3. PICK i \in 1 .. requestId : request[i] = Previous(p) /\ future[i] = Previous(p)
      BY <3>1, <3>2 DEF Heartbeats_in_order
    <3>4. i = id
      BY <3>1, <3>3 DEF Requests_in_order
    <3> QED
      BY <3>1, <3>3, <3>4
  <2>2. \A id \in 1 .. requestId : /\ request[id] \in Promises /\ request[id][1] \in Calls
                                   /\ request[id] = <<request[id][1], request[id][2]>>
                                   /\ request[id] # r
    BY <1>8, Promise_type DEF Requests_in_order, Is_requested
  <2>3. ASSUME NEW id \in 1 .. requestId, future[id] = Nothing, Has_begun(request[id])
        PROVE  Has_begun(request[id])'
    <3>1. request[id] \notin pendingOperations'
      BY <1>2, <2>2, <2>3 DEF Has_begun
    <3>2. CASE request[id][1] # c
      BY <1>2, <1>4, <2>2, <2>3, <3>1, <3>2 DEF Has_begun, client_vars
    <3>3. CASE request[id][1] = c
      <4>1. p[2] \in {request[id][2], request[id][2] + 1}
        BY <1>1, <2>3, <3>3 DEF Has_begun
      <4>2. p[2] # request[id][2] + 1
        <5> SUFFICES ASSUME p[2] = request[id][2] + 1
                     PROVE  FALSE
          OBVIOUS
        <5>1. Renewed(request[id]) = p
          BY <1>1, <3>3 DEF Renewed
        <5> QED
          BY <2>1, <2>2, <2>3, <5>1, Promise_type
      <4> QED
        BY <1>2, <1>4, <2>2, <3>1, <3>3, <4>1, <4>2 DEF Has_begun, client_vars
    <3> QED
      BY <3>2, <3>3
  <2>4. ASSUME NEW id \in 1 .. requestId, Missed_its_heartbeat(id)
        PROVE  Missed_its_heartbeat(id)'
    <3>1. request[id][1] # c
      <4> SUFFICES ASSUME request[id][1] = c
                   PROVE  FALSE
        OBVIOUS
      <4>1. future[id] = p /\ Renewed(request[id]) = p
        BY <1>1, <2>4 DEF Missed_its_heartbeat, Current_promise
      <4> QED
        BY <2>1, <4>1
    <3> QED
      BY <1>2, <1>4, <2>2, <2>4, <3>1 DEF Missed_its_heartbeat, Current_promise, client_vars
  <2>5. \A m \in Messages : Place(m)' = Place(m)
    BY <1>2 DEF Place
  <2>6. \A m \in Messages : Place(m) = "started" => Has_begun(request[m[1]])'
    <3> SUFFICES ASSUME NEW m \in Messages, Place(m) = "started"
                 PROVE  Has_begun(request[m[1]])'
      OBVIOUS
    <3>1. m[1] \in 1 .. requestId /\ future[m[1]] = Nothing
      BY Message_type, Message_states_type DEF Messages_in_order, Is_handled, Place
    <3> QED
      BY <2>3, <3>1 DEF Answers_in_order
  <2>7. \A id \in Ids : future[id] # Nothing =>
          /\ id \in 1 .. requestId /\ request[id] \notin pendingOperations'
          /\ future[id] = request[id] \/ Missed_its_heartbeat(id)'
    BY <1>2, <2>2, <2>4 DEF Answers_in_order, Messages_in_order
  <2> QED
    BY <1>2, <2>5, <2>6, <2>7 DEF Answers_in_order, client_vars
<1>11. Executed_once'
  BY <1>1, <1>2, <1>4 DEF Executed_once, client_vars, Is_eaten, Place
<1>12. \A q \in Promises : q[1] \in Calls /\ q = <<q[1], q[2]>> /\ q[2] \in Nat
  BY Promise_type
<1>13. \A q \in heartbeatTimers \cup pendingOperations : q[1] = c => q = p
  <2>1. \A q \in heartbeatTimers \cup pendingOperations : q \in Promises
    BY DEF TypeOK
  <2>2. \A q \in heartbeatTimers \cup pendingOperations : q[2] = currentPromiseRef[q[1]]
    BY DEF Timers_in_order
  <2> QED
    BY <1>1, <1>12, <2>1, <2>2
<1>14. Timers_in_order'
  <2>1. \A q \in heartbeatTimers' : q[1] # c /\ q \in Promises /\ q \in heartbeatTimers
    BY <1>2, <1>13 DEF TypeOK
  <2>2. \A q \in heartbeatTimers' :
          q[2] = currentPromiseRef'[q[1]] /\ q \notin pendingOperations' /\ Is_requested(q)
          /\ executions'[q[1]] = 1
    BY <1>2, <1>3, <1>4, <1>12, <2>1 DEF Timers_in_order
  <2>3. \A q \in pendingOperations : q[1] # c /\ q \in Promises
    BY <1>1, <1>13 DEF TypeOK
  <2>4. \A q \in pendingOperations' :
          /\ q[2] = currentPromiseRef'[q[1]] /\ q[2] > 0
          /\ Previous(q) \in responding' \/ promise[Previous(q)] = "heartbeat"
    BY <1>1, <1>2, <1>3, <1>4, <1>12, <2>3 DEF Timers_in_order
  <2>5. \A q \in Promises : q[2] < currentPromiseRef'[q[1]] => Is_requested(q)
    <3> SUFFICES ASSUME NEW q \in Promises, q[2] < currentPromiseRef'[q[1]]
                 PROVE  Is_requested(q)
      OBVIOUS
    <3>1. CASE q[1] = c /\ q[2] = p[2]
      BY <1>1, <1>12, <3>1
    <3>2. CASE ~(q[1] = c /\ q[2] = p[2])
      <4>1. q[2] < currentPromiseRef[q[1]]
        BY <1>1, <1>4, <1>12, <3>2
      <4> QED
        BY <4>1 DEF Timers_in_order
    <3> QED
      BY <3>1, <3>2
  <2> QED
    BY <1>2, <1>6, <2>2, <2>4, <2>5 DEF Timers_in_order
<1>15. Heartbeats_in_order'
  <2>1. \A q \in Promises : currentPromiseRef[q[1]] <= currentPromiseRef'[q[1]]
                            /\ currentPromiseRef[q[1]] \in Nat /\ currentPromiseRef'[q[1]] \in Nat
    BY <1>1, <1>4, <1>12 DEF TypeOK
  <2>2. promise[p] # "heartbeat"
    BY <1>1 DEF Heartbeats_in_order
  <2>3. \A q \in responding' :
          q[2] < currentPromiseRef'[q[1]] /\ promise[q] # "heartbeat" /\ Renewed(q) \in pendingOperations'
    <3>1. p[2] < currentPromiseRef'[p[1]]
      BY <1>1, <1>4 DEF c
    <3>2. \A q \in responding : q \in Promises
      BY DEF TypeOK
    <3> QED
      BY <1>2, <1>12, <2>1, <2>2, <3>1, <3>2 DEF Heartbeats_in_order, r
  <2>4. \A q \in Promises : promise[q] = "heartbeat" =>
          /\ q[2] < currentPromiseRef'[q[1]]
          /\ Renewed(q) \in pendingOperations' \/ Is_requested(Renewed(q))
    BY <1>2, <1>12, <2>1 DEF Heartbeats_in_order
  <2> QED
    BY <1>2, <1>6, <2>3, <2>4 DEF Heartbeats_in_order, client_vars, Is_eaten, Place
<1>16. Answered_calls_have_a_result'
  BY <1>2 DEF Answered_calls_have_a_result, client_vars
<1> QED
  BY <1>5, <1>6, <1>9, <1>10, <1>11, <1>14, <1>15, <1>16

(* The heartbeat is answered, or withdrawn when the result has been        *)
(* answered meanwhile: then nobody can have asked for its id.              *)
LEMMA respondWithHeartbeat_keeps_IInv ==
  ASSUME IInv, NEW p \in Promises, respondWithHeartbeat(p)
  PROVE  IInv'
<1> USE DEF IInv
<1> DEFINE r == Renewed(p)
<1>1. /\ p \in responding /\ p[2] < currentPromiseRef[p[1]]
      /\ promise[p] # "heartbeat" /\ r \in pendingOperations
  BY DEF respondWithHeartbeat, Heartbeats_in_order
<1>2. /\ responding' = responding \ {p}
      /\ \/ promise[p] = "open" /\ promise' = [promise EXCEPT ![p] = "heartbeat"] /\ UNCHANGED pendingOperations
         \/ promise[p] = "result" /\ pendingOperations' = pendingOperations \ {r} /\ UNCHANGED promise
      /\ UNCHANGED <<client_vars, message, expectedId, pendingOperation, future, operation, executions,
                     currentPromiseRef, heartbeatTimers, currentHeartbeatTimer, completion, cancellation>>
  BY <1>1 DEF respondWithHeartbeat, Renewed, TypeOK, idempotence_vars
<1>3. /\ r \in Promises /\ r[1] = p[1] /\ r[2] = p[2] + 1 /\ r[2] > 0 /\ Previous(r) = p
      /\ p = <<p[1], p[2]>> /\ p[1] \in Calls /\ p[2] \in Nat
  BY <1>1, Renewed_type, Promise_type DEF TypeOK
<1>4. \A q \in Promises : Renewed(q) = r => q = p
  BY Promise_type DEF Renewed
<1> HIDE DEF r
<1>5. Is_requested(r) => promise[p] = "heartbeat"
  BY <1>3 DEF Heartbeats_in_order, Is_requested
<1>6. TypeOK'
  BY <1>2 DEF TypeOK, client_vars
<1>7. Requests_in_order' /\ \A q : Is_requested(q)' <=> Is_requested(q)
  BY <1>2, Client_is_unchanged
<1>8. pendingOperations' \subseteq pendingOperations /\ \A q \in pendingOperations : q \in pendingOperations' \/ q = r
  BY <1>2
<1>9. \A q \in Promises : q # p => promise'[q] = promise[q]
  BY <1>2 DEF TypeOK
<1>10. promise'[p] \in {"heartbeat", "result"}
       /\ (promise'[p] = "heartbeat" => promise[p] = "open" /\ UNCHANGED pendingOperations)
       /\ (promise'[p] = "result" => promise[p] = "result")
  BY <1>2 DEF TypeOK
<1>11. Messages_in_order' /\ Answers_in_order'
  <2>1. \A m \in Messages : Place(m)' = Place(m)
    BY <1>2 DEF Place
  <2>2. Answers_in_order'
    BY <1>2, <1>8, <2>1, Answers_stay_in_order DEF Answers_in_order
  <2> QED
    BY <1>2, <2>1, <2>2 DEF Messages_in_order, client_vars, Is_handled
<1>12. Executed_once'
  BY <1>2, <1>9, <1>10 DEF Executed_once, client_vars, Is_eaten, Place
<1>13. Timers_in_order'
  <2>1. ASSUME NEW q \in pendingOperations'
        PROVE  /\ q[2] = currentPromiseRef[q[1]] /\ q[2] > 0
               /\ Previous(q) \in responding' \/ promise'[Previous(q)] = "heartbeat"
    <3>1. /\ q[2] = currentPromiseRef[q[1]] /\ q[2] > 0
          /\ Previous(q) \in responding \/ promise[Previous(q)] = "heartbeat"
      BY <1>8, <2>1 DEF Timers_in_order
    <3>2. q \in Promises /\ Previous(q) \in Promises /\ Renewed(Previous(q)) = q
      BY <1>8, <2>1, <3>1, Renewed_type DEF TypeOK
    <3>3. CASE Previous(q) # p
      BY <1>2, <1>9, <3>1, <3>2, <3>3
    <3>4. CASE Previous(q) = p
      <4>1. q = r
        BY <3>2, <3>4 DEF r
      <4>2. promise'[p] = "heartbeat"
        BY <1>2, <1>10, <2>1, <4>1 DEF TypeOK
      <4> QED
        BY <3>1, <3>4, <4>2
    <3> QED
      BY <3>3, <3>4
  <2> QED
    BY <1>2, <1>7, <1>8, <2>1 DEF Timers_in_order
<1>14. Heartbeats_in_order'
  <2>1. \A q \in responding' :
          q[2] < currentPromiseRef[q[1]] /\ promise'[q] # "heartbeat" /\ Renewed(q) \in pendingOperations'
    BY <1>2, <1>4, <1>8, <1>9 DEF Heartbeats_in_order, TypeOK
  <2>2. \A q \in Promises : promise'[q] = "heartbeat" =>
          /\ q[2] < currentPromiseRef[q[1]]
          /\ Renewed(q) \in pendingOperations' \/ Is_requested(Renewed(q))
    <3> SUFFICES ASSUME NEW q \in Promises, promise'[q] = "heartbeat"
                 PROVE  /\ q[2] < currentPromiseRef[q[1]]
                        /\ Renewed(q) \in pendingOperations' \/ Is_requested(Renewed(q))
      OBVIOUS
    <3>1. CASE q = p
      BY <1>1, <1>10, <3>1 DEF r
    <3>2. CASE q # p
      BY <1>4, <1>8, <1>9, <3>2 DEF Heartbeats_in_order
    <3> QED
      BY <3>1, <3>2
  <2>3. ASSUME NEW id \in 1 .. requestId, request[id][2] > 0
        PROVE  /\ promise'[Previous(request[id])] = "heartbeat"
               /\ \E i \in 1 .. requestId :
                    request[i] = Previous(request[id]) /\ future[i] = Previous(request[id])
               /\ id >= expectedId \/ (\E m \in Messages : m[1] = id /\ Is_eaten(m)) =>
                    request[id] \in pendingOperations'
    <3>1. /\ promise[Previous(request[id])] = "heartbeat"
          /\ \E i \in 1 .. requestId :
               request[i] = Previous(request[id]) /\ future[i] = Previous(request[id])
          /\ id >= expectedId \/ (\E m \in Messages : m[1] = id /\ Is_eaten(m)) =>
               request[id] \in pendingOperations
      BY <2>3 DEF Heartbeats_in_order
    <3>2. request[id] \in Promises /\ Previous(request[id]) \in Promises
      BY <2>3, Renewed_type DEF Requests_in_order
    <3>3. request[id] # r
      BY <1>1, <1>5 DEF Is_requested
    <3> QED
      BY <1>1, <1>8, <1>9, <3>1, <3>2, <3>3
  <2> QED
    BY <1>2, <1>7, <2>1, <2>2, <2>3 DEF Heartbeats_in_order, client_vars, Is_eaten, Place
<1>15. Answered_calls_have_a_result'
  <2>1. \A id \in 1 .. requestId : future[id] # Nothing => future[id] \in Promises
    BY BoundAssumption DEF TypeOK, Ids
  <2>2. \A q \in Promises : promise[q] = "result" => promise'[q] = "result"
    BY <1>2, <1>9 DEF TypeOK
  <2> QED
    BY <1>2, <2>1, <2>2 DEF Answered_calls_have_a_result, client_vars
<1> QED
  BY <1>6, <1>7, <1>11, <1>12, <1>13, <1>14, <1>15

(* The invariant holds initially, and every step keeps it.                 *)
LEMMA Next_keeps_IInv ==
  /\ Init => IInv
  /\ IInv /\ [Next]_vars => IInv'
<1>1. Init => IInv
  <2> SUFFICES ASSUME Init
               PROVE  IInv
    OBVIOUS
  <2>1. \A c \in Calls : <<c, 0>> \in Promises
    BY Promise_type
  <2>2. message \in [Messages -> Message_states] /\ \A m \in Messages : message[m] = At("none")
        /\ message[m][1] = "none"
    BY Message_states_type DEF Init
  <2>3. TypeOK
    BY <2>1, <2>2, BoundAssumption DEF Init, TypeOK, Message_states
  <2>4. (\A id \in Ids : future[id] = Nothing) /\ \A c \in Calls : completion[c][1] = "none"
    BY DEF Init
  <2> QED
    BY <2>2, <2>3, <2>4, Promise_type
       DEF Init, IInv, Requests_in_order, Messages_in_order, Answers_in_order,
       Executed_once, Timers_in_order, Heartbeats_in_order, Answered_calls_have_a_result,
       Is_eaten, Is_handled, Place
<1>2. IInv /\ [Next]_vars => IInv'
  <2> SUFFICES ASSUME IInv, [Next]_vars
               PROVE  IInv'
    OBVIOUS
  <2>1. CASE UNCHANGED vars
    <3> USE <2>1 DEF vars, client_vars, server_vars, idempotence_vars, service_vars, IInv
    <3>0. \A m \in Messages : Place(m)' = Place(m)
      BY DEF Place
    <3>1. TypeOK'
      BY DEF TypeOK
    <3>2. Requests_in_order' /\ Messages_in_order'
      BY <3>0 DEF Requests_in_order, Messages_in_order, Is_handled, Is_requested
    <3>3. Answers_in_order' /\ Executed_once'
      BY <3>0, Answers_stay_in_order DEF Answers_in_order, Executed_once, Is_eaten
    <3>4. Timers_in_order' /\ Heartbeats_in_order' /\ Answered_calls_have_a_result'
      BY <3>0 DEF Timers_in_order, Heartbeats_in_order, Answered_calls_have_a_result, Is_eaten,
                  Is_requested
    <3> QED BY <3>1, <3>2, <3>3, <3>4
  <2>2. CASE Client_step
    BY <2>2, Call_keeps_IInv, handleResponse_keeps_IInv, Client_waits_keeps_IInv DEF Client_step
  <2>3. ASSUME NEW m \in Messages, Lose(m) \/ Handler_step(m)
        PROVE  IInv'
    BY <2>3, Client_waits_keeps_IInv, Receive_keeps_IInv, Set_pending_operation_keeps_IInv,
       Start_request_keeps_IInv, Continue_request_keeps_IInv, Return_current_future_keeps_IInv,
       Look_up_keeps_IInv DEF Handler_step
  <2>4. ASSUME NEW p \in Promises, Timer_step(p)
        PROVE  IInv'
    BY <2>4, renewPromise_keeps_IInv, respondWithHeartbeat_keeps_IInv DEF Timer_step
  <2> QED
    BY <2>1, <2>2, <2>3, <2>4, Service_keeps_IInv DEF Next
<1> QED
  BY <1>1, <1>2

LEMMA Invariant == Spec => []IInv
BY Next_keeps_IInv, PTL DEF Spec

-----------------------------------------------------------------------------
(* Every variable has a value of its type in every state.                  *)
THEOREM Type_correct == Spec => []TypeOK
<1>1. IInv => TypeOK
  BY DEF IInv
<1> QED
  BY <1>1, Invariant, PTL

(* A message waits for the Operation of its own request, however often it  *)
(* is repeated and however slowly it is handled (Idempotence.scala:63).    *)
(* The Operation has the promise of its own heartbeat period, or, when the *)
(* period has elapsed before the promise was read, the next one, the last  *)
(* of its call and never answered with a heartbeat                         *)
(* (HeartbeatService.scala:66, 81, 98).                                    *)
THEOREM Messages_get_their_answers == Spec => []Answers_belong_to_requests
<1>1. IInv => Answers_belong_to_requests
  <2> SUFFICES ASSUME IInv
               PROVE  Answers_belong_to_requests
    OBVIOUS
  <2>1. ASSUME NEW id \in Ids, future[id] # Nothing, Missed_its_heartbeat(id)
        PROVE  promise[future[id]] # "heartbeat"
    <3>1. future[id] \in Promises /\ future[id] = Current_promise(request[id][1])
      BY <2>1 DEF IInv, TypeOK, Missed_its_heartbeat
    <3>2. future[id][2] = currentPromiseRef[future[id][1]] /\ future[id][2] \in Nat
      BY <3>1, Promise_type DEF Current_promise
    <3> QED
      BY <3>1, <3>2 DEF IInv, Heartbeats_in_order
  <2> QED
    BY <2>1 DEF IInv, Answers_in_order, Answers_belong_to_requests
<1> QED
  BY <1>1, Invariant, PTL

(* A continue request never meets an unknown heartbeat id.  When a call    *)
(* has been answered, one of its requests has got the result: a heartbeat  *)
(* id that is still registered belongs to a heartbeat that is being        *)
(* withdrawn, or to one that this request has missed                       *)
(* (HeartbeatService.scala:81, 89-98).                                     *)
THEOREM Heartbeat_ids_stay_registered == Spec => []Heartbeat_ids_are_registered
<1>1. IInv => Heartbeat_ids_are_registered
  <2> SUFFICES ASSUME IInv
               PROVE  Heartbeat_ids_are_registered
    OBVIOUS
  <2> USE DEF IInv
  <2>1. ASSUME NEW m \in Messages, Place(m) \in {"eaten", "registered"}, request[m[1]][2] > 0
        PROVE  request[m[1]] \in pendingOperations
    BY <2>1, Request_is_current DEF Is_eaten
  <2>2. ASSUME NEW p \in pendingOperations, outcome[p[1]] = "answered"
        PROVE  /\ Previous(p) \in Promises /\ p = Renewed(Previous(p))
               /\ \/ Previous(p) \in responding
                  \/ \E id \in Ids : request[id] = Previous(p) /\ Missed_its_heartbeat(id)
    <3>1. p \in Promises /\ p = <<p[1], p[2]>> /\ p[1] \in Calls
      BY <2>2, Promise_type DEF TypeOK
    <3>2. /\ p[2] \in Nat /\ p[2] = currentPromiseRef[p[1]] /\ p[2] > 0
          /\ Previous(p) \in responding \/ promise[Previous(p)] = "heartbeat"
      BY <2>2, <3>1, Promise_type DEF Timers_in_order
    <3>3. PICK id \in 1 .. requestId :
            request[id][1] = p[1] /\ future[id] # Nothing /\ promise[future[id]] = "result"
      BY <2>2, <3>1 DEF Answered_calls_have_a_result
    <3>4. Previous(p) \in Promises /\ p = Renewed(Previous(p)) /\ id \in Ids
      BY <3>1, <3>2, Renewed_type, BoundAssumption DEF TypeOK, Ids
    <3> DEFINE q == request[id]
    <3>5. /\ q \in Promises /\ q = <<q[1], q[2]>> /\ q[1] = p[1] /\ q[2] \in Nat /\ q # p
          /\ future[id] = q \/ Missed_its_heartbeat(id)
      BY <2>2, <3>3, <3>4, Promise_type DEF Requests_in_order, Answers_in_order
    <3>6. CASE Missed_its_heartbeat(id)
      <4>1. Renewed(q) = p
        BY <3>1, <3>2, <3>5, <3>6 DEF Missed_its_heartbeat, Current_promise
      <4>2. Previous(p) = q
        BY <3>5, <4>1, Renewed_type
      <4> QED
        BY <3>4, <3>6, <4>2
    <3>7. CASE future[id] = q
      <4> HIDE DEF q
      <4>0. promise[q] = "result"
        BY <3>3, <3>7
      <4>1. q[2] <= currentPromiseRef[p[1]]
        <5>1. CASE q[2] = 0
          BY <3>2, <5>1
        <5>2. CASE q[2] > 0
          <6>1. promise[Previous(q)] = "heartbeat"
            BY <5>2 DEF Heartbeats_in_order, q
          <6>2. Previous(q) \in Promises /\ Previous(q)[1] = p[1] /\ Previous(q)[2] = q[2] - 1
            BY <3>5, <5>2, Renewed_type
          <6> QED
            BY <3>2, <3>5, <6>1, <6>2 DEF Heartbeats_in_order
        <5> QED
          BY <3>5, <5>1, <5>2
      <4>2. q[2] < p[2]
        BY <3>1, <3>2, <3>5, <4>1
      <4>3. ~(q[2] + 1 < p[2])
        <5> SUFFICES ASSUME q[2] + 1 < p[2]
                     PROVE  FALSE
          OBVIOUS
        <5>1. Renewed(q) \in Promises /\ Renewed(q)[1] = p[1] /\ Renewed(q)[2] = q[2] + 1
              /\ Previous(Renewed(q)) = q
          BY <3>1, <3>2, <3>5, Renewed_type, Promise_type
        <5>2. Is_requested(Renewed(q))
          BY <3>2, <5>1 DEF Timers_in_order
        <5> QED
          BY <3>5, <4>0, <5>1, <5>2 DEF Heartbeats_in_order, Is_requested
      <4>4. Previous(p) = q
        BY <3>1, <3>2, <3>5, <4>2, <4>3 DEF Previous
      <4> QED
        BY <3>2, <3>4, <4>0, <4>4
    <3> QED
      BY <3>5, <3>6, <3>7
  <2> QED
    BY <2>1, <2>2 DEF Heartbeat_ids_are_registered
<1> QED
  BY <1>1, Invariant, PTL

-----------------------------------------------------------------------------
(* The end of the operation.                                               *)

(* A promise that has been replaced is completed or about to be.  The       *)
(* callback of the operation has read the current promise or, while the    *)
(* heartbeat is being answered, the one before.  It leaves the current one *)
(* open only when the one before it has got the result.                    *)
Results_in_order ==
  /\ \A p \in Promises : p[2] < currentPromiseRef[p[1]] => promise[p] # "open" \/ p \in responding
  /\ \A c \in Calls : completion[c][1] = "read" =>
       /\ completion[c][2] <= currentPromiseRef[c]
       /\ promise[<<c, completion[c][2]>>] = "open" =>
            completion[c][2] + 1 >= currentPromiseRef[c]
  /\ \A c \in Calls : completion[c][1] = "done" /\ promise[Current_promise(c)] = "open" =>
       currentPromiseRef[c] > 0 /\ promise[Previous(Current_promise(c))] = "result"

(* The current promise, and its predecessor.                               *)
LEMMA Current_promise_type ==
  ASSUME TypeOK, NEW c \in Calls
  PROVE  /\ Current_promise(c) \in Promises /\ currentPromiseRef[c] \in Nat
         /\ Current_promise(c)[1] = c /\ Current_promise(c)[2] = currentPromiseRef[c]
         /\ currentPromiseRef[c] > 0 =>
              /\ Previous(Current_promise(c)) = <<c, currentPromiseRef[c] - 1>>
              /\ <<c, currentPromiseRef[c] - 1>> \in Promises
<1>1. Current_promise(c) \in Promises /\ currentPromiseRef[c] \in Nat
      /\ Current_promise(c)[1] = c /\ Current_promise(c)[2] = currentPromiseRef[c]
  BY DEF TypeOK, Current_promise
<1>2. Previous(Current_promise(c)) = <<c, currentPromiseRef[c] - 1>>
  BY <1>1 DEF Previous
<1> QED
  BY <1>1, <1>2, Renewed_type

(* A period elapses: its promise was requested, so the promise before it   *)
(* has got a heartbeat and not the result.                                 *)
LEMMA renewPromise_keeps_results ==
  ASSUME IInv, Results_in_order, NEW p \in Promises, renewPromise(p)
  PROVE  Results_in_order'
<1> USE DEF IInv
<1> DEFINE c == p[1]
           k == currentPromiseRef[c]
<1>1. /\ c \in Calls /\ k \in Nat /\ p = <<c, k>> /\ p \in heartbeatTimers /\ Is_requested(p)
      /\ \A d \in Calls : currentPromiseRef[d] \in Nat
  <2>1. p \in heartbeatTimers
    BY DEF renewPromise
  <2>2. p = <<p[1], p[2]>> /\ p[1] \in Calls /\ \A d \in Calls : currentPromiseRef[d] \in Nat
    BY Promise_type DEF TypeOK
  <2> QED
    BY <2>1, <2>2 DEF Timers_in_order
<1>2. /\ \A d \in Calls : currentPromiseRef'[d] = IF d = c THEN k + 1 ELSE currentPromiseRef[d]
      /\ responding' = responding \cup {p} /\ UNCHANGED <<promise, completion>>
  BY <1>1 DEF renewPromise, TypeOK
<1>3. k > 0 => promise[<<c, k - 1>>] = "heartbeat"
  BY <1>1 DEF Is_requested, Heartbeats_in_order, Previous
<1>4. promise[p] # "heartbeat"
  BY <1>1 DEF Heartbeats_in_order
<1> HIDE DEF c, k
<1>5. ASSUME NEW q \in Promises, q[2] < currentPromiseRef'[q[1]]
      PROVE  promise[q] # "open" \/ q \in responding'
  <2>1. q = <<q[1], q[2]>> /\ q[1] \in Calls /\ q[2] \in Nat
    BY Promise_type
  <2>2. q[2] < currentPromiseRef[q[1]] \/ q = p
    BY <1>1, <1>2, <1>5, <2>1 DEF k
  <2> QED
    BY <1>2, <2>2 DEF Results_in_order
<1>6. ASSUME NEW d \in Calls, completion[d][1] = "read"
      PROVE  /\ completion[d][2] <= currentPromiseRef'[d]
             /\ promise[<<d, completion[d][2]>>] = "open" =>
                  completion[d][2] + 1 >= currentPromiseRef'[d]
  <2>1. completion[d][2] \in Nat
    BY DEF TypeOK
  <2>2. /\ completion[d][2] <= currentPromiseRef[d]
        /\ promise[<<d, completion[d][2]>>] = "open" =>
             completion[d][2] + 1 >= currentPromiseRef[d]
    BY <1>6 DEF Results_in_order
  <2>3. CASE d = c /\ completion[d][2] + 1 = k
    <3>1. k > 0 /\ completion[d][2] = k - 1
      BY <1>1, <2>1, <2>3
    <3> QED
      BY <1>1, <1>2, <1>3, <2>2, <2>3, <3>1
  <2>4. CASE d # c \/ completion[d][2] + 1 # k
    BY <1>1, <1>2, <2>1, <2>2, <2>4 DEF k
  <2> QED
    BY <2>3, <2>4
<1>7. ASSUME NEW d \in Calls, completion[d][1] = "done", promise[Current_promise(d)'] = "open"
      PROVE  currentPromiseRef'[d] > 0 /\ promise[Previous(Current_promise(d)')] = "result"
  <2>1. CASE d = c
    <3>1. promise[<<c, k>>] # "open"
      <4>1. SUFFICES ASSUME promise[Current_promise(c)] = "open"
                     PROVE  FALSE
        BY <1>1 DEF Current_promise, k
      <4>2. k > 0 /\ promise[<<c, k - 1>>] = "result"
        BY <1>1, <1>7, <2>1, <4>1, Current_promise_type DEF Results_in_order, k
      <4> QED
        BY <1>3, <4>2
    <3>2. promise[<<c, k>>] = "result"
      BY <1>1, <1>4, <3>1 DEF TypeOK
    <3>3. Current_promise(d)' = <<c, k + 1>>
      BY <1>2, <2>1 DEF Current_promise
    <3>4. Previous(<<c, k + 1>>) = <<c, k>>
      BY <1>1 DEF Previous
    <3> QED
      BY <1>1, <1>2, <2>1, <3>2, <3>3, <3>4
  <2>2. CASE d # c
    <3>1. Current_promise(d)' = Current_promise(d) /\ currentPromiseRef'[d] = currentPromiseRef[d]
      BY <1>2, <2>2 DEF Current_promise
    <3> QED
      BY <1>7, <3>1 DEF Results_in_order
  <2> QED
    BY <2>1, <2>2
<1> QED
  BY <1>2, <1>5, <1>6, <1>7 DEF Results_in_order

(* The replaced promise is answered.                                       *)
LEMMA respondWithHeartbeat_keeps_results ==
  ASSUME IInv, Results_in_order, NEW p \in Promises, respondWithHeartbeat(p)
  PROVE  Results_in_order'
<1> USE DEF IInv
<1>1. /\ p \in responding /\ responding' = responding \ {p}
      /\ UNCHANGED <<currentPromiseRef, completion>>
      /\ \A q \in Promises : promise'[q] = IF q = p /\ promise[p] = "open" THEN "heartbeat"
                                           ELSE promise[q]
  BY DEF respondWithHeartbeat, TypeOK
<1>2. /\ \A c \in Calls : Current_promise(c)' = Current_promise(c)
      /\ p[2] < currentPromiseRef[p[1]]
      /\ \A c \in Calls : currentPromiseRef[c] \in Nat /\ completion[c][2] \in Nat
  BY <1>1 DEF Current_promise, Heartbeats_in_order, TypeOK
<1>3. \A q \in Promises : q[2] < currentPromiseRef[q[1]] => promise'[q] # "open" \/ q \in responding'
  BY <1>1 DEF Results_in_order
<1>4. ASSUME NEW c \in Calls, completion[c][1] = "read"
      PROVE  /\ completion[c][2] <= currentPromiseRef[c]
             /\ promise'[<<c, completion[c][2]>>] = "open" =>
                  completion[c][2] + 1 >= currentPromiseRef[c]
  <2>1. completion[c][2] <= currentPromiseRef[c]
    BY <1>4 DEF Results_in_order
  <2>2. currentPromiseRef[c] <= Max_heartbeats[c]
    BY Current_promise_type, Promise_type
  <2>3. <<c, completion[c][2]>> \in Promises
    BY <1>2, <2>1, <2>2, Promise_type
  <2> QED
    BY <1>1, <1>4, <2>1, <2>3 DEF Results_in_order
<1>5. ASSUME NEW c \in Calls, completion[c][1] = "done", promise'[Current_promise(c)] = "open"
      PROVE  currentPromiseRef[c] > 0 /\ promise'[Previous(Current_promise(c))] = "result"
  <2>1. promise[Current_promise(c)] = "open"
    BY <1>1, <1>5, Current_promise_type
  <2>2. currentPromiseRef[c] > 0 /\ promise[Previous(Current_promise(c))] = "result"
    BY <1>5, <2>1 DEF Results_in_order
  <2> QED
    BY <1>1, <2>2, Current_promise_type
<1> QED
  BY <1>1, <1>2, <1>3, <1>4, <1>5 DEF Results_in_order

(* The callback completes the promise it has read or the current one.      *)
LEMMA Complete_promise_keeps_results ==
  ASSUME IInv, Results_in_order, NEW c \in Calls, Complete_promise(c)
  PROVE  Results_in_order'
<1> USE DEF IInv
<1> DEFINE k == completion[c][2]
           p == <<c, k>>
           q == IF promise[p] = "open" THEN p ELSE <<c, currentPromiseRef[c]>>
<1>1. /\ k \in Nat /\ currentPromiseRef[c] \in Nat /\ k <= currentPromiseRef[c]
      /\ p \in Promises /\ <<c, currentPromiseRef[c]>> = Current_promise(c)
      /\ promise[p] = "open" => k + 1 >= currentPromiseRef[c]
  <2>1. completion[c][1] = "read" /\ k \in Nat
    BY DEF Complete_promise, TypeOK
  <2>2. k <= currentPromiseRef[c] /\ (promise[p] = "open" => k + 1 >= currentPromiseRef[c])
    BY <2>1 DEF Results_in_order
  <2>3. currentPromiseRef[c] \in Nat /\ currentPromiseRef[c] <= Max_heartbeats[c]
        /\ <<c, currentPromiseRef[c]>> = Current_promise(c)
    BY Current_promise_type, Promise_type DEF Current_promise
  <2>4. p \in Promises
    BY <2>1, <2>2, <2>3, Promise_type
  <2> QED
    BY <2>1, <2>2, <2>3, <2>4
<1>2. q \in Promises
  BY <1>1, Current_promise_type
<1>3. /\ UNCHANGED <<currentPromiseRef, responding>>
      /\ promise' = [promise EXCEPT ![q] = IF promise[q] = "open" THEN "result" ELSE promise[q]]
      /\ completion' = [completion EXCEPT ![c] = <<"done", 0>>]
  BY DEF Complete_promise
<1> HIDE DEF q
<1>4. \A r \in Promises : promise'[r] = IF r = q /\ promise[q] = "open" THEN "result" ELSE promise[r]
  BY <1>2, <1>3 DEF TypeOK
<1>5. /\ \A d \in Calls \ {c} : completion'[d] = completion[d]
      /\ completion'[c] = <<"done", 0>>
      /\ \A d \in Calls : Current_promise(d)' = Current_promise(d)
  BY <1>3 DEF TypeOK, Current_promise
<1>6. \A r \in Promises : r[2] < currentPromiseRef[r[1]] => promise'[r] # "open" \/ r \in responding
  BY <1>4 DEF Results_in_order
<1>7. ASSUME NEW d \in Calls, completion'[d][1] = "read"
      PROVE  /\ completion'[d][2] <= currentPromiseRef[d]
             /\ promise'[<<d, completion'[d][2]>>] = "open" =>
                  completion'[d][2] + 1 >= currentPromiseRef[d]
  <2>1. d # c /\ completion'[d] = completion[d] /\ completion[d][2] \in Nat
    BY <1>5, <1>7 DEF TypeOK
  <2>2. completion[d][2] <= currentPromiseRef[d]
    BY <1>7, <2>1 DEF Results_in_order
  <2>3. currentPromiseRef[d] \in Nat /\ currentPromiseRef[d] <= Max_heartbeats[d]
    BY Current_promise_type, Promise_type
  <2>4. <<d, completion[d][2]>> \in Promises
    BY <2>1, <2>2, <2>3, Promise_type
  <2> QED
    BY <1>4, <1>7, <2>1, <2>2, <2>4 DEF Results_in_order
<1>8. ASSUME NEW d \in Calls, completion'[d][1] = "done", promise'[Current_promise(d)] = "open"
      PROVE  currentPromiseRef[d] > 0 /\ promise'[Previous(Current_promise(d))] = "result"
  <2>1. Current_promise(d) # q /\ promise[Current_promise(d)] = "open"
    BY <1>4, <1>8, Current_promise_type
  <2>2. CASE d = c
    <3>1. promise[p] = "open" /\ q = p /\ k # currentPromiseRef[c]
      BY <1>1, <2>1, <2>2 DEF q
    <3>2. currentPromiseRef[c] > 0 /\ k = currentPromiseRef[c] - 1
      BY <1>1, <3>1
    <3>3. Previous(Current_promise(d)) = p
      BY <2>2, <3>2, Current_promise_type
    <3> QED
      BY <1>2, <1>4, <2>2, <3>1, <3>2, <3>3
  <2>3. CASE d # c
    <3>1. currentPromiseRef[d] > 0 /\ promise[Previous(Current_promise(d))] = "result"
      BY <1>5, <1>8, <2>1, <2>3 DEF Results_in_order
    <3> QED
      BY <1>4, <3>1, Current_promise_type
  <2> QED
    BY <2>2, <2>3
<1> QED
  BY <1>3, <1>5, <1>6, <1>7, <1>8 DEF Results_in_order

(* The operation ends, and the callback reads the current promise.         *)
LEMMA Result_begins_keeps_results ==
  ASSUME IInv, Results_in_order, NEW c \in Calls, Finish(c) \/ Read_promise(c)
  PROVE  Results_in_order'
<1> USE DEF IInv
<1>1. /\ UNCHANGED <<currentPromiseRef, promise, responding>>
      /\ \A d \in Calls \ {c} : completion'[d] = completion[d]
      /\ completion'[c] \in {<<"submitted", 0>>, <<"read", currentPromiseRef[c]>>}
      /\ currentPromiseRef[c] \in Nat
  BY DEF Finish, Read_promise, TypeOK
<1>2. \A d \in Calls : Current_promise(d)' = Current_promise(d)
  BY <1>1 DEF Current_promise
<1> QED
  BY <1>1, <1>2 DEF Results_in_order

(* Every other step leaves promises and their completion alone.            *)
LEMMA Next_keeps_results ==
  ASSUME IInv, Results_in_order, [Next]_vars
  PROVE  Results_in_order'
<1>1. ASSUME UNCHANGED <<currentPromiseRef, promise, responding, completion>>
      PROVE  Results_in_order'
  BY <1>1 DEF Results_in_order, Current_promise
<1>2. CASE UNCHANGED vars
  BY <1>1, <1>2 DEF vars, server_vars, service_vars
<1>3. CASE Client_step
  BY <1>1, <1>3
     DEF Client_step, Call, handleResponse, Repeat, Give_up, server_vars, service_vars
<1>4. ASSUME NEW m \in Messages, Lose(m) \/ Handler_step(m)
      PROVE  Results_in_order'
  BY <1>1, <1>4
     DEF Lose, Handler_step, Receive, Set_pending_operation, Execute, Return_current_future,
         Look_up, server_vars, service_vars
<1>5. ASSUME NEW c \in Calls, Service_step(c)
      PROVE  Results_in_order'
  <2>1. CASE Cancel_timer(c)
    BY <1>1, <2>1 DEF Cancel_timer
  <2> QED
    BY <1>5, <2>1, Complete_promise_keeps_results, Result_begins_keeps_results DEF Service_step
<1>6. ASSUME NEW p \in Promises, Timer_step(p)
      PROVE  Results_in_order'
  BY <1>6, renewPromise_keeps_results, respondWithHeartbeat_keeps_results DEF Timer_step
<1> QED
  BY <1>2, <1>3, <1>4, <1>5, <1>6 DEF Next

(* When the operation has ended and its callback is through, no request    *)
(* waits for a promise that is never completed, but for a request that has *)
(* missed its heartbeat (HeartbeatService.scala:81, 98, 127-131).          *)
THEOREM Results_get_to_their_requests == Spec => []Results_are_not_lost
<1>1. Init => Results_in_order
  BY Promise_type DEF Init, Results_in_order
<1>2. IInv /\ Results_in_order /\ [Next]_vars => Results_in_order'
  BY Next_keeps_results
<1>3. IInv /\ Results_in_order => Results_are_not_lost
  <2> SUFFICES ASSUME IInv, Results_in_order, NEW id \in Ids, future[id] # Nothing,
                      completion[future[id][1]][1] = "done", promise[future[id]] = "open",
                      future[id] \notin responding, ~Missed_its_heartbeat(id)
               PROVE  FALSE
    BY DEF Results_are_not_lost, IInv, TypeOK
  <2> USE DEF IInv
  <2> DEFINE p == future[id]
             c == p[1]
  <2>1. /\ p \in Promises /\ p = <<c, p[2]>> /\ c \in Calls /\ p[2] \in Nat
        /\ id \in 1 .. requestId /\ request[id] = p
    BY Promise_type DEF TypeOK, Messages_in_order, Answers_in_order
  <2>2. p[2] > 0 => /\ promise[Previous(p)] = "heartbeat" /\ p[2] - 1 < currentPromiseRef[c]
    <3>1. ASSUME p[2] > 0
          PROVE  promise[Previous(p)] = "heartbeat"
      BY <2>1, <3>1 DEF Heartbeats_in_order
    <3>2. ASSUME p[2] > 0
          PROVE  p[2] - 1 < currentPromiseRef[c]
      BY <2>1, <3>1, <3>2, Renewed_type DEF Heartbeats_in_order
    <3> QED
      BY <3>1, <3>2
  <2>3. ~(p[2] < currentPromiseRef[c])
    BY <2>1 DEF Results_in_order
  <2>4. p[2] = currentPromiseRef[c]
    <3>1. currentPromiseRef[c] \in Nat
      BY <2>1 DEF TypeOK
    <3> HIDE DEF p, c
    <3> QED
      BY <2>1, <2>2, <2>3, <3>1
  <2>5. p = Current_promise(c)
    BY <2>1, <2>4 DEF Current_promise
  <2>6. p[2] > 0 /\ promise[Previous(p)] = "result"
    BY <2>1, <2>4, <2>5 DEF Results_in_order
  <2> QED
    BY <2>2, <2>6
<1> QED
  BY <1>1, <1>2, <1>3, Invariant, PTL DEF Spec

-----------------------------------------------------------------------------
(* The refinement.                                                         *)

(* The outcome of a call as RemoteCall has it.                             *)
Outcome == [c \in Calls |-> IF outcome[c] = "rejected" THEN "failed" ELSE outcome[c]]

(* Calls that begin, and calls that end, are steps of RemoteCall.          *)
LEMMA Call_implements ==
  ASSUME IInv, NEW c \in Calls, Call(c)
  PROVE  Abstract!Call(c)
<1>1. /\ outcome[c] = "none" /\ outcome' = [outcome EXCEPT ![c] = "pending"] /\ UNCHANGED executions
      /\ \A d \in 1 .. c - 1 : d \in Calls /\ outcome[d] \notin {"none", "pending"}
  <2>1. \A d \in 1 .. c - 1 : d \in Calls
    BY BoundAssumption DEF Calls
  <2> QED
    BY <2>1 DEF Call, server_vars, idempotence_vars, service_vars
<1>2. Outcome[c] = "none" /\ Outcome' = [Outcome EXCEPT ![c] = "pending"]
  BY <1>1 DEF Outcome, IInv, TypeOK
<1>3. \A d \in 1 .. c - 1 : Outcome[d] \in {"answered", "failed"}
  BY <1>1 DEF Outcome, IInv, TypeOK
<1> QED
  BY <1>1, <1>2, <1>3 DEF Abstract!Call, Outcome

LEMMA End_call_implements ==
  ASSUME IInv, NEW result \in {"answered", "rejected", "failed"}, End_call(result),
         UNCHANGED server_vars,
         result = "answered" => future[requestId] # Nothing /\ promise[future[requestId]] = "result"
  PROVE  \E c \in Calls : Abstract!Answer(c) \/ Abstract!Fail(c)
<1>1. PICK c \in Calls : outcome[c] = "pending"
  BY DEF End_call, Pending
<1>2. \A d \in Calls : outcome'[d] = IF d = c THEN result ELSE outcome[d]
  BY <1>1, One_call_is_pending DEF End_call, IInv
<1>3. /\ Outcome[c] = "pending" /\ UNCHANGED executions
      /\ Outcome' = [Outcome EXCEPT ![c] = IF result = "answered" THEN "answered" ELSE "failed"]
  BY <1>1, <1>2 DEF Outcome, server_vars, idempotence_vars, service_vars
<1>4. CASE result = "answered"
  <2>1. request[requestId] \in Promises /\ request[requestId][1] = c /\ requestId \in Ids
    BY <1>1, BoundAssumption DEF IInv, Requests_in_order, TypeOK, Ids
  <2>2. future[requestId] \in Promises /\ future[requestId][1] = c
    BY <1>4, <2>1
       DEF IInv, TypeOK, Answers_in_order, Missed_its_heartbeat, Current_promise, Renewed
  <2>3. executions[c] = 1
    BY <1>4, <2>2 DEF IInv, Executed_once
  <2> QED
    BY <1>3, <1>4, <2>3 DEF Abstract!Answer, Outcome
<1>5. CASE result # "answered"
  BY <1>3, <1>5 DEF Abstract!Fail, Outcome
<1> QED
  BY <1>4, <1>5

(* So is the execution of a start request; a continue request executes     *)
(* nothing.                                                                *)
LEMMA Execute_implements ==
  ASSUME IInv, NEW m \in Messages, Execute(m)
  PROVE  (\E c \in Calls : Abstract!Execute(c)) \/ UNCHANGED <<outcome, executions>>
<1> DEFINE c == request[m[1]][1]
<1>1. UNCHANGED client_vars /\ Is_eaten(m)
  BY DEF Execute, Is_eaten
<1>2. CASE request[m[1]][2] = 0
  <2>1. c \in Calls /\ executions[c] = 0 /\ outcome[c] # "none"
    BY <1>1, <1>2, Request_is_current
  <2>2. executions' = [executions EXCEPT ![c] = 1]
    <3>1. executions' = [executions EXCEPT ![c] = executions[c] + 1]
      BY <1>2 DEF Execute, startHeartbeat
    <3> QED BY <2>1, <3>1
  <2>3. Outcome[c] # "none" /\ UNCHANGED Outcome
    BY <1>1, <2>1 DEF Outcome, client_vars
  <2> HIDE DEF c
  <2> QED
    BY <2>1, <2>2, <2>3 DEF Abstract!Execute, Outcome
<1>3. CASE request[m[1]][2] # 0
  BY <1>1, <1>3 DEF Execute, continueHeartbeat, client_vars
<1> QED
  BY <1>2, <1>3

(* The protocol implements RemoteCall: whatever messages get lost or       *)
(* repeated and however handlers, timers and callbacks interleave, a call  *)
(* is executed at most once and answered only after its execution          *)
(* (IdempotentRequestor.scala, Idempotence.scala, HeartbeatService.scala). *)
THEOREM Remote_call_is_implemented == Spec => Implements_remote_call
<1>1. Init => Abstract!Init
  BY DEF Init, Abstract!Init, Abstract!Calls, Calls
<1>2. IInv /\ [Next]_vars => [Abstract!Next]_(Abstract!abstract_vars)
  <2> SUFFICES ASSUME IInv, [Next]_vars
               PROVE  [Abstract!Next]_(Abstract!abstract_vars)
    OBVIOUS
  <2> USE DEF Abstract!Next, Abstract!Calls, Calls
  <2>1. ASSUME UNCHANGED <<outcome, executions>>
        PROVE  UNCHANGED Abstract!abstract_vars
    BY <2>1 DEF Abstract!abstract_vars
  <2>2. CASE \E c \in Calls : Call(c)
    BY <2>2, Call_implements
  <2>3. ASSUME NEW m \in Messages, handleResponse(m)
        PROVE  [Abstract!Next]_(Abstract!abstract_vars)
    <3>1. CASE UNCHANGED outcome
      BY <2>1, <2>3, <3>1 DEF handleResponse, server_vars, idempotence_vars, service_vars
    <3>2. CASE Answer(m) = "result" /\ End_call("answered")
      <4>1. future[requestId] \in Promises /\ promise[future[requestId]] = "result"
        BY <2>3, <3>2, Answer_type DEF handleResponse, Is_awaited
      <4> QED
        BY <2>3, <3>2, <4>1, Promise_type, End_call_implements DEF handleResponse
    <3>3. CASE End_call("rejected")
      BY <2>3, <3>3, End_call_implements DEF handleResponse
    <3> QED
      BY <2>3, <3>1, <3>2, <3>3 DEF handleResponse
  <2>4. CASE Give_up
    BY <2>4, End_call_implements DEF Give_up
  <2>5. CASE Repeat
    BY <2>1, <2>5 DEF Repeat, server_vars, idempotence_vars, service_vars
  <2>6. ASSUME NEW m \in Messages, \/ Lose(m) \/ Receive(m) \/ Set_pending_operation(m)
                                   \/ Return_current_future(m) \/ Look_up(m)
        PROVE  UNCHANGED <<outcome, executions>>
    BY <2>6
       DEF Lose, Receive, Set_pending_operation, Return_current_future, Look_up,
           client_vars, server_vars, idempotence_vars, service_vars
  <2>7. ASSUME NEW m \in Messages, Execute(m)
        PROVE  [Abstract!Next]_(Abstract!abstract_vars)
    BY <2>1, <2>7, Execute_implements
  <2>8. ASSUME NEW c \in Calls, Service_step(c)
        PROVE  UNCHANGED <<outcome, executions>>
    BY <2>8 DEF Service_step, Finish, Read_promise, Complete_promise, Cancel_timer, client_vars
  <2>9. ASSUME NEW p \in Promises, Timer_step(p)
        PROVE  UNCHANGED <<outcome, executions>>
    BY <2>9 DEF Timer_step, renewPromise, respondWithHeartbeat, client_vars
  <2>10. CASE UNCHANGED vars
    BY <2>1, <2>10 DEF vars, client_vars, server_vars, idempotence_vars, service_vars
  <2> QED
    BY <2>1, <2>2, <2>3, <2>4, <2>5, <2>6, <2>7, <2>8, <2>9, <2>10
       DEF Next, Client_step, Handler_step
<1> QED
  BY <1>1, <1>2, Invariant, PTL DEF Spec, Implements_remote_call, Abstract!Spec
================================================================================

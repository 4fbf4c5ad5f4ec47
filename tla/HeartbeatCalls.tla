---------------------------- MODULE HeartbeatCalls ----------------------------
(***************************************************************************)
(* Remote calls through a tunnel: HeartbeatRequestor and                   *)
(* IdempotentRequestor of the client, HTTP messages that get lost, and     *)
(* HeartbeatService and Idempotence of the server.                         *)
(*                                                                         *)
(* A call is an operation of the server that may last longer than a        *)
(* heartbeat period.  The client sends a start request.  When the period   *)
(* elapses first, the server answers with a heartbeat id, and the client   *)
(* continues with a request that carries this id, until it gets the result.*)
(* Each request has a number.  When the client gets no answer, it repeats  *)
(* the request with the same number, until the request's timeout.          *)
(*                                                                         *)
(* The n-th sending of request id is a message <<id, n>>.  The server      *)
(* handles messages concurrently: the routes run behind a future (user     *)
(* authentication), on threads of a pool.                                  *)
(*                                                                         *)
(* The k-th promise of call c (PendingOperation.currentPromiseRef) is      *)
(* <<c, k>>.  respondWithHeartbeat replaces <<c, k>> by <<c, k+1>> and     *)
(* answers <<c, k>> with a new heartbeat id, here <<c, k+1>>.  Request     *)
(* <<c, 0>> starts call c, request <<c, k>> continues after heartbeat      *)
(* <<c, k>>.  A heartbeat period's timer is named by the promise for       *)
(* which it was set.                                                       *)
(*                                                                         *)
(* The handler of a request arms the timer of its period before it reads   *)
(* the promise that answers the request.  When the period elapses in       *)
(* between, the heartbeat is missed: it answers a promise nobody waits for *)
(* and the request waits for the next one.                                 *)
(***************************************************************************)
EXTENDS Naturals, FiniteSets

CONSTANTS Max_calls,         \* bound: number of calls
          Max_requests,      \* bound: number of request ids
          Max_sends,         \* bound: sendings of a request; the last one is not lost
          Max_heartbeats,    \* bound: heartbeats of each call
          Nothing            \* null

ASSUME BoundAssumption ==
  /\ Max_calls \in Nat \ {0} /\ Max_requests \in Nat \ {0} /\ Max_sends \in Nat \ {0}
  /\ Max_heartbeats \in [1 .. Max_calls -> Nat]
  /\ Nothing \notin Nat /\ Nothing \notin Nat \X Nat

Calls    == 1 .. Max_calls
Ids      == 1 .. Max_requests
Messages == Ids \X (1 .. Max_sends)
Promises == UNION {{c} \X (0 .. Max_heartbeats[c]) : c \in Calls}

VARIABLES
  \* the client
  outcome,            \* [c]: "none", "pending", "answered", "rejected" or "failed"
  requestId,          \* RequestId.Generator: the last id
  request,            \* [id]: what the client sends under the id
  sent,               \* number of sendings of request requestId
  \* the messages
  message,            \* [m]: <<where the message is, the Operation that answers it>>
  \* the server
  expectedId,         \* RequestId.Eater: 0 before the first request
  pendingOperation,   \* Idempotence: the id of the last Operation, 0 before the first one
  future,             \* [id]: the promise with which the Operation's newPromise is completed
  operation,          \* [c]: the operation of the call
  executions,         \* [c]: how often the operation has been started
  currentPromiseRef,  \* [c]: number of the current promise
  promise,            \* [p]: "open", "heartbeat" or "result"
  pendingOperations,  \* the registered heartbeat ids
  heartbeatTimers,    \* the heartbeat periods that are running
  currentHeartbeatTimer,
  responding,         \* respondWithHeartbeat has replaced these promises
  completion,         \* [c]: callback that completes the promise
  cancellation        \* [c]: callback that cancels the heartbeat timer: "none",
                      \*      "registered" or "submitted"

client_vars == <<outcome, requestId, request, sent>>
service_vars == <<operation, executions, currentPromiseRef, promise, pendingOperations,
                  heartbeatTimers, currentHeartbeatTimer, responding, completion, cancellation>>
idempotence_vars == <<expectedId, pendingOperation, future>>
server_vars == <<idempotence_vars, service_vars>>
vars == <<client_vars, message, server_vars>>

At(place)     == <<place, 0>>
Waits_for(id) == <<"waiting", id>>
Place(m)      == message[m][1]

Current_promise(c) == <<c, currentPromiseRef[c]>>
Renewed(p)         == <<p[1], p[2] + 1>>

Init ==
  /\ outcome = [c \in Calls |-> "none"]
  /\ requestId = 0
  /\ request = [id \in Ids |-> Nothing]
  /\ sent = 0
  /\ message = [m \in Messages |-> At("none")]
  /\ expectedId = 0
  /\ pendingOperation = 0
  /\ future = [id \in Ids |-> Nothing]
  /\ operation = [c \in Calls |-> "none"]
  /\ executions = [c \in Calls |-> 0]
  /\ currentPromiseRef = [c \in Calls |-> 0]
  /\ promise = [p \in Promises |-> "open"]
  /\ pendingOperations = {}
  /\ heartbeatTimers = {}
  /\ currentHeartbeatTimer = Nothing
  /\ responding = {}
  /\ completion = [c \in Calls |-> <<"none", 0>>]
  /\ cancellation = [c \in Calls |-> "none"]

-----------------------------------------------------------------------------
(* The client.                                                             *)

Pending == \E c \in Calls : outcome[c] = "pending"

(* The client awaits the answers to all messages of the current request.   *)
Is_awaited(m) == Pending /\ m[1] = requestId

(* It ignores the answers to messages of a request that is over.  The      *)
(* model drops them.                                                       *)
Dropped ==
  [m \in Messages |->
     IF Is_awaited(m) /\ Place(m) \in {"waiting", "rejected"} THEN At("over") ELSE message[m]]

(* sendAndRetry: a new request id and its first cycle.                     *)
sendAndRetry(what) ==
  /\ requestId < Max_requests
  /\ requestId' = requestId + 1
  /\ request' = [request EXCEPT ![requestId + 1] = what]
  /\ sent' = 1
  /\ message' = [Dropped EXCEPT ![<<requestId + 1, 1>>] = At("requested")]

(* HeartbeatRequestor.apply.                                               *)
Call(c) ==
  /\ outcome[c] = "none" /\ \A d \in 1 .. c - 1 : outcome[d] \notin {"none", "pending"}
  /\ outcome' = [outcome EXCEPT ![c] = "pending"]
  /\ sendAndRetry(<<c, 0>>)
  /\ UNCHANGED server_vars

(* The promise of the current request is completed and with it the call.   *)
End_call(result) ==
  /\ Pending
  /\ outcome' = [c \in Calls |-> IF outcome[c] = "pending" THEN result ELSE outcome[c]]
  /\ message' = Dropped
  /\ UNCHANGED <<requestId, request, sent>>

(* The promise that answers message m, when its Operation has come so far. *)
Awaited_promise(m) == IF Place(m) = "waiting" THEN future[message[m][2]] ELSE Nothing

(* What the answer to message m is, once there is one.                     *)
Answer(m) ==
  IF Place(m) = "rejected" THEN "rejected"
  ELSE IF Awaited_promise(m) = Nothing THEN "open" ELSE promise[Awaited_promise(m)]

(* handleResponse: a heartbeat is continued, another answer is the result. *)
handleResponse(m) ==
  /\ Is_awaited(m)
  /\ \/ /\ Answer(m) = "heartbeat"
        /\ sendAndRetry(Renewed(Awaited_promise(m)))
        /\ UNCHANGED outcome
     \/ /\ Answer(m) \in {"result", "rejected"}
        /\ End_call(IF Answer(m) = "result" THEN "answered" ELSE "rejected")
  /\ UNCHANGED server_vars

(* A timer completes failedPromise before timeoutAt, RetryTimeout after a   *)
(* message or DelayAfterError after its connection has broken: the request  *)
(* is repeated.                                                             *)
Repeat ==
  /\ Pending /\ sent < Max_sends
  /\ sent' = sent + 1
  /\ message' = [message EXCEPT ![<<requestId, sent + 1>>] = At("requested")]
  /\ UNCHANGED <<outcome, requestId, request, server_vars>>

(* failedPromise is completed at timeoutAt, or the connection breaks less   *)
(* than DelayAfterError before it.  Whatever has come until then, it may    *)
(* be that late.                                                           *)
Give_up ==
  /\ End_call("failed")
  /\ UNCHANGED server_vars

-----------------------------------------------------------------------------
(* A request or an answer is lost; the connection may break, the client     *)
(* may notice it.  The last message of a request is not lost.              *)
Lose(m) ==
  /\ m[2] < Max_sends
  /\ Place(m) \in {"requested", "waiting", "rejected"}
  /\ message' = [message EXCEPT ![m] = At("over")]
  /\ UNCHANGED <<client_vars, server_vars>>

-----------------------------------------------------------------------------
(* Idempotence.apply completes the HTTP request with an answer.            *)
Answered(m, answer) ==
  message' = [message EXCEPT ![m] = IF Is_awaited(m) THEN answer ELSE At("over")]

(* Mutant: the last id is accepted once more.                              *)
eatRequestId_again(id) == expectedId \in {0, id, id + 1}

(* Idempotence.apply.  Its first step is eatRequestId, which accepts any   *)
(* first id, and then the successor of the last id it has accepted.        *)

eatRequestId(id) == expectedId \in {0, id}

(* Mutant: the last accepted id is incremented twice.                      *)
Receive_and_skip_an_id(m) ==
  /\ Place(m) = "requested"
  /\ IF eatRequestId(m[1])
       THEN /\ message' = [message EXCEPT ![m] = At("eaten")]
            /\ expectedId' = m[1] + 2
       ELSE /\ message' = [message EXCEPT ![m] = At("refused")]
            /\ UNCHANGED expectedId
  /\ UNCHANGED <<client_vars, pendingOperation, future, service_vars>>

Receive(m) ==
  /\ Place(m) = "requested"
  /\ IF eatRequestId(m[1])
       THEN /\ message' = [message EXCEPT ![m] = At("eaten")]
            /\ expectedId' = m[1] + 1
       ELSE /\ message' = [message EXCEPT ![m] = At("refused")]
            /\ UNCHANGED expectedId
  /\ UNCHANGED <<client_vars, pendingOperation, future, service_vars>>

(* The request becomes the pending operation: from now on its duplicates    *)
(* wait with it.                                                           *)
Set_pending_operation(m) ==
  /\ Place(m) = "eaten"
  /\ pendingOperation' = m[1]
  /\ message' = [message EXCEPT ![m] = At("registered")]
  /\ UNCHANGED <<client_vars, expectedId, future, service_vars>>

(* The timer of the heartbeat period of a call.                            *)
startHeartbeatPeriod(c) ==
  /\ heartbeatTimers' = heartbeatTimers \cup {Current_promise(c)}
  /\ currentHeartbeatTimer' = Current_promise(c)

(* The body of a start request starts the operation.                       *)
startHeartbeat(c) ==
  /\ operation' = [operation EXCEPT ![c] = "running"]
  /\ executions' = [executions EXCEPT ![c] = @ + 1]
  /\ startHeartbeatPeriod(c)
  /\ UNCHANGED pendingOperations

(* The body of a continue request takes the operation of the heartbeat id. *)
continueHeartbeat(c, k) ==
  /\ IF <<c, k>> \in pendingOperations THEN startHeartbeatPeriod(c)
     ELSE UNCHANGED <<heartbeatTimers, currentHeartbeatTimer>>
  /\ pendingOperations' = pendingOperations \ {<<c, k>>}
  /\ UNCHANGED <<operation, executions>>

(* The body of Idempotence.apply is executed, as far as the timer.  No      *)
(* other thread can tell the start of the operation and the removal of the *)
(* heartbeat id from the arming of the timer: what it does in between has  *)
(* the same effect before or after them.                                   *)
Execute(m) ==
  LET c  == request[m[1]][1]
      k  == request[m[1]][2]
  IN  /\ Place(m) = "registered"
      /\ IF k = 0 THEN startHeartbeat(c) ELSE continueHeartbeat(c, k)
      /\ IF k = 0 \/ request[m[1]] \in pendingOperations
           THEN message' = [message EXCEPT ![m] = At("started")]
           \* UnknownHeartbeatIdException: nobody completes newPromise
           ELSE Answered(m, At("rejected"))
      /\ UNCHANGED <<client_vars, expectedId, pendingOperation, future, currentPromiseRef,
                     promise, responding, completion, cancellation>>

(* The end of the body: the current promise is read, and newPromise will    *)
(* be completed with it.  A start request registers the callback that       *)
(* cancels the timer.                                                       *)
Return_current_future(m) ==
  LET c == request[m[1]][1]
      k == request[m[1]][2]
      on_complete == IF operation[c] = "finished" THEN "submitted" ELSE "registered"
  IN  /\ Place(m) = "started"
      /\ future' = [future EXCEPT ![m[1]] = Current_promise(c)]
      /\ cancellation' = IF k = 0 THEN [cancellation EXCEPT ![c] = on_complete] ELSE cancellation
      /\ Answered(m, Waits_for(m[1]))
      /\ UNCHANGED <<client_vars, expectedId, pendingOperation, operation, executions,
                     currentPromiseRef, promise, pendingOperations, heartbeatTimers,
                     currentHeartbeatTimer, responding, completion>>

(* Mutant: the id of the pending operation is not compared.                *)
Look_up_any_operation(m) ==
  /\ Place(m) = "refused"
  /\ Answered(m, IF pendingOperation # 0 THEN Waits_for(pendingOperation) ELSE At("rejected"))
  /\ UNCHANGED <<client_vars, server_vars>>

(* The second step after the id has been refused: a duplicate of the       *)
(* pending operation gets its future, another request is rejected.         *)
Look_up(m) ==
  /\ Place(m) = "refused"
  /\ Answered(m, IF m[1] = pendingOperation THEN Waits_for(pendingOperation) ELSE At("rejected"))
  /\ UNCHANGED <<client_vars, server_vars>>

-----------------------------------------------------------------------------
(* HeartbeatService.                                                       *)

(* The operation is finished; the callbacks of responseFuture that are      *)
(* registered are submitted to the pool.                                   *)
Finish(c) ==
  /\ operation[c] = "running"
  /\ operation' = [operation EXCEPT ![c] = "finished"]
  /\ completion' = [completion EXCEPT ![c] = <<"submitted", 0>>]
  /\ cancellation' = [cancellation EXCEPT ![c] = IF @ = "registered" THEN "submitted" ELSE @]
  /\ UNCHANGED <<client_vars, message, idempotence_vars, executions,
                 currentPromiseRef, promise, pendingOperations, heartbeatTimers,
                 currentHeartbeatTimer, responding>>

(* PendingOperation's callback reads the current promise and then tries to *)
(* complete it.  If a heartbeat has completed it in the meantime, the      *)
(* promise that is current by now is completed.                            *)
Read_promise(c) ==
  /\ completion[c][1] = "submitted"
  /\ completion' = [completion EXCEPT ![c] = <<"read", currentPromiseRef[c]>>]
  /\ UNCHANGED <<client_vars, message, idempotence_vars, operation, executions,
                 currentPromiseRef, promise, pendingOperations, heartbeatTimers,
                 currentHeartbeatTimer, responding, cancellation>>

(* Mutant: the callback does not look for a renewed promise.               *)
Complete_promise_once(c) ==
  LET p == <<c, completion[c][2]>>
  IN  /\ completion[c][1] = "read"
      /\ promise' = [promise EXCEPT ![p] = IF @ = "open" THEN "result" ELSE @]
      /\ completion' = [completion EXCEPT ![c] = <<"done", 0>>]
      /\ UNCHANGED <<client_vars, message, idempotence_vars, operation,
                     executions, currentPromiseRef, pendingOperations, heartbeatTimers,
                     currentHeartbeatTimer, responding, cancellation>>

Complete_promise(c) ==
  LET p == <<c, completion[c][2]>>
      q == IF promise[p] = "open" THEN p ELSE <<c, currentPromiseRef[c]>>
  IN  /\ completion[c][1] = "read"
      /\ promise' = [promise EXCEPT ![q] = IF @ = "open" THEN "result" ELSE @]
      /\ completion' = [completion EXCEPT ![c] = <<"done", 0>>]
      /\ UNCHANGED <<client_vars, message, idempotence_vars, operation,
                     executions, currentPromiseRef, pendingOperations, heartbeatTimers,
                     currentHeartbeatTimer, responding, cancellation>>

(* The callback of startHeartbeat cancels the timer that is current by now. *)
Cancel_timer(c) ==
  /\ cancellation[c] = "submitted"
  /\ cancellation' = [cancellation EXCEPT ![c] = "none"]
  /\ heartbeatTimers' = heartbeatTimers \ {currentHeartbeatTimer}
  /\ UNCHANGED <<client_vars, message, idempotence_vars, operation, executions,
                 currentPromiseRef, promise, pendingOperations, currentHeartbeatTimer,
                 responding, completion>>

(* respondWithHeartbeat, at the end of the period: a heartbeat id is        *)
(* registered and the promise replaced ...                                 *)
renewPromise(p) ==
  LET c == p[1]
      k == currentPromiseRef[c]
  IN  /\ p \in heartbeatTimers /\ k < Max_heartbeats[c]
      /\ heartbeatTimers' = heartbeatTimers \ {p}
      /\ pendingOperations' = pendingOperations \cup {<<c, k + 1>>}
      /\ currentPromiseRef' = [currentPromiseRef EXCEPT ![c] = k + 1]
      /\ responding' = responding \cup {<<c, k>>}
      /\ UNCHANGED <<client_vars, message, idempotence_vars, operation,
                     executions, promise, currentHeartbeatTimer, completion, cancellation>>

(* Mutant: the heartbeat id stays registered after a needless heartbeat.   *)
respondWithHeartbeat_kept(p) ==
  /\ p \in responding
  /\ responding' = responding \ {p}
  /\ promise' = [promise EXCEPT ![p] = IF @ = "open" THEN "heartbeat" ELSE @]
  /\ UNCHANGED <<client_vars, message, idempotence_vars, operation, executions,
                 currentPromiseRef, pendingOperations, heartbeatTimers, currentHeartbeatTimer,
                 completion, cancellation>>

(* ... and then the old promise answered, if it is still open.             *)
respondWithHeartbeat(p) ==
  /\ p \in responding
  /\ responding' = responding \ {p}
  /\ IF promise[p] = "open"
       THEN /\ promise' = [promise EXCEPT ![p] = "heartbeat"]
            /\ UNCHANGED pendingOperations
       ELSE /\ pendingOperations' = pendingOperations \ {<<p[1], p[2] + 1>>}
            /\ UNCHANGED promise
  /\ UNCHANGED <<client_vars, message, idempotence_vars, operation, executions,
                 currentPromiseRef, heartbeatTimers, currentHeartbeatTimer, completion, cancellation>>

-----------------------------------------------------------------------------
Client_step ==
  \/ \E c \in Calls : Call(c)
  \/ \E m \in Messages : handleResponse(m)
  \/ Repeat \/ Give_up

Handler_step(m) ==
  Receive(m) \/ Set_pending_operation(m) \/ Execute(m) \/ Return_current_future(m) \/ Look_up(m)
Service_step(c) == Finish(c) \/ Read_promise(c) \/ Complete_promise(c) \/ Cancel_timer(c)
Timer_step(p)   == renewPromise(p) \/ respondWithHeartbeat(p)

Next ==
  \/ Client_step
  \/ \E m \in Messages : Lose(m) \/ Handler_step(m)
  \/ \E c \in Calls : Service_step(c)
  \/ \E p \in Promises : Timer_step(p)

Spec == Init /\ [][Next]_vars

(* Handlers and callbacks run on threads of a pool and get to run; the      *)
(* client handles an answer and repeats a request.  Nothing forces a        *)
(* timeout, a connection to break or the user to call.                     *)
Fairness ==
  /\ \A m \in Messages : WF_vars(Handler_step(m)) /\ WF_vars(handleResponse(m))
  /\ \A c \in Calls : WF_vars(Service_step(c))
  /\ \A p \in Promises : WF_vars(respondWithHeartbeat(p))
  /\ WF_vars(Repeat)

-----------------------------------------------------------------------------
(* Every variable has a value of its type.                                 *)
TypeOK ==
  /\ outcome \in [Calls -> {"none", "pending", "answered", "rejected", "failed"}]
  /\ requestId \in 0 .. Max_requests
  /\ request \in [Ids -> Promises \cup {Nothing}]
  /\ sent \in 0 .. Max_sends
  /\ message \in [Messages -> {"none", "requested", "eaten", "refused", "registered", "started",
                               "waiting", "rejected", "over"} \X (0 .. Max_requests)]
  /\ expectedId \in 0 .. Max_requests + 1
  /\ pendingOperation \in 0 .. Max_requests
  /\ future \in [Ids -> Promises \cup {Nothing}]
  /\ operation \in [Calls -> {"none", "running", "finished"}]
  /\ executions \in [Calls -> Nat]
  /\ currentPromiseRef \in [Calls -> Nat]
  /\ \A c \in Calls : <<c, currentPromiseRef[c]>> \in Promises
  /\ promise \in [Promises -> {"open", "heartbeat", "result"}]
  /\ pendingOperations \subseteq Promises
  /\ heartbeatTimers \subseteq Promises /\ currentHeartbeatTimer \in Promises \cup {Nothing}
  /\ responding \subseteq Promises
  /\ completion \in [Calls -> {"none", "submitted", "read", "done"} \X Nat]
  /\ cancellation \in [Calls -> {"none", "registered", "submitted"}]

(* The heartbeat of request id was missed: the period had elapsed before    *)
(* the request's handler read the promise (HeartbeatService.scala:81, 98). *)
Missed_its_heartbeat(id) ==
  /\ request[id] # Nothing /\ future[id] = Renewed(request[id])
  /\ future[id] = Current_promise(request[id][1])

(* A message waits for the Operation of its own request, and gets the      *)
(* answer of the heartbeat period that its request has begun, never one of *)
(* an earlier period or of another call (Idempotence.scala:63,             *)
(* HeartbeatService.scala:66).  If the heartbeat was missed, it waits for  *)
(* the promise of the next period, which is the last one and never         *)
(* answered with a heartbeat.                                              *)
Answers_belong_to_requests ==
  /\ \A m \in Messages : Place(m) = "waiting" => message[m][2] = m[1]
  /\ \A id \in Ids : future[id] # Nothing =>
       \/ future[id] = request[id]
       \/ Missed_its_heartbeat(id) /\ promise[future[id]] # "heartbeat"

(* However heartbeats, repeated requests and the end of the operation       *)
(* interleave (HeartbeatService.scala:66, 89-95), a heartbeat id is         *)
(* registered when and as long as it is needed: a continue request never    *)
(* meets an unknown one, and no id of an answered call stays, but for a     *)
(* needless heartbeat that is being withdrawn and for a missed one.         *)
Heartbeat_ids_are_registered ==
  /\ \A m \in Messages :
       Place(m) \in {"eaten", "registered"} /\ request[m[1]][2] > 0 =>
         request[m[1]] \in pendingOperations
  /\ \A p \in pendingOperations : outcome[p[1]] = "answered" =>
       \E q \in Promises :
         /\ p = Renewed(q)
         /\ q \in responding \/ \E id \in Ids : request[id] = q /\ Missed_its_heartbeat(id)

(* When an operation has ended and its callback is through, the promise    *)
(* that a request waits for is completed, or is about to be answered with a *)
(* heartbeat, whichever came first (HeartbeatService.scala:127-131): no    *)
(* request waits for a promise that is never completed, but for one that   *)
(* has missed its heartbeat.                                               *)
Results_are_not_lost ==
  \A id \in Ids : future[id] # Nothing /\ completion[future[id][1]][1] = "done" =>
    promise[future[id]] # "open" \/ future[id] \in responding \/ Missed_its_heartbeat(id)

(* The calls as the user sees them: executed at most once, and answered     *)
(* only with the result of their execution (RemoteCall).                   *)
Abstract == INSTANCE RemoteCall WITH
  outcome  <- [c \in Calls |-> IF outcome[c] = "rejected" THEN "failed" ELSE outcome[c]],
  executed <- executions
Implements_remote_call == Abstract!Spec

(* Behaviours in which no request meets its timeout, requests do not       *)
(* meet in Idempotence.apply (Idempotence.scala:48-49), and no heartbeat   *)
(* is missed: no period elapses before the handler that has begun it reads *)
(* the promise.                                                            *)
In_time == \A c \in Calls : outcome[c] # "failed"
One_handler_at_a_time ==
  \A m, n \in Messages : {Place(m), Place(n)} \subseteq {"eaten", "refused"} => m = n
No_heartbeat_is_missed ==
  \A m \in Messages : Place(m) = "started" => Current_promise(request[m[1]][1]) = request[m[1]]
Timely_spec ==
  Init /\ [][Next /\ In_time' /\ One_handler_at_a_time' /\ No_heartbeat_is_missed']_vars
       /\ Fairness

(* In these behaviours every call whose operation ends is answered with    *)
(* its result, whatever messages get lost, whatever heartbeats are         *)
(* answered meanwhile, and even if a late callback of an earlier call has  *)
(* cancelled the heartbeat timer (HeartbeatService.scala:49).              *)
Calls_are_answered == \A c \in Calls : outcome[c] = "pending" ~> outcome[c] = "answered"
===============================================================================

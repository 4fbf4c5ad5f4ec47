---------------------------- MODULE LockQueueProofs ----------------------------
(***************************************************************************)
(* The queues of the locks and the changes of the locks themselves, for    *)
(* every set of locks, jobs and tasks: who waits in a queue has entered    *)
(* it, and a lock is replaced or removed exactly when it is free.          *)
(***************************************************************************)
EXTENDS TaskHoldsProofs

-----------------------------------------------------------------------------
(* What is true of a lock as a file based object.                          *)

Is_held(l)     == Held_by(holder_map, l) # {}
Is_changing(l) == file_based[l].to_be_removed \/ file_based[l].replacement # NoReplacement

(* A lock is either to be removed or to be replaced, since the later       *)
(* command overwrites the earlier one (prepare_to_remove, replace_with).   *)
Lock_invariant(l) ==
  /\ Is_changing(l) => Is_held(l) \/ file_based[l].candidate
  /\ ~file_based[l].known => ~Is_held(l) /\ waiting_queues[l] = Empty_queues
  /\ file_based[l].to_be_removed => file_based[l].replacement = NoReplacement

Lock_invariants == \A l \in Locks : Lock_invariant(l)

(* A step in which the holders of l change: a lock that has gone gets no   *)
(* holder, and the last holder of a changing lock makes it a candidate.    *)
Holders_change(l) ==
  /\ file_based'[l].known = file_based[l].known
  /\ file_based'[l].to_be_removed = file_based[l].to_be_removed
  /\ file_based'[l].replacement = file_based[l].replacement
  /\ file_based[l].candidate => file_based'[l].candidate
  /\ Is_held(l)' => Is_held(l) \/ file_based[l].known
  /\ Is_changing(l) /\ Is_held(l) => Is_held(l)' \/ file_based'[l].candidate

(* A step in which queues change: nobody waits for a lock that has gone.   *)
Queues_change(l) ==
  ~file_based[l].known /\ waiting_queues[l] = Empty_queues => waiting_queues'[l] = Empty_queues

LEMMA Changes_keep_lock_invariant ==
  ASSUME NEW l, Lock_invariant(l), Holders_change(l), Queues_change(l)
  PROVE  Lock_invariant(l)'
BY DEF Lock_invariant, Holders_change, Queues_change, Is_changing

LEMMA Unchanged_holders ==
  ASSUME UNCHANGED <<holder_map, file_based>>
  PROVE  \A l \in Locks : Holders_change(l)
BY DEF Holders_change, Is_held, Is_changing

-----------------------------------------------------------------------------
(* Taking and giving back.                                                 *)

(* The first i uses of a list, and those before.                           *)
LEMMA First_and_next ==
  ASSUME NEW list, NEW i \in Nat \ {0}
  PROVE  /\ First(list, i) = First(list, i - 1) \cup {list[i]}
         /\ First(list, 0) = {}
<1>1. 1 .. i = (1 .. i - 1) \cup {i}
  OBVIOUS
<1>2. First(list, 0) = {}
  BY DEF First
<1> QED
  BY <1>1, <1>2 DEF First

(* When a holder gives back everything it holds of a lock, one of the      *)
(* iterations of release_locks gives the lock itself back.                 *)
LEMMA Last_release ==
  ASSUME NEW hm, NEW t, NEW list \in Seq(Uses), NEW l \in Locks,
         Release(hm, t, list, 0)[l][t] # {},
         Release(hm, t, list, Len(list))[l][t] = {},
         hm \in Holder_maps, t \in Holders,
         \A u \in hm[l][t] : Lock_of(u) = l
  PROVE  \E i \in 1 .. Len(list) : Lock_of(list[i]) = l /\ Is_released(hm, t, list, i)
<1>1. Len(list) \in Nat
  BY LenProperties
<1> DEFINE Left(i) == Release(hm, t, list, i)[l][t]
<1>2. \A i : Left(i) = hm[l][t] \ First(list, i)
  BY DEF Release, Holder_maps
<1> DEFINE S == {i \in 1 .. Len(list) : Left(i) = {}}
<1> HIDE DEF Left
<1>3. Left(0) # {} /\ Left(Len(list)) = {}
  BY DEF Left
<1>4. Len(list) \in S /\ S \subseteq Nat
  BY <1>1, <1>3
<1>5. PICK i \in S : \A k \in S : i <= k
  <2> HIDE DEF S
  <2> QED
    BY <1>4, First_position
<1>6. i \in 1 .. Len(list) /\ Left(i) = {} /\ i \in Nat \ {0}
  BY <1>5
<1>7. Left(i - 1) # {}
  <2>1. i - 1 \notin S
    BY <1>5, <1>6
  <2>2. CASE i = 1
    BY <1>3, <2>2
  <2>3. CASE i # 1
    BY <1>1, <1>6, <2>1, <2>3
  <2> QED
    BY <2>2, <2>3
<1>8. Left(i) = Left(i - 1) \ {list[i]}
  BY <1>2, <1>6, First_and_next
<1>9. list[i] \in Left(i - 1)
  BY <1>6, <1>7, <1>8
<1>10. Lock_of(list[i]) = l
  BY <1>2, <1>9
<1>11. Is_released(hm, t, list, i)
  BY <1>6, <1>8, <1>9, <1>10 DEF Is_released, Left
<1> QED
  BY <1>6, <1>10, <1>11

(* What a holder holds of a lock are uses of this lock.                    *)
Names_locks(hm, t) == \A l \in Locks : \A u \in hm[l][t] : Lock_of(u) = l

LEMMA Holder_maps_name_locks ==
  ASSUME IInv, NEW t \in Tasks
  PROVE  Names_locks(holder_map, t)
BY DEF IInv, Holds_invariant, Holds_what_it_may, May_be_held, Names_locks

(* Taking uses of locks that are known.                                    *)
LEMMA Hold_locks_changes ==
  ASSUME Holder_types, NEW t \in Tasks, NEW list, NEW k,
         \A u \in First(list, k) : file_based[Lock_of(u)].known,
         Hold_locks(t, list, k)
  PROVE  \A l \in Locks : Holders_change(l)
<1> SUFFICES ASSUME NEW l \in Locks PROVE Holders_change(l)
  OBVIOUS
<1>1. /\ holder_map'[l][t] = holder_map[l][t] \cup On_lock(First(list, k), l)
      /\ \A g \in Tasks \ {t} : holder_map'[l][g] = holder_map[l][g]
  BY Hold_locks_effect
<1>2. On_lock(First(list, k), l) # {} => file_based[l].known
  BY DEF On_lock
<1>3. Is_held(l) => Is_held(l)'
  BY <1>1 DEF Is_held, Held_by, Holders
<1>4. Is_held(l)' => Is_held(l) \/ file_based[l].known
  BY <1>1, <1>2 DEF Is_held, Held_by, Holders
<1> QED
  BY <1>3, <1>4 DEF Hold_locks, Holders_change

(* Giving uses back: the last one looks for a pending change of the lock   *)
(* (check_for_replacing_or_removing).                                      *)
LEMMA Release_locks_changes ==
  ASSUME Holder_types, NEW t \in Tasks, NEW hm \in Holder_maps, NEW md, NEW list \in Seq(Uses),
         Names_locks(hm, t),
         \A l \in Locks : \A g \in Tasks \ {t} : hm[l][g] = holder_map[l][g],
         \A l \in Locks : holder_map[l][t] \subseteq hm[l][t],
         \A l \in Locks : hm[l][t] \subseteq holder_map[l][t] \/ file_based[l].known,
         Release_locks(hm, md, t, list)
  PROVE  \A l \in Locks : Holders_change(l)
<1> SUFFICES ASSUME NEW l \in Locks PROVE Holders_change(l)
  OBVIOUS
<1>1. /\ holder_map' = Release(hm, t, list, Len(list))
      /\ file_based' = Candidates_after_release(hm, t, list)
  BY DEF Release_locks
<1>2. t \in Holders /\ file_based[l] \in File_based
  BY DEF Holder_types, Holders
<1>3. /\ holder_map'[l][t] \subseteq hm[l][t]
      /\ \A g \in Tasks \ {t} : holder_map'[l][g] = holder_map[l][g]
  <2>1. /\ holder_map'[l][t] = hm[l][t] \ First(list, Len(list))
        /\ \A g \in Tasks \ {t} : holder_map'[l][g] = hm[l][g]
    BY <1>1 DEF Release, Holder_maps, Holders
  <2> QED
    BY <2>1
<1>4. Is_held(l)' => Is_held(l) \/ file_based[l].known
  BY <1>3 DEF Is_held, Held_by, Holders
<1>5. file_based'[l] = [file_based[l] EXCEPT !.candidate = TRUE] \/ file_based'[l] = file_based[l]
  BY <1>1 DEF Candidates_after_release
<1>6. /\ file_based'[l].known = file_based[l].known
      /\ file_based'[l].to_be_removed = file_based[l].to_be_removed
      /\ file_based'[l].replacement = file_based[l].replacement
      /\ file_based[l].candidate => file_based'[l].candidate
  BY <1>2, <1>5 DEF File_based
<1>7. ASSUME Is_changing(l), Is_held(l), ~Is_held(l)'
      PROVE  file_based'[l].candidate
  <2>1. holder_map[l][t] # {} /\ holder_map'[l][t] = {}
    BY <1>3, <1>7 DEF Is_held, Held_by, Holders
  <2>2. Release(hm, t, list, Len(list))[l][t] = {}
    BY <1>1, <2>1
  <2>3. Release(hm, t, list, 0)[l][t] # {}
    <3>1. First(list, 0) = {}
      BY First_and_next
    <3>2. Release(hm, t, list, 0)[l][t] = hm[l][t]
      BY <1>2, <3>1 DEF Release, Holder_maps
    <3> QED
      BY <2>1, <3>2
  <2>4. \E i \in 1 .. Len(list) : Lock_of(list[i]) = l /\ Is_released(hm, t, list, i)
    BY <1>2, <2>2, <2>3, Last_release DEF Names_locks
  <2>5. Held_by(Release(hm, t, list, Len(list)), l) = {}
    BY <1>1, <1>7 DEF Is_held, Held_by
  <2>6. file_based'[l] = [file_based[l] EXCEPT !.candidate = TRUE]
    BY <1>1, <1>7, <2>4, <2>5 DEF Candidates_after_release, Is_changing
  <2> QED
    BY <1>2, <2>6 DEF File_based
<1> QED
  BY <1>4, <1>6, <1>7 DEF Holders_change

(* The usual case: the task gives back what it held when the step began.   *)
LEMMA Plain_release_changes ==
  ASSUME IInv, NEW t \in Tasks, NEW md, NEW list \in Seq(Uses),
         Release_locks(holder_map, md, t, list)
  PROVE  \A l \in Locks : Holders_change(l)
<1>1. Holder_types /\ holder_map \in Holder_maps
  BY Parts_of_TypeOK DEF IInv, Holder_types
<1>2. Names_locks(holder_map, t)
  BY Holder_maps_name_locks
<1> QED
  BY <1>1, <1>2, Release_locks_changes

-----------------------------------------------------------------------------
(* What jobs and tasks do to the holders of the locks.                     *)

LEMMA Required_locks_are_known ==
  ASSUME NEW hm, NEW md, NEW t, NEW list, NEW k, Holds_up_to(hm, md, t, list, k)
  PROVE  \A u \in First(list, k) : file_based[Lock_of(u)].known
BY DEF Holds_up_to, Can_require, First

LEMMA To_ending_changes ==
  ASSUME IInv, NEW t \in Tasks, NEW hm \in Holder_maps, NEW md, NEW other_calls,
         To_ending(t, hm, md, other_calls),
         Names_locks(hm, t),
         \A l \in Locks : \A g \in Tasks \ {t} : hm[l][g] = holder_map[l][g],
         \A l \in Locks : holder_map[l][t] \subseteq hm[l][t],
         \A l \in Locks : hm[l][t] \subseteq holder_map[l][t] \/ file_based[l].known
  PROVE  \A l \in Locks : Holders_change(l)
<1> DEFINE list == IF task_state[t] = "running" THEN use_list[Process_api(t)] ELSE <<>>
<1>1. Holder_types /\ list \in Seq(Uses)
  BY Parts_of_TypeOK, Requestor_types, EmptySeq DEF IInv, Use_types
<1>2. Release_locks(hm, md, t, list)
  BY DEF To_ending
<1> HIDE DEF list
<1> QED
  BY <1>1, <1>2, Release_locks_changes

LEMMA Do_something_changes ==
  ASSUME IInv, NEW t \in Tasks, NEW name, Do_something(t, name)
  PROVE  \A l \in Locks : Holders_change(l)
<1> DEFINE other_calls == calls \ {<<name, t>>}
           list == use_list[Level(t)]
<1>1. /\ Holder_types /\ holder_map \in Holder_maps /\ t \in Holders
      /\ Names_locks(holder_map, t) /\ list \in Seq(Uses) /\ Len(list) \in Nat
  BY Parts_of_TypeOK, Requestor_types, Holder_maps_name_locks, LenProperties
     DEF IInv, Holder_types, Use_types, Holders
<1> HIDE DEF other_calls, list
<1>2. CASE Steps_to_ending(t, other_calls)
  <2>1. To_ending(t, holder_map, lock_mode, other_calls)
    BY <1>2 DEF Steps_to_ending
  <2> QED
    BY <1>1, <2>1, To_ending_changes
<1>3. CASE Steps_into_script(t, other_calls)
  <2>1. /\ Holds_up_to(holder_map, lock_mode, t, list, Len(list))
        /\ Hold_locks(t, list, Len(list))
    BY <1>3 DEF Steps_into_script, list
  <2>2. \A u \in First(list, Len(list)) : file_based[Lock_of(u)].known
    BY <2>1, Required_locks_are_known
  <2> QED
    BY <1>1, <2>1, <2>2, Hold_locks_changes
<1>4. CASE Fails_to_hold(t, other_calls)
  <2>1. PICK k \in 0 .. Len(list) - 1 :
          /\ Holds_up_to(holder_map, lock_mode, t, list, k)
          /\ To_ending(t, Hold(holder_map, t, list, k),
                       Hold_mode(holder_map, lock_mode, t, list, k), other_calls)
    BY <1>4 DEF Fails_to_hold, list
  <2> DEFINE hm == Hold(holder_map, t, list, k)
             md == Hold_mode(holder_map, lock_mode, t, list, k)
  <2>2. k \in 0 .. Len(list)
    BY <1>1
  <2>3. hm \in Holder_maps
    <3>1. lock_mode \in Lock_modes
      BY <1>1 DEF Holder_types
    <3> QED
      BY <1>1, <2>2, <3>1, Hold_type
  <2>4. \A l \in Locks : /\ hm[l][t] = holder_map[l][t] \cup On_lock(First(list, k), l)
                         /\ \A g \in Tasks \ {t} : hm[l][g] = holder_map[l][g]
    BY <1>1, Hold_by_lock DEF Holders
  <2>5. \A u \in First(list, k) : file_based[Lock_of(u)].known
    BY <2>1, Required_locks_are_known
  <2>6. To_ending(t, hm, md, other_calls)
    BY <2>1
  <2> HIDE DEF hm, md
  <2>7. Names_locks(hm, t)
    BY <1>1, <2>4 DEF Names_locks, On_lock
  <2>8. \A l \in Locks : hm[l][t] \subseteq holder_map[l][t] \/ file_based[l].known
    BY <2>4, <2>5 DEF On_lock
  <2>9. \A l \in Locks : holder_map[l][t] \subseteq hm[l][t]
    BY <2>4
  <2> QED
    BY <2>3, <2>4, <2>6, <2>7, <2>8, <2>9, To_ending_changes
<1>5. CASE UNCHANGED lock_vars
  BY <1>5, Unchanged_holders DEF lock_vars
<1> QED
  BY <1>2, <1>3, <1>4, <1>5 DEF Do_something, other_calls

LEMMA Try_start_tasks_changes ==
  ASSUME IInv, NEW j \in Jobs, NEW state, NEW states, NEW wq, NEW enq,
         Try_start_tasks(j, state, states, wq, enq)
  PROVE  \A l \in Locks : Holders_change(l)
<1> DEFINE list == use_list[Job_requestor(j)]
<1>1. Holder_types /\ Use_types /\ Job_requestor(j) \in Requestors /\ list \in Seq(Uses)
  BY Parts_of_TypeOK, Requestor_types DEF IInv, Use_types
<1>2. First(list, Len(list)) = Use_set(Job_requestor(j))
  BY <1>1, First_of_uses
<1>3. ASSUME NEW t \in Tasks, Starts_task(j, t, state, states, wq, enq)
      PROVE  \A l \in Locks : Holders_change(l)
  <2>1. Hold_locks(t, list, Len(list)) /\ Job_locks_are_available(j, wq)
    BY <1>3 DEF Starts_task
  <2>2. list = <<>> => Use_set(Job_requestor(j)) = {}
    BY <1>2, First_of_none
  <2>3. \A u \in Use_set(Job_requestor(j)) : file_based[Lock_of(u)].known
    BY <2>1, <2>2 DEF Job_locks_are_available, Locks_are_available, Locks_are_available_for_holder
  <2> HIDE DEF list
  <2> QED
    BY <1>1, <1>2, <2>1, <2>3, Hold_locks_changes
<1>4. CASE Starts_no_task(j, state, states, wq, enq)
  BY <1>4, Unchanged_holders DEF Starts_no_task
<1> QED
  BY <1>3, <1>4 DEF Try_start_tasks

LEMMA Api_call_changes ==
  ASSUME IInv, NEW t \in Tasks, Api_call(t)
  PROVE  \A l \in Locks : Holders_change(l)
<1>1. ASSUME NEW l \in Locks, NEW mode, Try_hold_lock(t, l, mode)
      PROVE  \A k \in Locks : Holders_change(k)
  <2>1. PICK u : u = <<Level(t), l, mode>>
    OBVIOUS
  <2>2. \/ file_based[l].known /\ Hold_locks(t, <<u>>, 1)
        \/ UNCHANGED <<holder_map, file_based>>
    BY <1>1, <2>1 DEF Try_hold_lock
  <2>3. First(<<u>>, 1) = {u}
    BY DEF First
  <2>4. Lock_of(u) = l
    BY <2>1 DEF Lock_of
  <2>5. Holder_types
    BY Parts_of_TypeOK DEF IInv
  <2> QED
    BY <2>2, <2>3, <2>4, <2>5, Hold_locks_changes, Unchanged_holders
<1>2. CASE Delay_until_locks_available(t)
  BY <1>2, Unchanged_holders DEF Delay_until_locks_available, lock_vars
<1> QED
  BY <1>1, <1>2 DEF Api_call

LEMMA Operation_changes ==
  ASSUME IInv, NEW t \in Tasks, Operation_completed(t)
  PROVE  \A l \in Locks : Holders_change(l)
<1>1. use_list \in [Requestors -> Seq(Uses)] /\ Process_api(t) \in Requestors
  BY Parts_of_TypeOK, Requestor_types DEF IInv, Use_types
<1>2. ASSUME NEW result, Starting_completed(t, result) \/ Opening_completed(t, result)
      PROVE  \A l \in Locks : Holders_change(l)
  BY <1>2, Unchanged_holders DEF Starting_completed, Opening_completed, lock_vars
<1>3. ASSUME NEW result, Step_completed(t, result)
      PROVE  \A l \in Locks : Holders_change(l)
  <2>1. Release_locks(holder_map, lock_mode, t, use_list[Process_api(t)])
    BY <1>3 DEF Step_completed
  <2> QED
    BY <1>1, <2>1, Plain_release_changes
<1>4. CASE Ending_completed(t)
  <2>1. PICK o \in Requestor_orders(t) :
          Release_locks(holder_map, lock_mode, t, use_list[o[1]] \o use_list[o[2]] \o use_list[o[3]])
    BY <1>4 DEF Ending_completed
  <2>2. o[1] \in Requestors /\ o[2] \in Requestors /\ o[3] \in Requestors
    <3>1. {Job_requestor(Job_of[t]), Task_api(t), Process_api(t)} \subseteq Requestors
      BY TaskAssumption, Requestor_types
    <3> QED
      BY <3>1 DEF Requestor_orders
  <2>3. use_list[o[1]] \o use_list[o[2]] \o use_list[o[3]] \in Seq(Uses)
    BY <1>1, <2>2, ConcatProperties
  <2> QED
    BY <2>1, <2>3, Plain_release_changes
<1> QED
  BY <1>2, <1>3, <1>4 DEF Operation_completed

-----------------------------------------------------------------------------
(* The queues.                                                             *)

In_queue(queue, u) == \E i \in DOMAIN queue : queue[i] = u
Is_distinct(queue) == \A i, k \in DOMAIN queue : queue[i] = queue[k] => i = k

Own_uses == [r \in Requestors |-> Use_set(r)]

(* The queues wq are sound when enq tells who has entered them and uses    *)
(* what the requestors use.                                                *)
Is_sound(wq, enq, uses) ==
  \A l \in Locks, m \in Modes :
    /\ Is_distinct(wq[l][m])
    /\ \A u \in Uses : In_queue(wq[l][m], u) =>
         /\ u = <<Requestor_of(u), l, m>>
         /\ u \in uses[Requestor_of(u)]
         /\ enq[Requestor_of(u)]

Nobody_waits_in_vain(wq) == \A l \in Locks : ~file_based[l].known => wq[l] = Empty_queues

Queues_right(wq, enq) ==
  /\ wq \in Queues
  /\ enq \in [Requestors -> BOOLEAN]
  /\ Is_sound(wq, enq, Own_uses)
  /\ Nobody_waits_in_vain(wq)

(* A task waits in the queues of a level only in the waiting state of this *)
(* level, until it takes the locks, or for the rest of its life when it    *)
(* has ended while it waited.                                              *)
Waits_in_time(t) ==
  /\ task_state[t] \in Waiting => ~operation[t]
  /\ is_enqueued[Task_api(t)] =>
       \/ task_state[t] \in {"opening_waiting_for_locks", "ending", "closed"}
       \/ task_state[t] = "opening" /\ ~operation[t]
  /\ is_enqueued[Process_api(t)] =>
       \/ task_state[t] \in {"running_waiting_for_locks", "ending", "closed"}
       \/ task_state[t] = "running" /\ ~operation[t]

Queue_invariant ==
  /\ Lock_invariants
  /\ Queues_right(waiting_queues, is_enqueued)
  /\ \A t \in Tasks : Waits_in_time(t)

(* dequeue_lock_use erases the one entry of a use: the others keep their   *)
(* order.                                                                  *)
LEMMA Without_positions ==
  ASSUME NEW queue \in Seq(Uses), NEW u, In_queue(queue, u)
  PROVE  \E n \in 1 .. Len(queue) :
           /\ queue[n] = u
           /\ Len(Without(queue, u)) = Len(queue) - 1
           /\ \A i \in 1 .. Len(queue) - 1 :
                Without(queue, u)[i] = queue[IF i < n THEN i ELSE i + 1]
<1> DEFINE P(i) == queue[i] = u /\ \A k \in 1 .. i - 1 : queue[k] # u
           n == CHOOSE i \in DOMAIN queue : P(i)
           S == {k \in DOMAIN queue : queue[k] = u}
           s == SubSeq(queue, 1, n - 1)
           q == SubSeq(queue, n + 1, Len(queue))
<1>1. S \subseteq Nat /\ S # {} /\ DOMAIN queue = 1 .. Len(queue) /\ Len(queue) \in Nat
  BY LenProperties DEF In_queue
<1>2. PICK m \in S : \A k \in S : m <= k
  <2> HIDE DEF S
  <2> QED
    BY <1>1, First_position
<1>3. m \in DOMAIN queue /\ P(m)
  BY <1>1, <1>2
<1>4. n \in DOMAIN queue /\ P(n)
  <2> HIDE DEF P
  <2> QED
    BY <1>3
<1>5. n \in 1 .. Len(queue) /\ queue[n] = u
  BY <1>1, <1>4
<1>6. Without(queue, u) = s \o q
  BY DEF Without, In_queue
<1> HIDE DEF n, P
<1>7. \A i \in 1 .. Len(queue) : queue[i] \in Uses
  BY ElementOfSeq
<1>8. /\ s \in Seq(Uses) /\ Len(s) = n - 1
      /\ \A i \in 1 .. n - 1 : s[i] = queue[i]
  BY <1>1, <1>5, <1>7, SubSeqProperties
<1>9. /\ q \in Seq(Uses) /\ Len(q) = Len(queue) - n
      /\ \A i \in 1 .. Len(queue) - n : q[i] = queue[n + i]
  <2>1. \A i \in n + 1 .. Len(queue) : queue[i] \in Uses
    BY <1>1, <1>5, <1>7
  <2>2. /\ q \in Seq(Uses)
        /\ Len(q) = (IF n + 1 <= Len(queue) THEN Len(queue) - (n + 1) + 1 ELSE 0)
        /\ \A i \in 1 .. Len(queue) - (n + 1) + 1 : q[i] = queue[n + 1 + i - 1]
    BY <1>1, <1>5, <2>1, SubSeqProperties
  <2> HIDE DEF q
  <2>3. Len(q) = Len(queue) - n
    <3>1. Len(queue) \in Nat /\ n \in Nat /\ n <= Len(queue)
      BY <1>1, <1>5
    <3>2. CASE n + 1 <= Len(queue)
      BY <2>2, <3>1, <3>2
    <3>3. CASE n = Len(queue)
      BY <2>2, <3>1, <3>3
    <3> QED
      BY <3>1, <3>2, <3>3
  <2>4. ASSUME NEW i \in 1 .. Len(queue) - n PROVE q[i] = queue[n + i]
    <3>1. i \in 1 .. Len(queue) - (n + 1) + 1 /\ n + 1 + i - 1 = n + i
      BY <1>1, <1>5
    <3> QED
      BY <2>2, <3>1
  <2> QED
    BY <2>2, <2>3, <2>4
<1> HIDE DEF s, q
<1>10. /\ Len(s \o q) = Len(s) + Len(q)
       /\ \A i \in 1 .. Len(s) + Len(q) :
            (s \o q)[i] = IF i <= Len(s) THEN s[i] ELSE q[i - Len(s)]
  BY <1>8, <1>9, ConcatProperties
<1>11. Len(s) + Len(q) = Len(queue) - 1
  BY <1>1, <1>5, <1>8, <1>9
<1>12. ASSUME NEW i \in 1 .. Len(queue) - 1
       PROVE  (s \o q)[i] = queue[IF i < n THEN i ELSE i + 1]
  <2>1. CASE i < n
    BY <1>1, <1>5, <1>8, <1>10, <1>11, <2>1
  <2>2. CASE ~(i < n)
    <3>1. i - Len(s) \in 1 .. Len(queue) - n /\ n + (i - Len(s)) = i + 1
      BY <1>1, <1>5, <1>8, <2>2
    <3>2. (s \o q)[i] = q[i - Len(s)]
      <4>1. i \in 1 .. Len(s) + Len(q)
        BY <1>11
      <4>2. ~(i <= Len(s))
        BY <1>1, <1>5, <1>8, <2>2
      <4> QED BY <1>10, <4>1, <4>2
    <3>3. q[i - Len(s)] = queue[n + (i - Len(s))]
      BY <1>9, <3>1
    <3> QED
      BY <2>2, <3>1, <3>2, <3>3
  <2> QED
    BY <2>1, <2>2
<1> QED
  BY <1>5, <1>6, <1>10, <1>11, <1>12

LEMMA Without_use ==
  ASSUME NEW queue \in Seq(Uses), Is_distinct(queue), NEW u
  PROVE  /\ Is_distinct(Without(queue, u))
         /\ \A v : In_queue(Without(queue, u), v) <=> In_queue(queue, v) /\ v # u
<1>1. CASE ~In_queue(queue, u)
  <2>1. Without(queue, u) = queue
    BY <1>1 DEF Without, In_queue
  <2> QED
    BY <1>1, <2>1
<1>2. CASE In_queue(queue, u)
  <2> DEFINE q == Without(queue, u)
  <2>1. /\ DOMAIN queue = 1 .. Len(queue) /\ Len(queue) \in Nat
        /\ q \in Seq(Uses) /\ DOMAIN q = 1 .. Len(q)
    BY Without_type, LenProperties
  <2>2. PICK n \in 1 .. Len(queue) :
          /\ queue[n] = u
          /\ Len(q) = Len(queue) - 1
          /\ \A i \in 1 .. Len(queue) - 1 : q[i] = queue[IF i < n THEN i ELSE i + 1]
    BY <1>2, Without_positions
  <2> HIDE DEF q
  <2>3. \A i \in DOMAIN q : /\ (IF i < n THEN i ELSE i + 1) \in DOMAIN queue \ {n}
                            /\ q[i] = queue[IF i < n THEN i ELSE i + 1]
    BY <2>1, <2>2
  <2>4. Is_distinct(q)
    <3> SUFFICES ASSUME NEW i \in DOMAIN q, NEW k \in DOMAIN q, q[i] = q[k]
                 PROVE  i = k
      BY DEF Is_distinct
    <3>1. (IF i < n THEN i ELSE i + 1) = (IF k < n THEN k ELSE k + 1)
      BY <2>3 DEF Is_distinct
    <3>2. i \in Nat /\ k \in Nat /\ n \in Nat
      BY <2>1, <2>2
    <3> QED
      BY <3>1, <3>2
  <2>5. ASSUME NEW v, In_queue(q, v) PROVE In_queue(queue, v) /\ v # u
    <3>1. PICK i \in DOMAIN q : q[i] = v
      BY <2>5 DEF In_queue
    <3>2. (IF i < n THEN i ELSE i + 1) \in DOMAIN queue /\ (IF i < n THEN i ELSE i + 1) # n
      BY <2>3
    <3>3. n \in DOMAIN queue
      BY <2>1
    <3> QED
      BY <2>2, <2>3, <3>1, <3>2, <3>3 DEF In_queue, Is_distinct
  <2>6. ASSUME NEW v, In_queue(queue, v), v # u PROVE In_queue(q, v)
    <3>1. PICK k \in DOMAIN queue : queue[k] = v
      BY <2>6 DEF In_queue
    <3>2. k # n
      BY <2>2, <2>6, <3>1
    <3>3. CASE k < n
      <4>1. k \in DOMAIN q /\ k \in 1 .. Len(queue) - 1
        BY <2>1, <2>2, <3>3
      <4>2. q[k] = queue[k]
        BY <2>2, <3>3, <4>1
      <4> QED
        BY <3>1, <4>1, <4>2 DEF In_queue
    <3>4. CASE ~(k < n)
      <4>1. k - 1 \in DOMAIN q /\ k - 1 \in 1 .. Len(queue) - 1 /\ ~(k - 1 < n) /\ (k - 1) + 1 = k
        BY <2>1, <2>2, <3>2, <3>4
      <4>2. q[k - 1] = queue[k]
        BY <2>2, <4>1
      <4> QED
        BY <3>1, <4>1, <4>2 DEF In_queue
    <3> QED
      BY <3>3, <3>4
  <2> QED
    BY <2>4, <2>5, <2>6 DEF q
<1> QED
  BY <1>1, <1>2

(* enqueue_lock_requests puts a use at the end that is not yet there.      *)
LEMMA Append_use ==
  ASSUME NEW queue \in Seq(Uses), Is_distinct(queue), NEW u \in Uses, ~In_queue(queue, u)
  PROVE  /\ Is_distinct(Append(queue, u))
         /\ \A v : In_queue(Append(queue, u), v) <=> In_queue(queue, v) \/ v = u
<1> DEFINE q == Append(queue, u)
<1>1. /\ q \in Seq(Uses) /\ Len(q) = Len(queue) + 1
      /\ \A i \in 1 .. Len(queue) : q[i] = queue[i]
      /\ q[Len(queue) + 1] = u
  BY AppendProperties
<1> HIDE DEF q
<1>2. /\ DOMAIN queue = 1 .. Len(queue) /\ Len(queue) \in Nat
      /\ DOMAIN q = 1 .. Len(queue) + 1
  BY <1>1, LenProperties
<1>3. Is_distinct(q)
  BY <1>1, <1>2 DEF Is_distinct, In_queue
<1>4. \A v : In_queue(q, v) <=> In_queue(queue, v) \/ v = u
  BY <1>1, <1>2 DEF In_queue
<1> QED
  BY <1>3, <1>4 DEF q

-----------------------------------------------------------------------------
(* Leaving and entering the queues.                                        *)

LEMMA Use_of_requestor ==
  ASSUME NEW u \in Uses
  PROVE  Requestor_of(u) \in Requestors /\ Lock_of(u) \in Locks
BY DEF Uses, Requestor_of, Lock_of

LEMMA Nothing_in_empty_queues ==
  /\ \A l, u : Without(<<>>, u) = <<>>
  /\ \A u : ~In_queue(<<>>, u)
  /\ Is_distinct(<<>>)
<1>1. DOMAIN <<>> = {}
  OBVIOUS
<1> QED
  BY <1>1 DEF Without, In_queue, Is_distinct

(* Whoever has not entered the queues is in none of them.                  *)
LEMMA Not_in_the_queues ==
  ASSUME NEW wq, NEW enq, NEW uses, Is_sound(wq, enq, uses), NEW r, ~enq[r]
  PROVE  \A l \in Locks, m \in Modes : \A u \in Uses :
           In_queue(wq[l][m], u) => Requestor_of(u) # r
BY DEF Is_sound

(* dequeue_lock_requests of r, whether or not it has entered the queues.   *)
LEMMA Dequeued_right ==
  ASSUME NEW wq, NEW enq, Queues_right(wq, enq), NEW r \in Requestors,
         NEW next_enq \in [Requestors -> BOOLEAN],
         \A q \in Requestors \ {r} : enq[q] => next_enq[q]
  PROVE  Queues_right(Dequeued(wq, r), next_enq)
<1>1. wq \in Queues /\ Is_sound(wq, enq, Own_uses) /\ Nobody_waits_in_vain(wq)
  BY DEF Queues_right
<1>2. Dequeued(wq, r) \in Queues
  BY <1>1, Dequeued_type
<1>3. \A l \in Locks, m \in Modes : /\ Dequeued(wq, r)[l][m] = Without(wq[l][m], <<r, l, m>>)
                                    /\ wq[l][m] \in Seq(Uses)
  BY <1>1 DEF Dequeued, Queues
<1>4. Is_sound(Dequeued(wq, r), next_enq, Own_uses)
  <2> SUFFICES ASSUME NEW l \in Locks, NEW m \in Modes
               PROVE  /\ Is_distinct(Dequeued(wq, r)[l][m])
                      /\ \A u \in Uses : In_queue(Dequeued(wq, r)[l][m], u) =>
                           /\ u = <<Requestor_of(u), l, m>>
                           /\ u \in Own_uses[Requestor_of(u)]
                           /\ next_enq[Requestor_of(u)]
    BY DEF Is_sound
  <2>1. /\ Is_distinct(wq[l][m])
        /\ \A u \in Uses : In_queue(wq[l][m], u) =>
             /\ u = <<Requestor_of(u), l, m>>
             /\ u \in Own_uses[Requestor_of(u)]
             /\ enq[Requestor_of(u)]
    BY <1>1 DEF Is_sound
  <2>2. /\ Is_distinct(Dequeued(wq, r)[l][m])
        /\ \A u : In_queue(Dequeued(wq, r)[l][m], u) => In_queue(wq[l][m], u) /\ u # <<r, l, m>>
    <3>0. PICK v : v = <<r, l, m>>
      OBVIOUS
    <3>1. PICK queue \in Seq(Uses) : queue = wq[l][m]
      BY <1>3
    <3>2. /\ Is_distinct(Without(queue, v))
          /\ \A u : In_queue(Without(queue, v), u) <=> In_queue(queue, u) /\ u # v
      BY <2>1, <3>1, Without_use
    <3>3. Dequeued(wq, r)[l][m] = Without(queue, v)
      BY <1>3, <3>0, <3>1
    <3> QED
      BY <3>0, <3>1, <3>2, <3>3
  <2>3. ASSUME NEW u \in Uses, In_queue(Dequeued(wq, r)[l][m], u)
        PROVE  /\ u = <<Requestor_of(u), l, m>>
               /\ u \in Own_uses[Requestor_of(u)]
               /\ next_enq[Requestor_of(u)]
    <3>1. In_queue(wq[l][m], u) /\ u # <<r, l, m>>
      BY <2>2, <2>3
    <3>2. u = <<Requestor_of(u), l, m>> /\ u \in Own_uses[Requestor_of(u)] /\ enq[Requestor_of(u)]
      BY <2>1, <3>1
    <3>3. Requestor_of(u) \in Requestors \ {r}
      BY <3>1, <3>2, Use_of_requestor
    <3> QED
      BY <3>2, <3>3
  <2> QED
    BY <2>2, <2>3
<1>5. Nobody_waits_in_vain(Dequeued(wq, r))
  <2> SUFFICES ASSUME NEW l \in Locks, wq[l] = Empty_queues
               PROVE  Dequeued(wq, r)[l] = Empty_queues
    BY <1>1 DEF Nobody_waits_in_vain
  <2>1. \A m \in Modes : Without(wq[l][m], <<r, l, m>>) = <<>>
    BY Nothing_in_empty_queues DEF Empty_queues
  <2> QED
    BY <2>1 DEF Dequeued, Empty_queues
<1> QED
  BY <1>2, <1>4, <1>5 DEF Queues_right

(* enqueue_lock_requests of r, which is not in the queues and whose locks  *)
(* are known.                                                              *)
LEMMA Enqueued_right ==
  ASSUME NEW wq, NEW enq, Queues_right(wq, enq), Use_types, NEW r \in Requestors, ~enq[r],
         NEW W, W \subseteq Use_set(r), Locks_are_known(r),
         NEW next_enq \in [Requestors -> BOOLEAN], next_enq[r],
         \A q \in Requestors : enq[q] => next_enq[q]
  PROVE  Queues_right(Enqueued(wq, r, W), next_enq)
<1>1. wq \in Queues /\ Is_sound(wq, enq, Own_uses) /\ Nobody_waits_in_vain(wq)
  BY DEF Queues_right
<1>2. W \in SUBSET Uses
  BY Use_set_type
<1>3. Enqueued(wq, r, W) \in Queues
  BY <1>1, <1>2, Enqueued_type
<1>4. \A l \in Locks, m \in Modes :
        /\ Enqueued(wq, r, W)[l][m] =
             IF <<r, l, m>> \in W THEN Append(wq[l][m], <<r, l, m>>) ELSE wq[l][m]
        /\ wq[l][m] \in Seq(Uses)
  BY <1>1 DEF Enqueued, Queues
<1>5. \A l, m : Requestor_of(<<r, l, m>>) = r /\ Lock_of(<<r, l, m>>) = l
  BY DEF Requestor_of, Lock_of
<1>6. Is_sound(Enqueued(wq, r, W), next_enq, Own_uses)
  <2> SUFFICES ASSUME NEW l \in Locks, NEW m \in Modes
               PROVE  /\ Is_distinct(Enqueued(wq, r, W)[l][m])
                      /\ \A u \in Uses : In_queue(Enqueued(wq, r, W)[l][m], u) =>
                           /\ u = <<Requestor_of(u), l, m>>
                           /\ u \in Own_uses[Requestor_of(u)]
                           /\ next_enq[Requestor_of(u)]
    BY DEF Is_sound
  <2>1. /\ Is_distinct(wq[l][m])
        /\ \A u \in Uses : In_queue(wq[l][m], u) =>
             /\ u = <<Requestor_of(u), l, m>>
             /\ u \in Own_uses[Requestor_of(u)]
             /\ enq[Requestor_of(u)]
    BY <1>1 DEF Is_sound
  <2>2. \A u \in Uses : In_queue(wq[l][m], u) => next_enq[Requestor_of(u)]
    BY <2>1, Use_of_requestor
  <2>3. CASE <<r, l, m>> \notin W
    BY <1>4, <2>1, <2>2, <2>3
  <2>4. CASE <<r, l, m>> \in W
    <3>1. PICK v : v = <<r, l, m>>
      OBVIOUS
    <3>2. v \in Uses /\ Requestor_of(v) = r /\ v \in Use_set(r) /\ ~In_queue(wq[l][m], v)
      BY <1>2, <1>5, <2>1, <2>4, <3>1
    <3>3. /\ Is_distinct(Append(wq[l][m], v))
          /\ \A u : In_queue(Append(wq[l][m], v), u) <=> In_queue(wq[l][m], u) \/ u = v
      BY <1>4, <2>1, <3>2, Append_use
    <3>4. Enqueued(wq, r, W)[l][m] = Append(wq[l][m], v)
      BY <1>4, <2>4, <3>1
    <3>5. Own_uses[r] = Use_set(r)
      BY DEF Own_uses
    <3>6. v = <<Requestor_of(v), l, m>> /\ v \in Own_uses[Requestor_of(v)] /\ next_enq[Requestor_of(v)]
      BY <3>1, <3>2, <3>5
    <3> QED
      BY <2>1, <2>2, <3>3, <3>4, <3>6
  <2> QED
    BY <2>3, <2>4
<1>7. Nobody_waits_in_vain(Enqueued(wq, r, W))
  <2> SUFFICES ASSUME NEW l \in Locks, ~file_based[l].known
               PROVE  Enqueued(wq, r, W)[l] = Empty_queues
    BY DEF Nobody_waits_in_vain
  <2>1. \A m \in Modes : <<r, l, m>> \notin W
    BY <1>5 DEF Locks_are_known
  <2>2. wq[l] = Empty_queues
    BY <1>1 DEF Nobody_waits_in_vain
  <2> QED
    BY <2>1, <2>2 DEF Enqueued, Empty_queues
<1> QED
  BY <1>3, <1>6, <1>7 DEF Queues_right

(* The flags may stay while requests leave.                                *)
LEMMA Dequeue_lock_requests_right ==
  ASSUME Queues_right(waiting_queues, is_enqueued), NEW r \in Requestors, Dequeue_lock_requests(r)
  PROVE  /\ Queues_right(waiting_queues', is_enqueued')
         /\ ~is_enqueued'[r]
         /\ \A q \in Requestors \ {r} : is_enqueued'[q] = is_enqueued[q]
<1>1. is_enqueued \in [Requestors -> BOOLEAN]
  BY DEF Queues_right
<1>2. CASE ~is_enqueued[r]
  BY <1>2 DEF Dequeue_lock_requests
<1>3. CASE is_enqueued[r]
  <2> DEFINE enq == [is_enqueued EXCEPT ![r] = FALSE]
  <2>1. waiting_queues' = Dequeued(waiting_queues, r) /\ is_enqueued' = enq
    BY <1>3 DEF Dequeue_lock_requests
  <2>2. /\ enq \in [Requestors -> BOOLEAN] /\ ~enq[r]
        /\ \A q \in Requestors \ {r} : enq[q] = is_enqueued[q]
    BY <1>1
  <2> HIDE DEF enq
  <2>3. Queues_right(Dequeued(waiting_queues, r), enq)
    BY <2>2, Dequeued_right
  <2> QED
    BY <2>1, <2>2, <2>3
<1> QED
  BY <1>2, <1>3

LEMMA Enqueue_lock_requests_right ==
  ASSUME Queues_right(waiting_queues, is_enqueued), Use_types, NEW r \in Requestors,
         ~is_enqueued[r], NEW W, Enqueue_lock_requests(r, W)
  PROVE  /\ Queues_right(waiting_queues', is_enqueued')
         /\ \A q \in Requestors \ {r} : is_enqueued'[q] = is_enqueued[q]
<1>1. is_enqueued \in [Requestors -> BOOLEAN]
  BY DEF Queues_right
<1>2. CASE ~Locks_are_known(r)
  BY <1>2 DEF Enqueue_lock_requests
<1>3. CASE Locks_are_known(r)
  <2> DEFINE enq == [is_enqueued EXCEPT ![r] = TRUE]
  <2>1. waiting_queues' = Enqueued(waiting_queues, r, Use_set(r) \ W) /\ is_enqueued' = enq
    BY <1>3 DEF Enqueue_lock_requests
  <2>2. /\ enq \in [Requestors -> BOOLEAN] /\ enq[r]
        /\ \A q \in Requestors \ {r} : enq[q] = is_enqueued[q]
        /\ \A q \in Requestors : is_enqueued[q] => enq[q]
    BY <1>1
  <2> HIDE DEF enq
  <2>3. Queues_right(Enqueued(waiting_queues, r, Use_set(r) \ W), enq)
    BY <1>3, <2>2, Enqueued_right
  <2> QED
    BY <2>1, <2>2, <2>3
<1> QED
  BY <1>2, <1>3

-----------------------------------------------------------------------------
(* Steps in which the queues stay right: nobody leaves the queues who      *)
(* still waits, nobody enters them twice, and no list loses a use that     *)
(* waits.                                                                  *)

Queue_step ==
  /\ Queues_right(waiting_queues', is_enqueued')
  /\ \A t \in Tasks : Waits_in_time(t)'
  /\ \A r \in Requestors : is_enqueued'[r] => Use_set(r) \subseteq Use_set(r)'

Step_begins == IInv /\ Queue_invariant

LEMMA Parts_of_begin ==
  ASSUME Step_begins
  PROVE  /\ TypeOK /\ State_types /\ Use_types /\ Lists_right
         /\ task_state \in [Tasks -> Task_states] /\ operation \in [Tasks -> BOOLEAN]
         /\ is_enqueued \in [Requestors -> BOOLEAN]
         /\ Queues_right(waiting_queues, is_enqueued)
         /\ \A t \in Tasks : Waits_in_time(t)
BY Parts_of_TypeOK DEF Step_begins, IInv, Queue_invariant, Lists_right, State_types, Queues_right

(* A task that is notified or left alone waits in time.                    *)
Stays_or_wakes(t) ==
  \/ task_state'[t] = task_state[t]
  \/ task_state[t] = "opening_waiting_for_locks" /\ task_state'[t] = "opening"
  \/ task_state[t] = "running_waiting_for_locks" /\ task_state'[t] = "running"

LEMMA Notified_tasks_stay_or_wake ==
  ASSUME NEW R, NEW t \in Tasks, task_state'[t] = Notified_task_states(R)[t]
  PROVE  Stays_or_wakes(t)
BY DEF Stays_or_wakes, Notified_task_states, Is_notified, Waiting

LEMMA Others_wait_in_time ==
  ASSUME NEW t \in Tasks, Waits_in_time(t), Stays_or_wakes(t), operation'[t] = operation[t],
         is_enqueued'[Task_api(t)] => is_enqueued[Task_api(t)],
         is_enqueued'[Process_api(t)] => is_enqueued[Process_api(t)]
  PROVE  Waits_in_time(t)'
BY DEF Waits_in_time, Stays_or_wakes, Waiting

(* Steps that leave queues and lists alone.                                *)
LEMMA Queues_left_alone ==
  ASSUME Step_begins, UNCHANGED <<waiting_queues, is_enqueued, use_list>>,
         \A t \in Tasks : Waits_in_time(t)'
  PROVE  Queue_step
<1>1. \A r \in Requestors : Use_set(r)' = Use_set(r)
  BY DEF Use_set
<1> QED
  BY <1>1, Parts_of_begin DEF Queue_step

LEMMA Nothing_happens_to_tasks ==
  ASSUME Step_begins, UNCHANGED <<waiting_queues, is_enqueued, use_list, operation>>,
         \A t \in Tasks : Stays_or_wakes(t)
  PROVE  Queue_step
<1>1. \A t \in Tasks : Waits_in_time(t)'
  BY Parts_of_begin, Others_wait_in_time
<1> QED
  BY <1>1, Queues_left_alone

(* try_start_tasks only moves the requests of the job.                     *)
LEMMA Try_start_tasks_queues ==
  ASSUME TypeOK, NEW j \in Jobs, NEW state, NEW states, NEW wq, NEW enq,
         Queues_right(wq, enq), Try_start_tasks(j, state, states, wq, enq)
  PROVE  /\ Queues_right(waiting_queues', is_enqueued')
         /\ \A q \in Requestors \ {Job_requestor(j)} : is_enqueued'[q] = enq[q]
<1>1. PICK r \in Requestors : r = Job_requestor(j)
  BY Requestor_types
<1>2. enq \in [Requestors -> BOOLEAN] /\ Use_types
  BY Parts_of_TypeOK DEF Queues_right
<1>3. ASSUME NEW b \in BOOLEAN, is_enqueued' = [enq EXCEPT ![r] = b]
      PROVE  /\ is_enqueued' \in [Requestors -> BOOLEAN] /\ is_enqueued'[r] = b
             /\ \A q \in Requestors \ {r} : is_enqueued'[q] = enq[q]
  BY <1>2, <1>3
<1>4. ASSUME is_enqueued' = [enq EXCEPT ![r] = FALSE], ~enq[r], waiting_queues' = wq
      PROVE  /\ Queues_right(waiting_queues', is_enqueued')
             /\ \A q \in Requestors \ {r} : is_enqueued'[q] = enq[q]
  <2>1. is_enqueued' = enq
    BY <1>2, <1>4
  <2> QED
    BY <1>4, <2>1
<1>5. ASSUME is_enqueued' = [enq EXCEPT ![r] = FALSE], waiting_queues' = Dequeued(wq, r)
      PROVE  /\ Queues_right(waiting_queues', is_enqueued')
             /\ \A q \in Requestors \ {r} : is_enqueued'[q] = enq[q]
  <2>1. /\ is_enqueued' \in [Requestors -> BOOLEAN]
        /\ \A q \in Requestors \ {r} : is_enqueued'[q] = enq[q]
    BY <1>3, <1>5
  <2> QED
    BY <1>5, <2>1, Dequeued_right
<1>6. ASSUME is_enqueued' = [enq EXCEPT ![r] = TRUE], ~enq[r], Locks_are_known(r),
             waiting_queues' = Enqueued(wq, r, Use_set(r))
      PROVE  /\ Queues_right(waiting_queues', is_enqueued')
             /\ \A q \in Requestors \ {r} : is_enqueued'[q] = enq[q]
  <2>1. /\ is_enqueued' \in [Requestors -> BOOLEAN] /\ is_enqueued'[r]
        /\ \A q \in Requestors \ {r} : is_enqueued'[q] = enq[q]
        /\ \A q \in Requestors : enq[q] => is_enqueued'[q]
    BY <1>3, <1>6
  <2> QED
    BY <1>2, <1>6, <2>1, Enqueued_right
<1>7. ASSUME is_enqueued' = [enq EXCEPT ![r] = enq[r]], waiting_queues' = wq
      PROVE  /\ Queues_right(waiting_queues', is_enqueued')
             /\ \A q \in Requestors \ {r} : is_enqueued'[q] = enq[q]
  <2>1. is_enqueued' = enq
    BY <1>2, <1>7
  <2> QED
    BY <1>7, <2>1
<1>8. ASSUME NEW t \in Tasks, Starts_task(j, t, state, states, wq, enq)
      PROVE  /\ Queues_right(waiting_queues', is_enqueued')
             /\ \A q \in Requestors \ {r} : is_enqueued'[q] = enq[q]
  <2>1. /\ waiting_queues' = IF enq[r] THEN Dequeued(wq, r) ELSE wq
        /\ is_enqueued' = [enq EXCEPT ![r] = FALSE]
    BY <1>1, <1>8 DEF Starts_task
  <2> QED
    BY <1>4, <1>5, <2>1
<1>9. ASSUME Starts_no_task(j, state, states, wq, enq)
      PROVE  /\ Queues_right(waiting_queues', is_enqueued')
             /\ \A q \in Requestors \ {r} : is_enqueued'[q] = enq[q]
  <2> DEFINE enters == /\ queued[j] /\ May_start_task(j, state, states)
                       /\ ~Job_locks_are_available(j, wq) /\ ~enq[r] /\ Locks_are_known(r)
             leaves == enq[r] /\ Job_locks_are_available(j, wq)
  <2>1. /\ waiting_queues' = IF enters THEN Enqueued(wq, r, Use_set(r))
                             ELSE IF leaves THEN Dequeued(wq, r) ELSE wq
        /\ is_enqueued' = [enq EXCEPT ![r] = enters \/ (enq[r] /\ ~leaves)]
    BY <1>1, <1>9 DEF Starts_no_task
  <2>2. enters => ~enq[r] /\ Locks_are_known(r)
    OBVIOUS
  <2>3. leaves => enq[r]
    OBVIOUS
  <2>4. enters \in BOOLEAN /\ leaves \in BOOLEAN /\ enq[r] \in BOOLEAN
    BY <1>2
  <2> HIDE DEF enters, leaves
  <2>5. CASE enters
    <3>1. (enters \/ (enq[r] /\ ~leaves)) = TRUE
      BY <2>5
    <3> QED
      BY <1>6, <2>1, <2>2, <2>5, <3>1
  <2>6. CASE ~enters /\ leaves
    <3>1. (enters \/ (enq[r] /\ ~leaves)) = FALSE
      BY <2>6
    <3> QED
      BY <1>5, <2>1, <2>6, <3>1
  <2>7. CASE ~enters /\ ~leaves
    <3>1. (enters \/ (enq[r] /\ ~leaves)) = enq[r]
      BY <2>4, <2>7
    <3> QED
      BY <1>7, <2>1, <2>7, <3>1
  <2> QED
    BY <2>5, <2>6, <2>7
<1> QED
  BY <1>1, <1>8, <1>9 DEF Try_start_tasks

(* set_state withdraws the requests of the job, or leaves the queues alone. *)
LEMMA Set_state_queues ==
  ASSUME NEW wq, NEW enq, Queues_right(wq, enq), NEW j \in Jobs, NEW state
  PROVE  /\ Queues_right(Queues_after_set_state(j, state, wq, enq), Enqueued_after_set_state(j, state, enq))
         /\ \A q \in Requestors \ {Job_requestor(j)} :
              Enqueued_after_set_state(j, state, enq)[q] = enq[q]
<1>1. PICK r \in Requestors : r = Job_requestor(j)
  BY Requestor_types
<1>2. enq \in [Requestors -> BOOLEAN]
  BY DEF Queues_right
<1> DEFINE after == Enqueued_after_set_state(j, state, enq)
<1>3. after = [enq EXCEPT ![r] = enq[r] /\ state = job_state[j]]
  BY <1>1 DEF Enqueued_after_set_state
<1> HIDE DEF after
<1>4. /\ after \in [Requestors -> BOOLEAN]
      /\ \A q \in Requestors \ {r} : after[q] = enq[q]
  BY <1>2, <1>3
<1>5. CASE state # job_state[j] /\ enq[r]
  <2>1. Queues_right(Dequeued(wq, r), after)
    BY <1>4, Dequeued_right
  <2> QED
    BY <1>1, <1>4, <1>5, <2>1 DEF Queues_after_set_state, after
<1>6. CASE ~(state # job_state[j] /\ enq[r])
  <2>1. after = enq
    <3>1. (enq[r] /\ state = job_state[j]) = enq[r]
      BY <1>2, <1>6
    <3> QED
      BY <1>2, <1>3, <3>1
  <2> QED
    BY <1>1, <1>6, <2>1 DEF Queues_after_set_state, after
<1> QED
  BY <1>5, <1>6

-----------------------------------------------------------------------------
(* The steps of jobs.                                                      *)

(* A task that starts waits for nothing, nor does one that has gone.       *)
LEMMA Try_start_tasks_waits ==
  ASSUME Step_begins, NEW j \in Jobs, NEW state, NEW states, NEW wq, NEW enq,
         Are_before_start(states), Try_start_tasks(j, state, states, wq, enq),
         \A t \in Tasks : /\ is_enqueued'[Task_api(t)] => is_enqueued[Task_api(t)]
                          /\ is_enqueued'[Process_api(t)] => is_enqueued[Process_api(t)],
         \A t \in Tasks : states[t] # task_state[t] =>
           ~is_enqueued'[Task_api(t)] /\ ~is_enqueued'[Process_api(t)]
  PROVE  \A t \in Tasks : Waits_in_time(t)'
<1>1. /\ states \in [Tasks -> Task_states] /\ operation \in [Tasks -> BOOLEAN]
      /\ \A t \in Tasks : Waits_in_time(t)
  BY Parts_of_begin DEF Are_before_start
<1>2. ASSUME NEW t \in Tasks, task_state'[t] = states[t], operation'[t] = operation[t]
      PROVE  Waits_in_time(t)'
  <2>1. CASE states[t] = task_state[t]
    BY <1>1, <1>2, <2>1, Others_wait_in_time DEF Stays_or_wakes
  <2>2. CASE states[t] # task_state[t]
    <3>1. task_state'[t] = "none"
      BY <1>2, <2>2 DEF Are_before_start
    <3> QED
      BY <2>2, <3>1 DEF Waits_in_time, Waiting
  <2> QED
    BY <2>1, <2>2
<1>3. ASSUME NEW t \in Tasks, states[t] = "none", task_state'[t] = "starting"
      PROVE  Waits_in_time(t)'
  <2>1. ~is_enqueued'[Task_api(t)] /\ ~is_enqueued'[Process_api(t)]
    BY <1>1, <1>3 DEF Waits_in_time
  <2> QED
    BY <1>3, <2>1 DEF Waits_in_time, Waiting
<1>4. ASSUME NEW g \in Tasks, Starts_task(j, g, state, states, wq, enq)
      PROVE  \A t \in Tasks : Waits_in_time(t)'
  <2>1. /\ states[g] = "none"
        /\ task_state' = [states EXCEPT ![g] = "starting"]
        /\ operation' = [operation EXCEPT ![g] = TRUE]
    BY <1>4 DEF Starts_task, Free_tasks
  <2>2. /\ task_state'[g] = "starting"
        /\ \A t \in Tasks \ {g} : task_state'[t] = states[t] /\ operation'[t] = operation[t]
    BY <1>1, <2>1
  <2> QED
    BY <1>2, <1>3, <2>1, <2>2
<1>5. CASE Starts_no_task(j, state, states, wq, enq)
  BY <1>2, <1>5 DEF Starts_no_task
<1> QED
  BY <1>4, <1>5 DEF Try_start_tasks

(* The requestors of tasks are not those of jobs.                          *)
LEMMA Requestors_of_others ==
  ASSUME NEW j, NEW t \in Tasks
  PROVE  /\ Task_api(t) \in Requestors \ {Job_requestor(j)}
         /\ Process_api(t) \in Requestors \ {Job_requestor(j)}
BY Requestor_types, Requestors_differ

(* unstop and the calls of the job.                                        *)
LEMMA Job_starts_queue_step ==
  ASSUME Step_begins, NEW j \in Jobs, NEW state, NEW wq, NEW enq,
         Queues_right(wq, enq),
         \A q \in Requestors \ {Job_requestor(j)} : enq[q] = is_enqueued[q],
         Try_start_tasks(j, state, task_state, wq, enq), UNCHANGED use_list
  PROVE  Queue_step
<1>1. /\ Queues_right(waiting_queues', is_enqueued')
      /\ \A q \in Requestors \ {Job_requestor(j)} : is_enqueued'[q] = enq[q]
  BY Parts_of_begin, Try_start_tasks_queues
<1>2. \A t \in Tasks : /\ is_enqueued'[Task_api(t)] = is_enqueued[Task_api(t)]
                       /\ is_enqueued'[Process_api(t)] = is_enqueued[Process_api(t)]
  BY <1>1, Requestors_of_others
<1>3. Are_before_start(task_state)
  BY Parts_of_begin DEF Are_before_start
<1>4. \A t \in Tasks : Waits_in_time(t)'
  BY <1>2, <1>3, Try_start_tasks_waits
<1>5. \A r \in Requestors : Use_set(r)' = Use_set(r)
  BY DEF Use_set
<1> QED
  BY <1>1, <1>4, <1>5 DEF Queue_step

LEMMA Job_queue_step ==
  ASSUME Step_begins, NEW j \in Jobs, Job_command(j) \/ \E name \in Job_calls : On_job_call(j, name)
  PROVE  Queue_step
<1>1. /\ Queues_right(waiting_queues, is_enqueued)
      /\ \A t \in Tasks : Waits_in_time(t)
  BY Parts_of_begin
<1>2. CASE Start_job(j)
  BY <1>2, Nothing_happens_to_tasks DEF Start_job, lock_vars, Stays_or_wakes
<1>3. CASE Stop_job(j)
  <2>1. PICK state : /\ waiting_queues' = Queues_after_set_state(j, state, waiting_queues, is_enqueued)
                     /\ is_enqueued' = Enqueued_after_set_state(j, state, is_enqueued)
    BY <1>3 DEF Stop_job
  <2>2. /\ Queues_right(waiting_queues', is_enqueued')
        /\ \A q \in Requestors \ {Job_requestor(j)} : is_enqueued'[q] = is_enqueued[q]
    BY <1>1, <2>1, Set_state_queues
  <2>3. UNCHANGED <<task_state, operation, use_list>>
    BY <1>3 DEF Stop_job
  <2>4. \A t \in Tasks : Waits_in_time(t)'
    BY <1>1, <2>2, <2>3, Requestors_of_others, Others_wait_in_time DEF Stays_or_wakes
  <2>5. \A r \in Requestors : Use_set(r)' = Use_set(r)
    BY <2>3 DEF Use_set
  <2> QED
    BY <2>2, <2>4, <2>5 DEF Queue_step
<1>4. CASE Unstop_job(j)
  <2>1. PICK wq, enq : /\ wq = Queues_after_set_state(j, "pending", waiting_queues, is_enqueued)
                       /\ enq = Enqueued_after_set_state(j, "pending", is_enqueued)
    OBVIOUS
  <2>2. Try_start_tasks(j, "pending", task_state, wq, enq) /\ UNCHANGED use_list
    BY <1>4, <2>1 DEF Unstop_job
  <2>3. /\ Queues_right(wq, enq)
        /\ \A q \in Requestors \ {Job_requestor(j)} : enq[q] = is_enqueued[q]
    BY <1>1, <2>1, Set_state_queues
  <2> QED
    BY <2>2, <2>3, Job_starts_queue_step
<1>5. ASSUME NEW name, On_job_call(j, name) PROVE Queue_step
  <2>1. Try_start_tasks(j, job_state[j], task_state, waiting_queues, is_enqueued) /\ UNCHANGED use_list
    BY <1>5 DEF On_job_call
  <2> QED
    BY <1>1, <2>1, Job_starts_queue_step
<1> QED
  BY <1>2, <1>3, <1>4, <1>5 DEF Job_command

(* Task_closed_call: the requests of a task go with its object, before its *)
(* lists do.                                                               *)
LEMMA On_task_closed_queue_step ==
  ASSUME Step_begins, NEW t \in Tasks, On_task_closed(t)
  PROVE  Queue_step
<1> DEFINE states == [task_state EXCEPT ![t] = "none"]
<1>1. PICK j \in Jobs : j = Job_of[t]
  BY TaskAssumption
<1>2. PICK a \in Requestors, p \in Requestors : a = Task_api(t) /\ p = Process_api(t)
  BY Requestor_types
<1>3. PICK enq : enq = [is_enqueued EXCEPT ![a] = FALSE, ![p] = FALSE]
  OBVIOUS
<1>4. PICK wq : wq = Dequeued(Dequeued(waiting_queues, a), p)
  OBVIOUS
<1>5. PICK state :
        Try_start_tasks(j, state, states, Queues_after_set_state(j, state, wq, enq),
                        Enqueued_after_set_state(j, state, enq))
  BY <1>1, <1>2, <1>3, <1>4 DEF On_task_closed
<1>6. is_enqueued \in [Requestors -> BOOLEAN] /\ Queues_right(waiting_queues, is_enqueued)
  BY Parts_of_begin
<1>7. /\ enq \in [Requestors -> BOOLEAN] /\ ~enq[a] /\ ~enq[p]
      /\ \A q \in Requestors \ {a, p} : enq[q] = is_enqueued[q]
  BY <1>3, <1>6
<1>8. Queues_right(wq, enq)
  <2>1. PICK one : one = [is_enqueued EXCEPT ![a] = FALSE]
    OBVIOUS
  <2>2. one \in [Requestors -> BOOLEAN] /\ \A q \in Requestors \ {a} : one[q] = is_enqueued[q]
    BY <1>6, <2>1
  <2>3. Queues_right(Dequeued(waiting_queues, a), one)
    BY <1>6, <2>2, Dequeued_right
  <2>4. \A q \in Requestors \ {p} : one[q] => enq[q]
    BY <1>6, <1>7, <2>1, <2>2
  <2> QED
    BY <1>4, <1>7, <2>3, <2>4, Dequeued_right
<1>9. /\ Queues_right(waiting_queues', is_enqueued')
      /\ \A q \in Requestors \ {Job_requestor(j)} : is_enqueued'[q] = enq[q]
  <2>1. PICK nwq, nenq : /\ nwq = Queues_after_set_state(j, state, wq, enq)
                         /\ nenq = Enqueued_after_set_state(j, state, enq)
    OBVIOUS
  <2>2. /\ Queues_right(nwq, nenq)
        /\ \A q \in Requestors \ {Job_requestor(j)} : nenq[q] = enq[q]
    BY <1>8, <2>1, Set_state_queues
  <2>3. Try_start_tasks(j, state, states, nwq, nenq)
    BY <1>5, <2>1
  <2> HIDE DEF states
  <2>4. /\ Queues_right(waiting_queues', is_enqueued')
        /\ \A q \in Requestors \ {Job_requestor(j)} : is_enqueued'[q] = nenq[q]
    BY <2>2, <2>3, Parts_of_begin, Try_start_tasks_queues
  <2> QED
    BY <2>2, <2>4
<1>10. /\ ~is_enqueued'[a] /\ ~is_enqueued'[p]
       /\ \A q \in Requestors \ {a, p, Job_requestor(j)} : is_enqueued'[q] = is_enqueued[q]
  BY <1>2, <1>7, <1>9, Requestors_of_others
<1>11. \A g \in Tasks : /\ is_enqueued'[Task_api(g)] => is_enqueued[Task_api(g)]
                        /\ is_enqueued'[Process_api(g)] => is_enqueued[Process_api(g)]
  <2>1. \A g \in Tasks : /\ Task_api(g) \in Requestors \ {p, Job_requestor(j)}
                         /\ Process_api(g) \in Requestors \ {a, Job_requestor(j)}
    BY <1>2, Requestors_of_others, Requestors_differ
  <2> QED
    BY <1>10, <2>1
<1>12. Are_before_start(states)
  BY On_task_closed_before_start DEF Step_begins
<1>13. \A g \in Tasks : states[g] # task_state[g] => g = t
  BY Parts_of_begin
<1>14. \A g \in Tasks : Waits_in_time(g)'
  <2> HIDE DEF states
  <2> QED
    BY <1>2, <1>5, <1>10, <1>11, <1>12, <1>13, Try_start_tasks_waits
<1>15. \A r \in Requestors \ {a, p} : Use_set(r)' = Use_set(r)
  BY <1>2, Parts_of_begin, On_task_closed_lists
<1> QED
  BY <1>9, <1>10, <1>14, <1>15 DEF Queue_step

-----------------------------------------------------------------------------
(* The steps of tasks.                                                     *)

(* Task t gets state s, and those it notifies wake.                        *)
LEMMA State_and_operation ==
  ASSUME Step_begins, NEW t \in Tasks, NEW s, NEW b,
         \/ \E R : task_state' = [Notified_task_states(R) EXCEPT ![t] = s]
         \/ task_state' = [task_state EXCEPT ![t] = s],
         operation' = [operation EXCEPT ![t] = b]
  PROVE  /\ task_state'[t] = s /\ operation'[t] = b
         /\ \A g \in Tasks \ {t} : Stays_or_wakes(g) /\ operation'[g] = operation[g]
<1>1. /\ State_types /\ task_state \in [Tasks -> Task_states] /\ operation \in [Tasks -> BOOLEAN]
  BY Parts_of_begin
<1>2. \A R : Notified_task_states(R) \in [Tasks -> Task_states]
  BY <1>1, Notified_types
<1>3. operation'[t] = b /\ \A g \in Tasks \ {t} : operation'[g] = operation[g]
  BY <1>1
<1>4. ASSUME NEW R, task_state' = [Notified_task_states(R) EXCEPT ![t] = s]
      PROVE  task_state'[t] = s /\ \A g \in Tasks \ {t} : Stays_or_wakes(g)
  <2>1. /\ task_state'[t] = s
        /\ \A g \in Tasks \ {t} : task_state'[g] = Notified_task_states(R)[g]
    BY <1>2, <1>4
  <2> QED
    BY <2>1, Notified_tasks_stay_or_wake
<1>5. ASSUME task_state' = [task_state EXCEPT ![t] = s]
      PROVE  task_state'[t] = s /\ \A g \in Tasks \ {t} : Stays_or_wakes(g)
  BY <1>1, <1>5 DEF Stays_or_wakes
<1> QED
  BY <1>3, <1>4, <1>5

(* Only t's requests and those of its job come or go.                      *)
LEMMA Others_of_step ==
  ASSUME Step_begins, NEW t \in Tasks,
         \A g \in Tasks \ {t} : Stays_or_wakes(g) /\ operation'[g] = operation[g],
         \A q \in Requestors \ {Job_requestor(Job_of[t]), Task_api(t), Process_api(t)} :
           is_enqueued'[q] = is_enqueued[q],
         Waits_in_time(t)'
  PROVE  \A g \in Tasks : Waits_in_time(g)'
<1>1. ASSUME NEW g \in Tasks \ {t} PROVE Waits_in_time(g)'
  <2>1. /\ Task_api(g) \in Requestors \ {Job_requestor(Job_of[t]), Task_api(t), Process_api(t)}
        /\ Process_api(g) \in Requestors \ {Job_requestor(Job_of[t]), Task_api(t), Process_api(t)}
    BY Requestor_types, Requestors_differ
  <2>2. /\ is_enqueued'[Task_api(g)] = is_enqueued[Task_api(g)]
        /\ is_enqueued'[Process_api(g)] = is_enqueued[Process_api(g)]
    BY <2>1
  <2>3. Waits_in_time(g)
    BY Parts_of_begin
  <2> QED
    BY <2>2, <2>3, Others_wait_in_time
<1> QED
  BY <1>1

LEMMA To_ending_queue_step ==
  ASSUME Step_begins, NEW t \in Tasks, NEW hm, NEW md, NEW other_calls,
         To_ending(t, hm, md, other_calls), UNCHANGED use_list
  PROVE  Queue_step
<1>1. PICK p \in Requestors : p = Process_api(t)
  BY Requestor_types
<1>2. Queues_right(waiting_queues, is_enqueued)
  BY Parts_of_begin
<1>3. Dequeue_lock_requests(p) \/ UNCHANGED <<waiting_queues, is_enqueued>>
  BY <1>1 DEF To_ending
<1>4. /\ Queues_right(waiting_queues', is_enqueued')
      /\ \A q \in Requestors \ {p} : is_enqueued'[q] = is_enqueued[q]
  BY <1>2, <1>3, Dequeue_lock_requests_right
<1>5. PICK R : /\ task_state' = [Notified_task_states(R) EXCEPT ![t] = "ending"]
               /\ operation' = [operation EXCEPT ![t] = TRUE]
  BY DEF To_ending
<1>6. /\ task_state'[t] = "ending"
      /\ \A g \in Tasks \ {t} : Stays_or_wakes(g) /\ operation'[g] = operation[g]
  BY <1>5, State_and_operation
<1>7. \A g \in Tasks : Waits_in_time(g)'
  <2>1. Waits_in_time(t)'
    BY <1>6 DEF Waits_in_time, Waiting
  <2> QED
    BY <1>1, <1>4, <1>6, <2>1, Others_of_step
<1>8. \A r \in Requestors : Use_set(r)' = Use_set(r)
  BY DEF Use_set
<1> QED
  BY <1>4, <1>7, <1>8 DEF Queue_step

LEMMA Do_something_queue_step ==
  ASSUME Step_begins, NEW t \in Tasks, NEW name, Do_something(t, name)
  PROVE  Queue_step
<1> DEFINE other_calls == calls \ {<<name, t>>}
<1>1. UNCHANGED use_list
  BY DEF Do_something
<1>2. ASSUME NEW hm, NEW md, To_ending(t, hm, md, other_calls)
      PROVE  Queue_step
  BY <1>1, <1>2, To_ending_queue_step
<1>3. Steps_to_ending(t, other_calls) => To_ending(t, holder_map, lock_mode, other_calls)
  BY DEF Steps_to_ending
<1>4. Fails_to_hold(t, other_calls) => \E hm, md : To_ending(t, hm, md, other_calls)
  BY DEF Fails_to_hold
<1>5. CASE Steps_into_script(t, other_calls)
  <2>1. PICK r \in Requestors : r = Level(t)
    BY Requestor_types
  <2>2. /\ Dequeue_lock_requests(r) /\ UNCHANGED task_state
        /\ operation' = [operation EXCEPT ![t] = TRUE]
        /\ task_state[t] \in {"opening", "running"}
    BY <1>5, <2>1 DEF Steps_into_script
  <2>3. /\ Queues_right(waiting_queues', is_enqueued') /\ ~is_enqueued'[r]
        /\ \A q \in Requestors \ {r} : is_enqueued'[q] = is_enqueued[q]
    BY <2>2, Parts_of_begin, Dequeue_lock_requests_right
  <2>4. task_state' = [task_state EXCEPT ![t] = task_state[t]]
    BY <2>2, Parts_of_begin
  <2>5. /\ task_state'[t] = task_state[t]
        /\ \A g \in Tasks \ {t} : Stays_or_wakes(g) /\ operation'[g] = operation[g]
    BY <2>2, <2>4, State_and_operation
  <2>6. Waits_in_time(t) /\ Task_api(t) \in Requestors /\ Process_api(t) \in Requestors
    BY Parts_of_begin, Requestor_types
  <2>7. ~is_enqueued'[Task_api(t)] /\ ~is_enqueued'[Process_api(t)]
    <3>1. CASE task_state[t] = "opening"
      BY <2>1, <2>3, <2>6, <3>1, Requestors_differ DEF Level, Waits_in_time
    <3>2. CASE task_state[t] = "running"
      BY <2>1, <2>3, <2>6, <3>2, Requestors_differ DEF Level, Waits_in_time
    <3> QED
      BY <2>2, <3>1, <3>2
  <2>8. \A g \in Tasks : Waits_in_time(g)'
    <3>1. Waits_in_time(t)'
      BY <2>2, <2>5, <2>7 DEF Waits_in_time, Waiting
    <3>2. \A q \in Requestors \ {Job_requestor(Job_of[t]), Task_api(t), Process_api(t)} :
            is_enqueued'[q] = is_enqueued[q]
      BY <2>1, <2>3 DEF Level
    <3> QED
      BY <2>5, <3>1, <3>2, Others_of_step
  <2>9. \A r1 \in Requestors : Use_set(r1)' = Use_set(r1)
    BY <1>1 DEF Use_set
  <2> QED
    BY <2>3, <2>8, <2>9 DEF Queue_step
<1>6. CASE UNCHANGED <<lock_vars, task_state, operation>>
  BY <1>6, Nothing_happens_to_tasks DEF lock_vars, Stays_or_wakes
<1> QED
  BY <1>2, <1>3, <1>4, <1>5, <1>6 DEF Do_something

LEMMA Api_call_queue_step ==
  ASSUME Step_begins, NEW t \in Tasks, Api_call(t) \/ End_task(t)
  PROVE  Queue_step
<1>1. ASSUME NEW l \in Locks, NEW mode \in Modes, Try_hold_lock(t, l, mode)
      PROVE  Queue_step
  <2>1. \A r \in Requestors : Use_set(r) \subseteq Use_set(r)'
    BY <1>1, Parts_of_begin, Try_hold_lock_lists
  <2>2. UNCHANGED <<waiting_queues, is_enqueued, task_state, operation>>
    BY <1>1 DEF Try_hold_lock, task_vars
  <2>3. \A g \in Tasks : Waits_in_time(g)'
    BY <2>2, Parts_of_begin, Others_wait_in_time DEF Stays_or_wakes
  <2> QED
    BY <2>1, <2>2, <2>3, Parts_of_begin DEF Queue_step
<1>2. CASE Delay_until_locks_available(t)
  BY <1>2, Nothing_happens_to_tasks DEF Delay_until_locks_available, lock_vars, Stays_or_wakes
<1>3. CASE End_task(t)
  BY <1>3, Nothing_happens_to_tasks DEF End_task, lock_vars, Stays_or_wakes
<1> QED
  BY <1>1, <1>2, <1>3 DEF Api_call

(* A task that begins or ends an operation outside the queues.             *)
LEMMA Change_of_state_queue_step ==
  ASSUME Step_begins, NEW t \in Tasks, NEW s, NEW b,
         task_state' = [task_state EXCEPT ![t] = s], operation' = [operation EXCEPT ![t] = b],
         UNCHANGED <<waiting_queues, is_enqueued, use_list>>,
         ~is_enqueued[Task_api(t)], ~is_enqueued[Process_api(t)], s \in Waiting => ~b
  PROVE  Queue_step
<1>1. /\ task_state'[t] = s /\ operation'[t] = b
      /\ \A g \in Tasks \ {t} : Stays_or_wakes(g) /\ operation'[g] = operation[g]
  BY State_and_operation
<1>2. Waits_in_time(t)'
  BY <1>1 DEF Waits_in_time
<1>3. \A g \in Tasks : Waits_in_time(g)'
  BY <1>1, <1>2, Others_of_step
<1> QED
  BY <1>3, Queues_left_alone

LEMMA Completion_queue_step ==
  ASSUME Step_begins, NEW t \in Tasks, NEW result \in Results,
         Starting_completed(t, result) \/ Opening_completed(t, result) \/ Process_signaled(t)
  PROVE  Queue_step
<1>1. /\ Waits_in_time(t) /\ Use_types /\ Queues_right(waiting_queues, is_enqueued)
      /\ Task_api(t) \in Requestors /\ Process_api(t) \in Requestors
      /\ Task_api(t) # Process_api(t)
  BY Parts_of_begin, Requestor_types, Requestors_differ
<1>2. CASE Starting_completed(t, result)
  <2>1. ~is_enqueued[Task_api(t)] /\ ~is_enqueued[Process_api(t)]
    BY <1>1, <1>2 DEF Starting_completed, Waits_in_time
  <2>2. PICK s : /\ s \notin Waiting
                 /\ task_state' = [task_state EXCEPT ![t] = s]
                 /\ operation' = [operation EXCEPT ![t] = s # "running_process"]
    BY <1>2 DEF Starting_completed, Waiting
  <2>3. UNCHANGED <<waiting_queues, is_enqueued, use_list>>
    BY <1>2 DEF Starting_completed, lock_vars
  <2> QED
    BY <2>1, <2>2, <2>3, Change_of_state_queue_step
<1>3. CASE Process_signaled(t)
  <2>1. ~is_enqueued[Task_api(t)] /\ ~is_enqueued[Process_api(t)]
    BY <1>1, <1>3 DEF Process_signaled, Waits_in_time
  <2>2. /\ task_state' = [task_state EXCEPT ![t] = "ending"]
        /\ operation' = [operation EXCEPT ![t] = TRUE]
        /\ UNCHANGED <<waiting_queues, is_enqueued, use_list>>
    BY <1>3 DEF Process_signaled, lock_vars
  <2>3. "ending" \notin Waiting
    BY DEF Waiting
  <2> QED
    BY <2>1, <2>2, <2>3, Change_of_state_queue_step
<1>4. CASE Opening_completed(t, result)
  <2>1. ~is_enqueued[Task_api(t)] /\ ~is_enqueued[Process_api(t)]
    BY <1>1, <1>4 DEF Opening_completed, Waits_in_time
  <2>2. PICK s : /\ s \in IF delay[t] THEN {"ending", "opening_waiting_for_locks"} ELSE {"ending", "running"}
                 /\ task_state' = [task_state EXCEPT ![t] = s]
                 /\ operation' = [operation EXCEPT ![t] = s # "opening_waiting_for_locks"]
    BY <1>4 DEF Opening_completed
  <2>3. UNCHANGED use_list
    BY <1>4 DEF Opening_completed
  <2>4. CASE ~delay[t]
    <3>1. UNCHANGED <<waiting_queues, is_enqueued>>
      BY <1>4, <2>4 DEF Opening_completed
    <3>2. s \notin Waiting
      BY <2>2, <2>4 DEF Waiting
    <3> QED
      BY <2>1, <2>2, <2>3, <3>1, <3>2, Change_of_state_queue_step
  <2>5. CASE delay[t]
    <3>1. \E W : Enqueue_lock_requests(Task_api(t), W)
      BY <1>4, <2>5 DEF Opening_completed
    <3>2. /\ Queues_right(waiting_queues', is_enqueued')
          /\ \A q \in Requestors \ {Task_api(t)} : is_enqueued'[q] = is_enqueued[q]
      BY <1>1, <2>1, <3>1, Enqueue_lock_requests_right
    <3>3. /\ task_state'[t] = s /\ operation'[t] = (s # "opening_waiting_for_locks")
          /\ \A g \in Tasks \ {t} : Stays_or_wakes(g) /\ operation'[g] = operation[g]
      BY <2>2, State_and_operation
    <3>4. ~is_enqueued'[Process_api(t)]
      BY <1>1, <2>1, <3>2
    <3>5. Waits_in_time(t)'
      BY <2>2, <2>5, <3>3, <3>4 DEF Waits_in_time, Waiting
    <3>6. \A g \in Tasks : Waits_in_time(g)'
      BY <3>2, <3>3, <3>5, Others_of_step
    <3>7. \A r \in Requestors : Use_set(r)' = Use_set(r)
      BY <2>3 DEF Use_set
    <3> QED
      BY <3>2, <3>6, <3>7 DEF Queue_step
  <2> QED
    BY <2>4, <2>5
<1> QED
  BY <1>2, <1>3, <1>4

(* A task enters the queues of the process level, or forgets its list when *)
(* nobody can wait with it.                                                *)
LEMMA Step_completed_queue_step ==
  ASSUME Step_begins, NEW t \in Tasks, NEW result, Step_completed(t, result)
  PROVE  Queue_step
<1>1. PICK p \in Requestors : p = Process_api(t)
  BY Requestor_types
<1>2. /\ Waits_in_time(t) /\ Use_types /\ Lists_right /\ Queues_right(waiting_queues, is_enqueued)
      /\ Task_api(t) \in Requestors \ {p}
  BY <1>1, Parts_of_begin, Requestor_types, Requestors_differ
<1>3. ~is_enqueued[Task_api(t)] /\ ~is_enqueued[p]
  BY <1>1, <1>2 DEF Step_completed, Waits_in_time
<1>4. \/ delay[t] /\ Enqueue_lock_requests(p, {}) /\ UNCHANGED use_list
      \/ ~delay[t] /\ UNCHANGED <<waiting_queues, is_enqueued>>
  BY <1>1 DEF Step_completed
<1>5. /\ Queues_right(waiting_queues', is_enqueued')
      /\ \A q \in Requestors \ {p} : is_enqueued'[q] = is_enqueued[q]
      /\ ~delay[t] => ~is_enqueued'[p]
  <2>1. CASE ~delay[t]
    BY <1>2, <1>3, <1>4, <2>1
  <2>2. CASE delay[t]
    BY <1>2, <1>3, <1>4, <2>2, Enqueue_lock_requests_right
  <2> QED
    BY <2>1, <2>2
<1>6. PICK R, s, b : /\ task_state' = [Notified_task_states(R) EXCEPT ![t] = s]
                     /\ operation' = [operation EXCEPT ![t] = b]
                     /\ s = "ending" \/ s = (IF delay[t] THEN "running_waiting_for_locks" ELSE "running")
                     /\ s # "ending" => ~b
  BY DEF Step_completed
<1>7. /\ task_state'[t] = s /\ operation'[t] = b
      /\ \A g \in Tasks \ {t} : Stays_or_wakes(g) /\ operation'[g] = operation[g]
  BY <1>6, State_and_operation
<1>8. Waits_in_time(t)'
  <2>1. ~is_enqueued'[Task_api(t)]
    BY <1>2, <1>3, <1>5
  <2>2. s \in Waiting => ~b
    BY <1>6 DEF Waiting
  <2>3. is_enqueued'[p] => s \in {"running_waiting_for_locks", "ending"}
    BY <1>5, <1>6
  <2> QED
    BY <1>1, <1>7, <2>1, <2>2, <2>3 DEF Waits_in_time
<1>9. \A g \in Tasks : Waits_in_time(g)'
  BY <1>1, <1>5, <1>7, <1>8, Others_of_step
<1>10. \A r \in Requestors \ {p} : Use_set(r)' = Use_set(r)
  BY <1>1, <1>2, Step_completed_lists
<1>11. delay[t] => Use_set(p)' = Use_set(p)
  BY <1>4 DEF Use_set
<1> QED
  BY <1>5, <1>9, <1>10, <1>11 DEF Queue_step

(* finish withdraws the requests of a job that stops after an error.       *)
LEMMA Ending_completed_queue_step ==
  ASSUME Step_begins, NEW t \in Tasks, Ending_completed(t)
  PROVE  Queue_step
<1>1. PICK r \in Requestors : r = Job_requestor(Job_of[t])
  BY TaskAssumption, Requestor_types
<1>2. Queues_right(waiting_queues, is_enqueued) /\ is_enqueued \in [Requestors -> BOOLEAN]
  BY Parts_of_begin
<1> DEFINE stops == error[t] /\ job_state[Job_of[t]] # "stopping"
<1>3. /\ waiting_queues' = IF stops /\ is_enqueued[r] THEN Dequeued(waiting_queues, r) ELSE waiting_queues
      /\ is_enqueued' = [is_enqueued EXCEPT ![r] = is_enqueued[r] /\ ~stops]
  BY <1>1 DEF Ending_completed
<1> HIDE DEF stops
<1>4. /\ is_enqueued' \in [Requestors -> BOOLEAN]
      /\ \A q \in Requestors \ {r} : is_enqueued'[q] = is_enqueued[q]
  BY <1>2, <1>3
<1>5. Queues_right(waiting_queues', is_enqueued')
  <2>1. CASE stops /\ is_enqueued[r]
    BY <1>2, <1>3, <1>4, <2>1, Dequeued_right
  <2>2. CASE ~(stops /\ is_enqueued[r])
    <3>1. is_enqueued' = is_enqueued
      <4>1. (is_enqueued[r] /\ ~stops) = is_enqueued[r]
        BY <1>2, <2>2
      <4> QED
        BY <1>2, <1>3, <4>1
    <3> QED
      BY <1>2, <1>3, <2>2, <3>1
  <2> QED
    BY <2>1, <2>2
<1>6. /\ \E R : task_state' = [Notified_task_states(R) EXCEPT ![t] = "closed"]
      /\ operation' = [operation EXCEPT ![t] = FALSE]
      /\ UNCHANGED use_list
  BY DEF Ending_completed
<1>7. /\ task_state'[t] = "closed"
      /\ \A g \in Tasks \ {t} : Stays_or_wakes(g) /\ operation'[g] = operation[g]
  BY <1>6, State_and_operation
<1>8. Waits_in_time(t)'
  BY <1>7 DEF Waits_in_time, Waiting
<1>9. \A g \in Tasks : Waits_in_time(g)'
  BY <1>1, <1>4, <1>7, <1>8, Others_of_step
<1>10. \A q \in Requestors : Use_set(q)' = Use_set(q)
  BY <1>6 DEF Use_set
<1> QED
  BY <1>5, <1>9, <1>10 DEF Queue_step

-----------------------------------------------------------------------------
(* A lock is removed, added, replaced or limited.                          *)

LEMMA Own_uses_stay ==
  ASSUME UNCHANGED use_list
  PROVE  Own_uses' = Own_uses
BY DEF Own_uses, Use_set

(* What has to be shown of a change of lock l.                             *)
LEMMA Change_of_one_lock ==
  ASSUME Step_begins, TypeOK', NEW l \in Locks,
         UNCHANGED <<holder_map, is_enqueued, use_list, operation>>,
         \A k \in Locks \ {l} : /\ file_based'[k] = file_based[k]
                                /\ waiting_queues'[k] = waiting_queues[k],
         waiting_queues'[l] \in {waiting_queues[l], Empty_queues},
         Lock_invariant(l)',
         \A t \in Tasks : Stays_or_wakes(t)
  PROVE  Queue_invariant'
<1>1. /\ Queues_right(waiting_queues, is_enqueued) /\ Is_sound(waiting_queues, is_enqueued, Own_uses)
      /\ \A t \in Tasks : Waits_in_time(t)
  BY Parts_of_begin DEF Queues_right
<1>2. Lock_invariants'
  <2>1. ASSUME NEW k \in Locks \ {l} PROVE Lock_invariant(k)'
    <3>1. Lock_invariant(k)
      BY DEF Step_begins, Queue_invariant, Lock_invariants
    <3> QED
      BY <3>1 DEF Lock_invariant, Is_changing, Is_held
  <2> QED
    BY <2>1 DEF Lock_invariants
<1>3. Is_sound(waiting_queues, is_enqueued, Own_uses)'
  <2>1. Own_uses' = Own_uses
    BY Own_uses_stay
  <2>2. \A k \in Locks, m \in Modes : waiting_queues'[k][m] \in {waiting_queues[k][m], <<>>}
    BY DEF Empty_queues
  <2> QED
    BY <1>1, <2>1, <2>2, Nothing_in_empty_queues DEF Is_sound
<1>4. Nobody_waits_in_vain(waiting_queues)'
  BY <1>2 DEF Lock_invariants, Lock_invariant, Nobody_waits_in_vain
<1>5. \A t \in Tasks : Waits_in_time(t)'
  BY <1>1, Others_wait_in_time
<1>6. (waiting_queues \in Queues /\ is_enqueued \in [Requestors -> BOOLEAN])'
  BY Parts_of_next_TypeOK DEF Queue_types
<1> QED
  BY <1>2, <1>3, <1>4, <1>5, <1>6 DEF Queue_invariant, Queues_right

(* on_prepare_to_remove dequeues nobody, since the lock is already marked. *)
LEMMA Nobody_is_dequeued ==
  ASSUME NEW l, NEW queue
  PROVE  Prepared_to_remove(l) = {} /\ Without_requestors(queue, {}) = queue
BY DEF Prepared_to_remove, Dequeued_by_prepare_to_remove, Without_requestors

LEMMA Remove_keeps_queue_invariant ==
  ASSUME Step_begins, TypeOK', NEW l \in Locks, Remove(l), UNCHANGED task_vars
  PROVE  Queue_invariant'
<1>1. /\ waiting_queues \in Queues /\ is_enqueued \in [Requestors -> BOOLEAN]
      /\ file_based \in [Locks -> File_based] /\ Lock_invariant(l)
  BY Parts_of_TypeOK DEF Step_begins, IInv, Queue_invariant, Lock_invariants, Queue_types, Holder_types
<1>2. PICK now \in BOOLEAN : now = (Held_by(holder_map, l) = {})
  OBVIOUS
<1>3. Prepared_to_remove(l) = {} /\ \A queue : Without_requestors(queue, {}) = queue
  BY Nobody_is_dequeued
<1>4. /\ waiting_queues' = [k \in Locks |-> [m \in Modes |->
           IF now /\ k = l THEN <<>> ELSE waiting_queues[k][m]]]
      /\ is_enqueued' = [r \in Requestors |-> is_enqueued[r]]
      /\ file_based' = IF now THEN Removed(l)
                       ELSE [file_based EXCEPT ![l].to_be_removed = TRUE,
                                               ![l].replacement = NoReplacement]
      /\ UNCHANGED <<holder_map, use_list>> /\ file_based[l].known
  <2>1. /\ waiting_queues' = [k \in Locks |-> [m \in Modes |->
             IF now /\ k = l THEN <<>>
             ELSE Without_requestors(waiting_queues[k][m], Prepared_to_remove(l))]]
        /\ is_enqueued' = [r \in Requestors |-> is_enqueued[r] /\ r \notin Prepared_to_remove(l)]
        /\ file_based' = IF now THEN Removed(l)
                         ELSE [file_based EXCEPT ![l].to_be_removed = TRUE,
                                                 ![l].replacement = NoReplacement]
        /\ UNCHANGED <<holder_map, use_list>> /\ file_based[l].known
    BY <1>2 DEF Remove
  <2>2. is_enqueued' = [r \in Requestors |-> is_enqueued[r]]
    BY <1>1, <1>3, <2>1
  <2> QED
    BY <1>3, <2>1, <2>2
<1>5. is_enqueued' = is_enqueued
  BY <1>1, <1>4
<1>6. \A k \in Locks \ {l} : /\ file_based'[k] = file_based[k]
                             /\ waiting_queues'[k] = waiting_queues[k]
  BY <1>1, <1>4 DEF Queues, Removed
<1>7. waiting_queues'[l] = IF now THEN Empty_queues ELSE waiting_queues[l]
  BY <1>1, <1>4 DEF Queues, Empty_queues
<1>8. Is_held(l)' = Is_held(l)
  BY <1>4 DEF Is_held
<1>9. Lock_invariant(l)'
  <2>1. CASE now
    <3>1. file_based'[l] = [New_file_based EXCEPT !.known = FALSE]
      BY <1>1, <1>4, <2>1 DEF Removed
    <3>2. ~Is_changing(l)' /\ ~file_based'[l].known /\ ~file_based'[l].to_be_removed
      BY <3>1 DEF Is_changing, New_file_based
    <3> QED
      BY <1>2, <1>7, <1>8, <2>1, <3>2 DEF Lock_invariant, Is_held
  <2>2. CASE ~now
    <3>1. file_based'[l].known /\ file_based'[l].replacement = NoReplacement
      BY <1>1, <1>4, <2>2 DEF File_based
    <3> QED
      BY <1>2, <1>8, <2>2, <3>1 DEF Lock_invariant, Is_held
  <2> QED
    BY <2>1, <2>2
<1>10. UNCHANGED operation /\ \A t \in Tasks : Stays_or_wakes(t)
  BY DEF task_vars, Stays_or_wakes
<1> QED
  BY <1>4, <1>5, <1>6, <1>7, <1>9, <1>10, Change_of_one_lock

LEMMA Change_lock_keeps_queue_invariant ==
  ASSUME Step_begins, TypeOK', NEW l \in Locks, Change_lock(l)
  PROVE  Queue_invariant'
<1>1. file_based \in [Locks -> File_based] /\ Lock_invariant(l)
  BY Parts_of_TypeOK DEF Step_begins, IInv, Queue_invariant, Lock_invariants, Holder_types
<1>2. CASE Remove(l) /\ UNCHANGED task_vars
  BY <1>2, Remove_keeps_queue_invariant
<1>3. CASE Add_lock(l) /\ UNCHANGED task_vars
  <2>1. UNCHANGED operation /\ \A t \in Tasks : Stays_or_wakes(t)
    BY <1>3 DEF task_vars, Stays_or_wakes
  <2>2. /\ UNCHANGED <<holder_map, waiting_queues, is_enqueued, use_list>>
        /\ file_based' = [file_based EXCEPT ![l] = New_file_based]
    BY <1>3 DEF Add_lock
  <2>3. file_based'[l] = New_file_based /\ \A k \in Locks \ {l} : file_based'[k] = file_based[k]
    BY <1>1, <2>2
  <2>4. Lock_invariant(l)'
    BY <2>3 DEF Lock_invariant, Is_changing, New_file_based
  <2> QED
    BY <2>1, <2>2, <2>3, <2>4, Change_of_one_lock
<1>4. ASSUME NEW R, Notify_requestors(R)
      PROVE  UNCHANGED operation /\ \A t \in Tasks : Stays_or_wakes(t)
  BY <1>4, Notified_tasks_stay_or_wake DEF Notify_requestors
<1>5. ASSUME NEW n \in Max_values, Replace_with(l, n), Notify_requestors(Notified_by_limit(l))
      PROVE  Queue_invariant'
  <2>1. /\ UNCHANGED <<holder_map, waiting_queues, is_enqueued, use_list>>
        /\ file_based[l].known
        /\ file_based' = [file_based EXCEPT
             ![l].to_be_removed = FALSE,
             ![l].replacement = IF ~Is_held(l) THEN NoReplacement ELSE n]
    BY <1>5 DEF Replace_with, Is_held
  <2>2. /\ file_based'[l].known /\ ~file_based'[l].to_be_removed
        /\ ~Is_held(l) => file_based'[l].replacement = NoReplacement
        /\ \A k \in Locks \ {l} : file_based'[k] = file_based[k]
    BY <1>1, <2>1 DEF File_based
  <2>3. Lock_invariant(l)'
    <3>1. Is_held(l)' = Is_held(l)
      BY <2>1 DEF Is_held
    <3> QED
      BY <2>2, <3>1 DEF Lock_invariant, Is_changing
  <2> QED
    BY <1>4, <1>5, <2>1, <2>2, <2>3, Change_of_one_lock
<1>6. ASSUME NEW n, Set_max_non_exclusive(l, n), Notify_requestors(Notified_by_limit(l))
      PROVE  Queue_invariant'
  <2>1. UNCHANGED <<holder_map, waiting_queues, file_based, is_enqueued, use_list>>
    BY <1>6 DEF Set_max_non_exclusive
  <2>2. Lock_invariant(l)'
    BY <1>1, <2>1 DEF Lock_invariant, Is_changing, Is_held
  <2> QED
    BY <1>4, <1>6, <2>1, <2>2, Change_of_one_lock
<1> QED
  BY <1>2, <1>3, <1>5, <1>6 DEF Change_lock

(* The folder replaces or removes a lock that is free by now.              *)
LEMMA Handle_candidate_keeps_queue_invariant ==
  ASSUME Step_begins, TypeOK', NEW l \in Locks, Handle_candidate(l)
  PROVE  Queue_invariant'
<1>1. /\ file_based \in [Locks -> File_based] /\ Lock_invariant(l) /\ waiting_queues \in Queues
  BY Parts_of_TypeOK DEF Step_begins, IInv, Queue_invariant, Lock_invariants, Holder_types, Queue_types
<1> DEFINE now     == ~Is_held(l)
           replace == now /\ file_based[l].replacement # NoReplacement
           remove  == now /\ ~replace /\ file_based[l].to_be_removed
<1>2. /\ UNCHANGED <<holder_map, is_enqueued, use_list>>
      /\ waiting_queues' = IF remove THEN [waiting_queues EXCEPT ![l] = Empty_queues] ELSE waiting_queues
      /\ file_based' = IF remove THEN Removed(l)
                       ELSE [file_based EXCEPT ![l].candidate = FALSE,
                              ![l].replacement = IF replace THEN NoReplacement ELSE file_based[l].replacement]
  BY DEF Handle_candidate, Handle_replace_or_remove_candidate, Is_held
<1>3. UNCHANGED operation /\ \A t \in Tasks : Stays_or_wakes(t)
  BY Notified_tasks_stay_or_wake DEF Handle_candidate, Notify_requestors
<1>4. Is_held(l)' = Is_held(l)
  BY <1>2 DEF Is_held
<1>5. CASE remove
  <2>1. waiting_queues' = [waiting_queues EXCEPT ![l] = Empty_queues] /\ file_based' = Removed(l)
    BY <1>2, <1>5
  <2>2. /\ waiting_queues'[l] = Empty_queues
        /\ file_based'[l] = [New_file_based EXCEPT !.known = FALSE]
        /\ \A k \in Locks \ {l} : /\ file_based'[k] = file_based[k]
                                  /\ waiting_queues'[k] = waiting_queues[k]
    BY <1>1, <2>1 DEF Removed, Queues
  <2>3. Lock_invariant(l)'
    BY <1>4, <1>5, <2>2 DEF Lock_invariant, Is_changing, New_file_based
  <2> QED
    BY <1>2, <1>3, <2>2, <2>3, Change_of_one_lock
<1>6. CASE ~remove
  <2>1. /\ waiting_queues' = waiting_queues
        /\ file_based' = [file_based EXCEPT ![l].candidate = FALSE,
             ![l].replacement = IF replace THEN NoReplacement ELSE file_based[l].replacement]
    BY <1>2, <1>6
  <2>2. /\ file_based'[l].known = file_based[l].known
        /\ file_based'[l].to_be_removed = file_based[l].to_be_removed
        /\ file_based'[l].replacement = IF replace THEN NoReplacement ELSE file_based[l].replacement
        /\ \A k \in Locks \ {l} : file_based'[k] = file_based[k]
    BY <1>1, <2>1 DEF File_based
  <2>3. Lock_invariant(l)'
    BY <1>1, <1>4, <1>6, <2>1, <2>2 DEF Lock_invariant, Is_changing
  <2> QED
    BY <1>2, <1>3, <2>1, <2>2, <2>3, Change_of_one_lock
<1> QED
  BY <1>5, <1>6

-----------------------------------------------------------------------------
(* The invariant and what it says.                                         *)

(* All steps but those that change a lock as an object.                    *)
LEMMA Steps_keep_queue_invariant ==
  ASSUME Step_begins, TypeOK', Queue_step, \A l \in Locks : Holders_change(l)
  PROVE  Queue_invariant'
<1>1. /\ Is_sound(waiting_queues', is_enqueued', Own_uses)
      /\ Nobody_waits_in_vain(waiting_queues')
      /\ \A r \in Requestors : is_enqueued'[r] => Use_set(r) \subseteq Use_set(r)'
  BY DEF Queue_step, Queues_right
<1>2. Lock_invariants'
  <2>1. ASSUME NEW l \in Locks PROVE Lock_invariant(l)'
    <3>1. Lock_invariant(l) /\ Queues_change(l)
      BY <1>1 DEF Step_begins, Queue_invariant, Lock_invariants, Nobody_waits_in_vain, Queues_change
    <3> QED
      BY <3>1, Changes_keep_lock_invariant
  <2> QED
    BY <2>1 DEF Lock_invariants
<1>3. Is_sound(waiting_queues, is_enqueued, Own_uses)'
  <2>1. \A r \in Requestors : is_enqueued'[r] => Own_uses[r] \subseteq Own_uses'[r]
    BY <1>1 DEF Own_uses
  <2>2. \A u \in Uses : /\ is_enqueued'[Requestor_of(u)] /\ u \in Own_uses[Requestor_of(u)]
                        => u \in Own_uses'[Requestor_of(u)]
    BY <2>1, Use_of_requestor
  <2> HIDE DEF Own_uses
  <2> QED
    BY <1>1, <2>2 DEF Is_sound
<1>4. Nobody_waits_in_vain(waiting_queues)'
  BY <1>2 DEF Lock_invariants, Lock_invariant, Nobody_waits_in_vain
<1>5. (waiting_queues \in Queues /\ is_enqueued \in [Requestors -> BOOLEAN])'
  BY Parts_of_next_TypeOK DEF Queue_types
<1>6. \A t \in Tasks : Waits_in_time(t)'
  BY DEF Queue_step
<1> QED
  BY <1>2, <1>3, <1>4, <1>5, <1>6 DEF Queue_invariant, Queues_right

LEMMA Next_queue_invariant ==
  ASSUME Step_begins, TypeOK', [Next]_vars
  PROVE  Queue_invariant'
<1>1. IInv
  BY DEF Step_begins
<1>2. ASSUME NEW j \in Jobs, Job_command(j) \/ \E name \in Job_calls : On_job_call(j, name)
      PROVE  Queue_invariant'
  <2>1. \A l \in Locks : Holders_change(l)
    <3>1. CASE Start_job(j) \/ Stop_job(j)
      BY <3>1, Unchanged_holders DEF Start_job, Stop_job, lock_vars
    <3>2. ASSUME Unstop_job(j) \/ \E name \in Job_calls : On_job_call(j, name)
          PROVE  \E state, wq, enq : Try_start_tasks(j, state, task_state, wq, enq)
      BY <3>2 DEF Unstop_job, On_job_call
    <3> QED
      BY <1>1, <1>2, <3>1, <3>2, Try_start_tasks_changes DEF Job_command
  <2> QED
    BY <1>2, <2>1, Job_queue_step, Steps_keep_queue_invariant
<1>3. ASSUME NEW t \in Tasks, NEW name, Do_something(t, name)
      PROVE  Queue_invariant'
  BY <1>1, <1>3, Do_something_changes, Do_something_queue_step, Steps_keep_queue_invariant
<1>4. ASSUME NEW t \in Tasks, On_task_closed(t)
      PROVE  Queue_invariant'
  <2>1. \E state, states, wq, enq : Try_start_tasks(Job_of[t], state, states, wq, enq)
    BY <1>4 DEF On_task_closed
  <2>2. Job_of[t] \in Jobs
    BY TaskAssumption
  <2>3. \A l \in Locks : Holders_change(l)
    BY <1>1, <2>1, <2>2, Try_start_tasks_changes
  <2> QED
    BY <1>4, <2>3, On_task_closed_queue_step, Steps_keep_queue_invariant
<1>5. ASSUME NEW t \in Tasks, Api_call(t) \/ End_task(t)
      PROVE  Queue_invariant'
  <2>1. End_task(t) => \A l \in Locks : Holders_change(l)
    BY Unchanged_holders DEF End_task, lock_vars
  <2> QED
    BY <1>1, <1>5, <2>1, Api_call_changes, Api_call_queue_step, Steps_keep_queue_invariant
<1>6. ASSUME NEW t \in Tasks, Operation_completed(t) \/ Process_signaled(t)
      PROVE  Queue_invariant'
  <2>1. Process_signaled(t) => \A l \in Locks : Holders_change(l)
    BY Unchanged_holders DEF Process_signaled, lock_vars
  <2>2. \A l \in Locks : Holders_change(l)
    BY <1>1, <1>6, <2>1, Operation_changes
  <2>3. Queue_step
    <3>1. CASE Process_signaled(t)
      <4>1. ~is_enqueued[Task_api(t)] /\ ~is_enqueued[Process_api(t)]
        BY <3>1, Parts_of_begin DEF Process_signaled, Waits_in_time
      <4>2. /\ task_state' = [task_state EXCEPT ![t] = "ending"]
            /\ operation' = [operation EXCEPT ![t] = TRUE]
            /\ UNCHANGED <<waiting_queues, is_enqueued, use_list>>
        BY <3>1 DEF Process_signaled, lock_vars
      <4>3. "ending" \notin Waiting
        BY DEF Waiting
      <4> QED
        BY <4>1, <4>2, <4>3, Change_of_state_queue_step
    <3>2. CASE Operation_completed(t)
      BY <3>2, Completion_queue_step, Step_completed_queue_step, Ending_completed_queue_step
         DEF Operation_completed
    <3> QED
      BY <1>6, <3>1, <3>2
  <2> QED
    BY <2>2, <2>3, Steps_keep_queue_invariant
<1>7. CASE UNCHANGED vars
  <2>1. \A l \in Locks : Holders_change(l)
    BY <1>7, Unchanged_holders DEF vars, lock_vars
  <2>2. Queue_step
    BY <1>7, Nothing_happens_to_tasks DEF vars, lock_vars, task_vars, Stays_or_wakes
  <2> QED
    BY <2>1, <2>2, Steps_keep_queue_invariant
<1> QED
  BY <1>2, <1>3, <1>4, <1>5, <1>6, <1>7, Change_lock_keeps_queue_invariant,
     Handle_candidate_keeps_queue_invariant DEF Next

LEMMA Init_queue_invariant == Init => Queue_invariant
<1> SUFFICES ASSUME Init PROVE Queue_invariant
  OBVIOUS
<1>1. Lock_invariants
  BY DEF Init, Lock_invariants, Lock_invariant, Is_changing, New_file_based
<1>2. Queues_right(waiting_queues, is_enqueued)
  <2>1. waiting_queues \in Queues /\ is_enqueued \in [Requestors -> BOOLEAN]
    BY Init_type, Parts_of_TypeOK DEF Queue_types
  <2>2. \A l \in Locks, m \in Modes : waiting_queues[l][m] = <<>>
    BY DEF Init, Empty_queues
  <2>3. Is_sound(waiting_queues, is_enqueued, Own_uses)
    BY <2>2, Nothing_in_empty_queues DEF Is_sound
  <2>4. Nobody_waits_in_vain(waiting_queues)
    BY DEF Init, Nobody_waits_in_vain
  <2> QED
    BY <2>1, <2>3, <2>4 DEF Queues_right
<1>3. \A t \in Tasks : Waits_in_time(t)
  BY Requestor_types DEF Init, Waits_in_time, Waiting
<1> QED
  BY <1>1, <1>2, <1>3 DEF Queue_invariant

LEMMA Always_queue_invariant == Spec => []Queue_invariant
<1>1. IInv /\ Queue_invariant /\ TypeOK' /\ [Next]_vars => Queue_invariant'
  BY Next_queue_invariant DEF Step_begins
<1> QED
  BY Init_queue_invariant, <1>1, Invariant, Type_correct, PTL DEF Spec

(* An entry of a queue belongs to a requestor that has entered the queues  *)
(* and still has the use; it is in the right queue, and only once          *)
(* (enqueue_lock_requests, dequeue_lock_requests): the plain pointers in   *)
(* the queues never point to a use or a task that has gone.                *)
THEOREM Queues_stay_sound == Spec => []Queues_are_sound
<1>1. ASSUME TypeOK, Queue_invariant PROVE Queues_are_sound
  <2> SUFFICES ASSUME NEW l \in Locks, NEW m \in Modes
               PROVE  /\ \A i \in DOMAIN waiting_queues[l][m] :
                           LET u == waiting_queues[l][m][i]
                           IN  /\ u = <<Requestor_of(u), l, m>>
                               /\ u \in Use_set(Requestor_of(u))
                               /\ is_enqueued[Requestor_of(u)]
                      /\ Is_distinct(waiting_queues[l][m])
    BY DEF Queues_are_sound, Is_distinct
  <2>1. waiting_queues[l][m] \in Seq(Uses)
    BY <1>1 DEF Queue_invariant, Queues_right, Queues
  <2>2. /\ Is_distinct(waiting_queues[l][m])
        /\ \A u \in Uses : In_queue(waiting_queues[l][m], u) =>
             /\ u = <<Requestor_of(u), l, m>>
             /\ u \in Own_uses[Requestor_of(u)]
             /\ is_enqueued[Requestor_of(u)]
    BY <1>1 DEF Queue_invariant, Queues_right, Is_sound
  <2>3. ASSUME NEW i \in DOMAIN waiting_queues[l][m]
        PROVE  waiting_queues[l][m][i] \in Uses /\ In_queue(waiting_queues[l][m], waiting_queues[l][m][i])
    BY <2>1, ElementOfSeq, LenProperties DEF In_queue
  <2>4. \A u \in Uses : Own_uses[Requestor_of(u)] = Use_set(Requestor_of(u))
    BY Use_of_requestor DEF Own_uses
  <2> QED
    BY <2>2, <2>3, <2>4
<1>2. TypeOK /\ Queue_invariant => Queues_are_sound
  BY <1>1
<1> QED
  BY <1>2, Always_queue_invariant, Type_correct, PTL

(* A lock that is to be replaced or removed is held or a candidate of its  *)
(* folder, so that the change is neither made while somebody holds it nor  *)
(* forgotten; a removed lock is not held, nor taken or waited for later    *)
(* (release_lock_for, check_for_replacing_or_removing, remove_now).        *)
THEOREM Lock_changes_are_not_lost == Spec => []Lock_changes_wait_for_holders
<1>1. Queue_invariant => Lock_changes_wait_for_holders
  BY DEF Queue_invariant, Lock_invariants, Lock_invariant, Is_changing, Is_held,
         Lock_changes_wait_for_holders
<1> QED
  BY <1>1, Always_queue_invariant, PTL
================================================================================

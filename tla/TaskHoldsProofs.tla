---------------------------- MODULE TaskHoldsProofs ----------------------------
(***************************************************************************)
(* What the tasks of LockedTasks hold and how long, and what the state of  *)
(* a job says about its tasks, for every set of locks, jobs and tasks.     *)
(***************************************************************************)
EXTENDS LockedTasksProofs

-----------------------------------------------------------------------------
(* The inductive invariant.                                                *)

Requestors_of(t) == {Job_requestor(Job_of[t]), Task_api(t), Process_api(t)}

(* The list of a job is the configured one, whatever happens: only the     *)
(* lists of tasks grow and shrink (Requestor::load_from_dom, Task::        *)
(* try_hold_lock).                                                         *)
Job_list(j) ==
  [i \in DOMAIN Job_lock_uses[j] |->
     <<Job_requestor(j), Job_lock_uses[j][i][1], Job_lock_uses[j][i][2]>>]

Job_lists_stay == \A j \in Jobs : use_list[Job_requestor(j)] = Job_list(j)

(* A list contains uses of its requestor only.                             *)
Lists_are_own == \A r \in Requestors : \A u \in Use_set(r) : Requestor_of(u) = r

(* The main thread only waits for the object of a closed task to go.       *)
Closed_calls == \A t \in Tasks : <<"Task_closed", t>> \in calls => task_state[t] = "closed"

(* A use that task t holds is a use of the lock in a list of t or its job, *)
(* at a level at which t may hold it now.                                  *)
May_be_held(t, l, u) ==
  /\ Lock_of(u) = l
  /\ Requestor_of(u) \in Requestors_of(t)
  /\ u \in Use_set(Requestor_of(u))
  /\ task_state[t] \notin {"none", "closed"}
  /\ Requestor_of(u) = Process_api(t) => task_state[t] = "running" /\ operation[t]
  /\ Requestor_of(u) = Task_api(t) => task_state[t] # "starting"

Holds_what_it_may(t) == \A l \in Locks : \A u \in holder_map[l][t] : May_be_held(t, l, u)

Holds_the_job_locks(t) ==
  task_state[t] \notin {"none", "closed"} =>
    \A u \in Use_set(Job_requestor(Job_of[t])) : Is_held_by(u, t)

Holds_invariant(t) == Holds_what_it_may(t) /\ Holds_the_job_locks(t)

IInv == /\ TypeOK /\ Job_lists_stay /\ Lists_are_own /\ Closed_calls
        /\ \A t \in Tasks : Holds_invariant(t)
        /\ Job_state_agrees

-----------------------------------------------------------------------------
(* Requestors, their lists and what is taken and given back of them.       *)

(* Jobs and tasks, and the two levels of a task, are different requestors. *)
LEMMA Requestors_differ ==
  ASSUME NEW j, NEW t, NEW g
  PROVE  /\ Job_requestor(j) # Task_api(t)
         /\ Job_requestor(j) # Process_api(t)
         /\ Task_api(t) # Process_api(g)
         /\ Task_api(t) = Task_api(g) => t = g
         /\ Process_api(t) = Process_api(g) => t = g
         /\ Level(t) \in {Task_api(t), Process_api(t)}
         /\ Own_holder(Job_requestor(j)) = NoHolder
BY DEF Job_requestor, Task_api, Process_api, Level, Own_holder

(* A loop over the whole _use_list of a requestor sees its uses.           *)
LEMMA First_of_all ==
  ASSUME NEW list \in Seq(Uses)
  PROVE  /\ First(list, Len(list)) = {list[i] : i \in DOMAIN list}
         /\ First(list, Len(list)) \subseteq Uses
         /\ \A k \in 0 .. Len(list) : First(list, k) \subseteq First(list, Len(list))
<1>1. DOMAIN list = 1 .. Len(list) /\ Len(list) \in Nat
  BY LenProperties
<1>2. \A i \in 1 .. Len(list) : list[i] \in Uses
  BY ElementOfSeq
<1> QED
  BY <1>1, <1>2 DEF First

LEMMA First_of_uses ==
  ASSUME Use_types, NEW r \in Requestors
  PROVE  First(use_list[r], Len(use_list[r])) = Use_set(r)
BY First_of_all DEF Use_types, Use_set

LEMMA First_of_none == First(<<>>, Len(<<>>)) = {}
BY EmptySeq DEF First

(* A loop over two lists, one after the other.                             *)
LEMMA First_of_both ==
  ASSUME NEW s \in Seq(Uses), NEW q \in Seq(Uses)
  PROVE  /\ s \o q \in Seq(Uses)
         /\ First(s \o q, Len(s \o q)) = First(s, Len(s)) \cup First(q, Len(q))
<1>1. /\ s \o q \in Seq(Uses)
      /\ Len(s \o q) = Len(s) + Len(q)
      /\ \A i \in 1 .. Len(s) + Len(q) :
           (s \o q)[i] = IF i <= Len(s) THEN s[i] ELSE q[i - Len(s)]
  BY ConcatProperties
<1>2. Len(s) \in Nat /\ Len(q) \in Nat
  BY LenProperties
<1> DEFINE sq == s \o q
<1>3. First(sq, Len(sq)) \subseteq First(s, Len(s)) \cup First(q, Len(q))
  BY <1>1, <1>2 DEF First
<1>4. ASSUME NEW i \in 1 .. Len(s) PROVE s[i] \in First(sq, Len(sq))
  <2>1. i \in 1 .. Len(sq) /\ sq[i] = s[i]
    BY <1>1, <1>2
  <2> HIDE DEF sq
  <2> QED
    BY <2>1 DEF First
<1>5. ASSUME NEW i \in 1 .. Len(q) PROVE q[i] \in First(sq, Len(sq))
  <2>1. i + Len(s) \in 1 .. Len(sq) /\ ~(i + Len(s) <= Len(s)) /\ (i + Len(s)) - Len(s) = i
    BY <1>1, <1>2
  <2>2. sq[i + Len(s)] = q[i]
    BY <1>1, <1>2, <2>1
  <2> HIDE DEF sq
  <2> QED
    BY <2>1, <2>2 DEF First
<1> QED
  BY <1>1, <1>3, <1>4, <1>5 DEF First

(* try_hold_lock adds one use to a list.                                   *)
LEMMA Appended_use ==
  ASSUME NEW list \in Seq(Uses), NEW u \in Uses
  PROVE  {Append(list, u)[i] : i \in DOMAIN Append(list, u)} =
           {list[i] : i \in DOMAIN list} \cup {u}
<1>1. /\ Append(list, u) \in Seq(Uses)
      /\ Len(Append(list, u)) = Len(list) + 1
      /\ \A i \in 1 .. Len(list) : Append(list, u)[i] = list[i]
      /\ Append(list, u)[Len(list) + 1] = u
  BY AppendProperties
<1>2. Len(list) \in Nat /\ DOMAIN list = 1 .. Len(list)
  BY LenProperties
<1>3. DOMAIN Append(list, u) = 1 .. Len(list) + 1
  BY <1>1, LenProperties
<1> QED
  BY <1>1, <1>2, <1>3

(* hold_locks of k uses of a list by holder t.                             *)
LEMMA Hold_locks_effect ==
  ASSUME Holder_types, NEW t \in Tasks, NEW list, NEW k, Hold_locks(t, list, k)
  PROVE  \A l \in Locks :
           /\ holder_map'[l][t] = holder_map[l][t] \cup On_lock(First(list, k), l)
           /\ \A g \in Tasks \ {t} : holder_map'[l][g] = holder_map[l][g]
<1>1. holder_map' = Hold(holder_map, t, list, k)
  BY DEF Hold_locks
<1> QED
  BY <1>1, Hold_by_lock DEF Holder_types, Holders

(* release_locks of a list by holder t, which has the holder map hm.       *)
LEMMA Release_locks_effect ==
  ASSUME NEW hm \in Holder_maps, NEW md, NEW t \in Tasks, NEW list, Release_locks(hm, md, t, list)
  PROVE  \A l \in Locks :
           /\ holder_map'[l][t] = hm[l][t] \ First(list, Len(list))
           /\ \A g \in Tasks \ {t} : holder_map'[l][g] = hm[l][g]
<1>1. holder_map' = Release(hm, t, list, Len(list))
  BY DEF Release_locks
<1> QED
  BY <1>1 DEF Release, Holder_maps, Holders

-----------------------------------------------------------------------------
(* The lists.                                                              *)

Lists_right == Job_lists_stay /\ Lists_are_own

LEMMA Unchanged_lists ==
  ASSUME Lists_right, UNCHANGED use_list
  PROVE  Lists_right' /\ \A r \in Requestors : Use_set(r)' = Use_set(r)
BY DEF Lists_right, Job_lists_stay, Lists_are_own, Use_set

(* A list that becomes empty, as when a step or a task has ended.          *)
LEMMA Emptied_list ==
  ASSUME Use_types, Lists_right, NEW R \in SUBSET Task_requestors,
         use_list' = [r \in Requestors |-> IF r \in R THEN <<>> ELSE use_list[r]]
  PROVE  /\ Lists_right'
         /\ \A r \in Requestors \ R : Use_set(r)' = Use_set(r)
         /\ \A j \in Jobs : Use_set(Job_requestor(j))' = Use_set(Job_requestor(j))
<1>1. \A j \in Jobs : Job_requestor(j) \in Requestors /\ Job_requestor(j) \notin R
  BY Requestor_types DEF Job_requestor, Task_requestors
<1>2. \A r \in Requestors \ R : use_list'[r] = use_list[r]
  OBVIOUS
<1>3. \A r \in Requestors \ R : Use_set(r)' = Use_set(r)
  BY <1>2 DEF Use_set
<1>4. \A r \in R : use_list'[r] = <<>>
  BY DEF Requestors
<1>5. \A r \in R : Use_set(r)' = {}
  BY <1>4 DEF Use_set
<1>6. Job_lists_stay'
  BY <1>1, <1>2 DEF Lists_right, Job_lists_stay, Job_list
<1>7. Lists_are_own'
  <2>1. \A r \in Requestors : \A u \in Use_set(r)' : Requestor_of(u) = r
    BY <1>3, <1>5 DEF Lists_right, Lists_are_own
  <2> QED
    BY <2>1 DEF Lists_are_own
<1> QED
  BY <1>1, <1>3, <1>6, <1>7 DEF Lists_right

(* try_hold_lock remembers the use, unless it is known already.            *)
LEMMA Try_hold_lock_lists ==
  ASSUME Use_types, Lists_right, NEW t \in Tasks, NEW l \in Locks, NEW mode \in Modes,
         Try_hold_lock(t, l, mode)
  PROVE  /\ Lists_right'
         /\ \A r \in Requestors : Use_set(r)' =
              IF r = Level(t) THEN Use_set(r) \cup {<<r, l, mode>>} ELSE Use_set(r)
<1>0. PICK r : r = Level(t)
  OBVIOUS
<1> DEFINE u == <<r, l, mode>>
<1>1. r \in Requestors /\ u \in Uses /\ use_list[r] \in Seq(Uses)
  BY <1>0, Requestor_types DEF Use_types, Uses
<1>2. Requestor_of(u) = r
  BY DEF Requestor_of
<1>3. use_list' = IF u \in Use_set(r) THEN use_list
                  ELSE [use_list EXCEPT ![r] = Append(use_list[r], u)]
  BY <1>0 DEF Try_hold_lock
<1>4. \A q \in Requestors \ {r} : use_list'[q] = use_list[q]
  BY <1>3 DEF Use_types
<1>5. \A q \in Requestors \ {r} : Use_set(q)' = Use_set(q)
  BY <1>4 DEF Use_set
<1>6. Use_set(r)' = Use_set(r) \cup {u}
  <2>1. CASE u \in Use_set(r)
    BY <1>3, <2>1 DEF Use_set
  <2>2. CASE u \notin Use_set(r)
    <3>1. use_list'[r] = Append(use_list[r], u)
      BY <1>1, <1>3, <2>2 DEF Use_types
    <3>2. Use_set(r)' = {use_list'[r][i] : i \in DOMAIN use_list'[r]}
      BY DEF Use_set
    <3> HIDE DEF u
    <3> QED
      BY <1>1, <3>1, <3>2, Appended_use DEF Use_set
  <2> QED
    BY <2>1, <2>2
<1>7. \A j \in Jobs : Job_requestor(j) \in Requestors \ {r}
  BY <1>0, Requestor_types, Requestors_differ
<1>8. Job_lists_stay'
  BY <1>4, <1>7 DEF Lists_right, Job_lists_stay, Job_list
<1>9. Lists_are_own'
  <2>1. \A q \in Requestors : \A v \in Use_set(q)' : Requestor_of(v) = q
    BY <1>2, <1>5, <1>6 DEF Lists_right, Lists_are_own
  <2> QED
    BY <2>1 DEF Lists_are_own
<1> QED
  BY <1>0, <1>5, <1>6, <1>8, <1>9 DEF Lists_right

(* The object of a closed task goes with its lists.                        *)
LEMMA On_task_closed_lists ==
  ASSUME Use_types, Lists_right, NEW t \in Tasks, On_task_closed(t)
  PROVE  /\ Lists_right'
         /\ \A r \in Requestors \ {Task_api(t), Process_api(t)} : Use_set(r)' = Use_set(r)
         /\ \A j \in Jobs : Use_set(Job_requestor(j))' = Use_set(Job_requestor(j))
<1> DEFINE R == {Task_api(t), Process_api(t)}
<1>1. R \in SUBSET Task_requestors
  BY DEF Task_requestors, Task_api, Process_api
<1>2. use_list' = [use_list EXCEPT ![Task_api(t)] = <<>>, ![Process_api(t)] = <<>>]
  BY DEF On_task_closed
<1>3. use_list' = [r \in Requestors |-> IF r \in R THEN <<>> ELSE use_list[r]]
  BY <1>2 DEF Use_types
<1> QED
  BY <1>1, <1>3, Emptied_list

(* The uses of a step of the script are forgotten, unless it wants to be   *)
(* called again.                                                           *)
LEMMA Step_completed_lists ==
  ASSUME Use_types, Lists_right, NEW t \in Tasks, NEW result, Step_completed(t, result)
  PROVE  /\ Lists_right'
         /\ \A r \in Requestors \ {Process_api(t)} : Use_set(r)' = Use_set(r)
         /\ \A j \in Jobs : Use_set(Job_requestor(j))' = Use_set(Job_requestor(j))
<1> DEFINE R == {Process_api(t)}
<1>1. R \in SUBSET Task_requestors
  BY DEF Task_requestors, Process_api
<1>2. CASE UNCHANGED use_list
  BY <1>2, Unchanged_lists, Requestor_types
<1>3. CASE use_list' = [use_list EXCEPT ![Process_api(t)] = <<>>]
  <2>1. use_list' = [r \in Requestors |-> IF r \in R THEN <<>> ELSE use_list[r]]
    BY <1>3 DEF Use_types
  <2> QED
    BY <1>1, <2>1, Emptied_list
<1> QED
  BY <1>2, <1>3 DEF Step_completed

(* All other steps leave the lists alone.                                  *)
LEMMA Lists_stay_right ==
  ASSUME Use_types, Lists_right, [Next]_vars
  PROVE  Lists_right'
<1>1. CASE UNCHANGED use_list
  BY <1>1, Unchanged_lists
<1>2. ASSUME NEW j \in Jobs, NEW name, Job_command(j) \/ On_job_call(j, name)
      PROVE  UNCHANGED use_list
  BY <1>2 DEF Job_command, Start_job, Stop_job, Unstop_job, On_job_call, lock_vars
<1>3. ASSUME NEW t \in Tasks, NEW name, Do_something(t, name)
      PROVE  UNCHANGED use_list
  BY <1>3 DEF Do_something
<1>4. ASSUME NEW t \in Tasks, Delay_until_locks_available(t) \/ End_task(t) \/ Process_signaled(t)
                              \/ Ending_completed(t)
      PROVE  UNCHANGED use_list
  BY <1>4 DEF Delay_until_locks_available, End_task, Process_signaled, Ending_completed, lock_vars
<1>5. ASSUME NEW t \in Tasks, NEW result, Starting_completed(t, result) \/ Opening_completed(t, result)
      PROVE  UNCHANGED use_list
  BY <1>5 DEF Starting_completed, Opening_completed, lock_vars
<1>6. ASSUME NEW l \in Locks, Change_lock(l) \/ Handle_candidate(l)
      PROVE  UNCHANGED use_list
  BY <1>6 DEF Change_lock, Remove, Add_lock, Replace_with, Set_max_non_exclusive, Handle_candidate,
              Handle_replace_or_remove_candidate
<1>7. CASE UNCHANGED vars
  BY <1>1, <1>7 DEF vars, lock_vars
<1> QED
  BY <1>1, <1>2, <1>3, <1>4, <1>5, <1>6, <1>7, Try_hold_lock_lists, On_task_closed_lists,
     Step_completed_lists DEF Next, Api_call, Operation_completed

-----------------------------------------------------------------------------
(* Tasks that a step is not about.                                         *)

(* A notified task leaves its waiting state, all others stay as they are.  *)
Goes_on(t) ==
  \/ task_state'[t] = task_state[t]
  \/ task_state[t] \in Waiting /\ task_state'[t] \in {"opening", "running"}

LEMMA Notified_tasks_go_on ==
  ASSUME State_types, NEW R, NEW t \in Tasks,
         task_state'[t] = Notified_task_states(R)[t]
  PROVE  Goes_on(t)
BY DEF Goes_on, Notified_task_states, Is_notified, Waiting

(* What a task may hold and has to hold only depends on its own holds,     *)
(* state and lists.                                                        *)
LEMMA Other_tasks_hold ==
  ASSUME TypeOK, NEW t \in Tasks, Holds_invariant(t), Goes_on(t),
         operation'[t] = operation[t],
         \A l \in Locks : holder_map'[l][t] = holder_map[l][t],
         Use_set(Job_requestor(Job_of[t]))' = Use_set(Job_requestor(Job_of[t])),
         Use_set(Task_api(t)) \subseteq Use_set(Task_api(t))',
         Use_set(Process_api(t)) \subseteq Use_set(Process_api(t))'
  PROVE  Holds_invariant(t)'
<1> DEFINE alive == task_state[t] \notin {"none", "closed"}
<1>1. alive <=> task_state'[t] \notin {"none", "closed"}
  BY DEF Goes_on, Waiting
<1>2. ASSUME NEW l \in Locks, NEW u \in holder_map[l][t] PROVE May_be_held(t, l, u)'
  <2>1. May_be_held(t, l, u)
    BY <1>2 DEF Holds_invariant, Holds_what_it_may
  <2>2. /\ Requestor_of(u) = Process_api(t) => task_state'[t] = "running" /\ operation'[t]
        /\ Requestor_of(u) = Task_api(t) => task_state'[t] # "starting"
    BY <2>1 DEF May_be_held, Goes_on, Waiting
  <2>3. \A r \in Requestors_of(t) : u \in Use_set(r) => u \in Use_set(r)'
    BY DEF Requestors_of
  <2> QED
    BY <1>1, <2>1, <2>2, <2>3 DEF May_be_held, Requestors_of
<1>3. Holds_what_it_may(t)'
  BY <1>2 DEF Holds_what_it_may
<1>4. Holds_the_job_locks(t)'
  <2>1. Job_requestor(Job_of[t]) \in Requestors
    BY TaskAssumption, Requestor_types
  <2>2. \A u \in Use_set(Job_requestor(Job_of[t])) : Lock_of(u) \in Locks
    BY <2>1, Use_set_type, Parts_of_TypeOK DEF Uses, Lock_of
  <2> QED
    BY <1>1, <2>2 DEF Holds_invariant, Holds_the_job_locks, Is_held_by
<1> QED
  BY <1>3, <1>4 DEF Holds_invariant

(* No task that has not started, or that is closed, holds anything.        *)
LEMMA Idle_tasks_hold_nothing ==
  ASSUME NEW t \in Tasks, Holds_invariant(t), task_state[t] \in {"none", "closed"}
  PROVE  \A l \in Locks : holder_map[l][t] = {}
BY DEF Holds_invariant, Holds_what_it_may, May_be_held

-----------------------------------------------------------------------------
(* The steps of a task.                                                    *)

LEMMA Step_of_one_task ==
  ASSUME IInv, NEW t \in Tasks,
         \A g \in Tasks \ {t} : /\ Goes_on(g)
                                /\ operation'[g] = operation[g]
                                /\ \A l \in Locks : holder_map'[l][g] = holder_map[l][g],
         \A r \in Requestors \ {Task_api(t), Process_api(t)} : Use_set(r)' = Use_set(r),
         Holds_invariant(t)'
  PROVE  \A g \in Tasks : Holds_invariant(g)'
<1> SUFFICES ASSUME NEW g \in Tasks \ {t} PROVE Holds_invariant(g)'
  OBVIOUS
<1>1. Job_requestor(Job_of[g]) \in Requestors \ {Task_api(t), Process_api(t)}
  BY TaskAssumption, Requestor_types, Requestors_differ
<1>2. /\ Task_api(g) \in Requestors \ {Task_api(t), Process_api(t)}
      /\ Process_api(g) \in Requestors \ {Task_api(t), Process_api(t)}
  BY Requestor_types, Requestors_differ
<1>3. Holds_invariant(g) /\ TypeOK
  BY DEF IInv
<1> QED
  BY <1>1, <1>2, <1>3, Other_tasks_hold

(* The uses of the job that a task holds stay with it when only uses of    *)
(* other requestors go.                                                    *)
LEMMA Job_locks_stay ==
  ASSUME IInv, NEW t \in Tasks, task_state[t] \notin {"none", "closed"},
         \A l \in Locks : \A u \in holder_map[l][t] :
           Requestor_of(u) = Job_requestor(Job_of[t]) => u \in holder_map'[l][t],
         Use_set(Job_requestor(Job_of[t]))' = Use_set(Job_requestor(Job_of[t]))
  PROVE  Holds_the_job_locks(t)'
<1>1. Job_requestor(Job_of[t]) \in Requestors
  BY TaskAssumption, Requestor_types
<1>2. \A u \in Use_set(Job_requestor(Job_of[t])) :
        /\ Lock_of(u) \in Locks
        /\ Requestor_of(u) = Job_requestor(Job_of[t])
        /\ Is_held_by(u, t)
  BY <1>1, Use_set_type, Parts_of_TypeOK
     DEF Uses, Lock_of, IInv, Lists_are_own, Holds_invariant, Holds_the_job_locks
<1> QED
  BY <1>2 DEF Holds_the_job_locks, Is_held_by

(* The task ends: it gives its process level uses back if it is running,   *)
(* also those it has just taken before hold_locks has thrown.  Otherwise   *)
(* it has none.                                                            *)
LEMMA To_ending_holds ==
  ASSUME IInv, NEW t \in Tasks, NEW hm \in Holder_maps, NEW md, NEW other_calls,
         To_ending(t, hm, md, other_calls), UNCHANGED use_list,
         task_state[t] \in {"opening", "running"} \cup Waiting,
         \A l \in Locks : \A g \in Tasks \ {t} : hm[l][g] = holder_map[l][g],
         \A l \in Locks : holder_map[l][t] \subseteq hm[l][t],
         \A l \in Locks : \A u \in hm[l][t] :
           \/ u \in holder_map[l][t]
           \/ /\ task_state[t] \notin Waiting
              /\ Lock_of(u) = l /\ u \in Use_set(Level(t))
  PROVE  \A g \in Tasks : Holds_invariant(g)'
<1> DEFINE list == IF task_state[t] = "running" THEN use_list[Process_api(t)] ELSE <<>>
           gone == First(list, Len(list))
           R    == Notified_by_release(waiting_queues, hm, md, t, list)
<1>0. /\ Holder_types /\ Use_types /\ State_types /\ Lists_right /\ Holds_invariant(t)
      /\ Process_api(t) \in Requestors /\ Task_api(t) \in Requestors
  BY Parts_of_TypeOK, Requestor_types DEF IInv, Lists_right
<1>1. /\ Release_locks(hm, md, t, list)
      /\ task_state' = [Notified_task_states(R) EXCEPT ![t] = "ending"]
      /\ operation' = [operation EXCEPT ![t] = TRUE]
  BY DEF To_ending
<1>2. \A l \in Locks : /\ holder_map'[l][t] = hm[l][t] \ gone
                       /\ \A g \in Tasks \ {t} : holder_map'[l][g] = holder_map[l][g]
  BY <1>1, Release_locks_effect
<1>3. gone = IF task_state[t] = "running" THEN Use_set(Process_api(t)) ELSE {}
  BY <1>0, First_of_uses, First_of_none
<1> HIDE DEF list, gone, R
<1>4. Notified_task_states(R) \in [Tasks -> Task_states]
  BY <1>0, Notified_types
<1>5. task_state'[t] = "ending" /\ operation'[t] = TRUE
  BY <1>0, <1>1, <1>4 DEF State_types
<1>6. \A r \in Requestors : Use_set(r)' = Use_set(r)
  BY <1>0, Unchanged_lists
<1>7. ASSUME NEW l \in Locks, NEW u \in holder_map'[l][t] PROVE May_be_held(t, l, u)'
  <2>1. u \in hm[l][t] /\ u \notin gone
    BY <1>2, <1>7
  <2>2. CASE u \in holder_map[l][t]
    <3>1. May_be_held(t, l, u)
      BY <1>0, <2>2 DEF Holds_invariant, Holds_what_it_may
    <3>2. Requestor_of(u) # Process_api(t)
      BY <1>3, <2>1, <3>1 DEF May_be_held
    <3>3. Use_set(Requestor_of(u))' = Use_set(Requestor_of(u))
      BY DEF Use_set
    <3> QED
      BY <1>5, <3>1, <3>2, <3>3 DEF May_be_held
  <2>3. CASE Lock_of(u) = l /\ u \in Use_set(Level(t)) /\ task_state[t] \in {"opening", "running"}
    <3>1. task_state[t] = "opening"
      BY <1>3, <2>1, <2>3 DEF Level
    <3>2. u \in Use_set(Task_api(t)) /\ Requestor_of(u) = Task_api(t)
      BY <1>0, <2>3, <3>1 DEF Level, Lists_right, Lists_are_own
    <3>3. Use_set(Task_api(t))' = Use_set(Task_api(t))
      BY <1>0, <1>6
    <3>4. Requestor_of(u) # Process_api(t)
      BY <3>2, Requestors_differ
    <3> QED
      BY <1>5, <2>3, <3>2, <3>3, <3>4 DEF May_be_held, Requestors_of
  <2> QED
    BY <2>1, <2>2, <2>3
<1>8. Holds_what_it_may(t)'
  BY <1>7 DEF Holds_what_it_may
<1>9. Holds_the_job_locks(t)'
  <2>1. \A u \in gone : Requestor_of(u) # Job_requestor(Job_of[t])
    BY <1>0, <1>3, Requestors_differ DEF Lists_right, Lists_are_own
  <2>2. Job_requestor(Job_of[t]) \in Requestors
    BY TaskAssumption, Requestor_types
  <2> QED
    BY <1>2, <1>6, <2>1, <2>2, Job_locks_stay DEF Waiting
<1>10. \A g \in Tasks \ {t} : Goes_on(g) /\ operation'[g] = operation[g]
  BY <1>0, <1>1, <1>4, Notified_tasks_go_on DEF State_types
<1> QED
  BY <1>2, <1>6, <1>8, <1>9, <1>10, Step_of_one_task DEF Holds_invariant

(* do_something between two operations.                                    *)
LEMMA Do_something_holds ==
  ASSUME IInv, NEW t \in Tasks, NEW name \in Step_calls, Do_something(t, name)
  PROVE  \A g \in Tasks : Holds_invariant(g)'
<1> DEFINE other_calls == calls \ {<<name, t>>}
           list == use_list[Level(t)]
<1>1. /\ Holder_types /\ Use_types /\ State_types /\ Lists_right /\ Holds_invariant(t)
      /\ holder_map \in Holder_maps /\ lock_mode \in Lock_modes
      /\ Level(t) \in Requestors /\ list \in Seq(Uses) /\ Len(list) \in Nat /\ t \in Holders
  BY Parts_of_TypeOK, Requestor_types, LenProperties
     DEF IInv, Lists_right, Holder_types, Use_types, Holders
<1>2. UNCHANGED use_list
  BY DEF Do_something
<1>3. \A r \in Requestors : Use_set(r)' = Use_set(r)
  BY <1>1, <1>2, Unchanged_lists
<1>4. \A k \in 0 .. Len(list) : First(list, k) \subseteq Use_set(Level(t))
  BY <1>1, First_of_all, First_of_uses
<1>5. CASE Steps_to_ending(t, other_calls)
  <2>1. /\ To_ending(t, holder_map, lock_mode, other_calls)
        /\ task_state[t] \in {"opening", "running"} \cup Waiting
    BY <1>5 DEF Steps_to_ending, Ends_in_do_something
  <2> HIDE DEF other_calls
  <2> QED
    BY <1>1, <1>2, <2>1, To_ending_holds
<1>6. CASE Fails_to_hold(t, other_calls)
  <2>1. PICK k \in 0 .. Len(list) - 1 :
          To_ending(t, Hold(holder_map, t, list, k),
                    Hold_mode(holder_map, lock_mode, t, list, k), other_calls)
    BY <1>6 DEF Fails_to_hold
  <2> DEFINE hm == Hold(holder_map, t, list, k)
             md == Hold_mode(holder_map, lock_mode, t, list, k)
  <2>2. task_state[t] \in {"opening", "running"}
    BY <1>6 DEF Fails_to_hold
  <2>3. k \in 0 .. Len(list)
    BY <1>1
  <2>4. hm \in Holder_maps
    BY <1>1, <2>3, Hold_type
  <2>5. \A l \in Locks : /\ hm[l][t] = holder_map[l][t] \cup On_lock(First(list, k), l)
                         /\ \A g \in Tasks \ {t} : hm[l][g] = holder_map[l][g]
    BY <1>1, Hold_by_lock DEF Holders
  <2>6. To_ending(t, hm, md, other_calls)
    BY <2>1
  <2> HIDE DEF hm, md, list, other_calls
  <2>7. \A l \in Locks : \A u \in hm[l][t] :
          \/ u \in holder_map[l][t]
          \/ task_state[t] \notin Waiting /\ Lock_of(u) = l /\ u \in Use_set(Level(t))
    BY <1>4, <2>2, <2>3, <2>5 DEF On_lock, Waiting
  <2>8. \A l \in Locks : holder_map[l][t] \subseteq hm[l][t]
    BY <2>5
  <2> QED
    BY <1>1, <1>2, <2>2, <2>4, <2>5, <2>6, <2>7, <2>8, To_ending_holds
<1>7. CASE Steps_into_script(t, other_calls)
  <2>1. /\ Hold_locks(t, list, Len(list)) /\ operation' = [operation EXCEPT ![t] = TRUE]
        /\ task_state' = task_state /\ task_state[t] \in {"opening", "running"}
    BY <1>7 DEF Steps_into_script
  <2>2. operation'[t] = TRUE /\ \A g \in Tasks \ {t} : operation'[g] = operation[g]
    BY <1>1, <2>1 DEF State_types
  <2> HIDE DEF list
  <2>3. \A l \in Locks :
          /\ holder_map'[l][t] = holder_map[l][t] \cup On_lock(First(list, Len(list)), l)
          /\ \A g \in Tasks \ {t} : holder_map'[l][g] = holder_map[l][g]
    BY <1>1, <2>1, Hold_locks_effect
  <2>4. ASSUME NEW l \in Locks, NEW u \in holder_map'[l][t] PROVE May_be_held(t, l, u)'
    <3>1. CASE u \in holder_map[l][t]
      <4>1. May_be_held(t, l, u)
        BY <1>1, <3>1 DEF Holds_invariant, Holds_what_it_may
      <4>2. Use_set(Requestor_of(u))' = Use_set(Requestor_of(u))
        BY <1>2 DEF Use_set
      <4> QED
        BY <2>1, <2>2, <4>1, <4>2 DEF May_be_held
    <3>2. CASE u \notin holder_map[l][t]
      <4>1. Lock_of(u) = l /\ u \in Use_set(Level(t)) /\ Requestor_of(u) = Level(t)
        BY <1>1, <1>4, <2>3, <2>4, <3>2 DEF On_lock, Lists_right, Lists_are_own
      <4>2. u \in Use_set(Requestor_of(u))'
        BY <1>1, <1>3, <4>1
      <4>3. Requestor_of(u) = IF task_state[t] = "opening" THEN Task_api(t) ELSE Process_api(t)
        BY <4>1 DEF Level
      <4> QED
        BY <2>1, <2>2, <4>1, <4>2, <4>3, Requestors_differ DEF May_be_held, Requestors_of
    <3> QED
      BY <3>1, <3>2
  <2>5. Holds_what_it_may(t)'
    BY <2>4 DEF Holds_what_it_may
  <2>6. Job_requestor(Job_of[t]) \in Requestors
    BY TaskAssumption, Requestor_types
  <2>7. Holds_the_job_locks(t)'
    BY <1>3, <2>1, <2>3, <2>6, Job_locks_stay
  <2> QED
    BY <1>3, <2>1, <2>2, <2>3, <2>5, <2>7, Step_of_one_task DEF Holds_invariant, Goes_on
<1>8. CASE UNCHANGED <<lock_vars, task_state, operation>>
  <2>1. /\ UNCHANGED <<holder_map, task_state, operation>>
    BY <1>8 DEF lock_vars
  <2>2. \A g \in Tasks : Goes_on(g)
    BY <2>1 DEF Goes_on
  <2>3. ASSUME NEW g \in Tasks PROVE Holds_invariant(g)'
    <3>1. /\ Job_requestor(Job_of[g]) \in Requestors
          /\ Task_api(g) \in Requestors /\ Process_api(g) \in Requestors
      BY TaskAssumption, Requestor_types
    <3> QED
      BY <1>3, <2>1, <2>2, <3>1, Other_tasks_hold DEF IInv
  <2> QED
    BY <2>3
<1> QED
  BY <1>5, <1>6, <1>7, <1>8 DEF Do_something

(* Steps that change neither holds nor lists nor operations: commands,     *)
(* notifications.                                                          *)
LEMMA Quiet_steps_hold ==
  ASSUME IInv, UNCHANGED <<holder_map, use_list, operation>>,
         \A g \in Tasks : Goes_on(g)
  PROVE  \A g \in Tasks : Holds_invariant(g)'
<1> SUFFICES ASSUME NEW g \in Tasks PROVE Holds_invariant(g)'
  OBVIOUS
<1>1. /\ Job_requestor(Job_of[g]) \in Requestors
      /\ Task_api(g) \in Requestors /\ Process_api(g) \in Requestors
  BY TaskAssumption, Requestor_types
<1>2. \A r : Use_set(r)' = Use_set(r)
  BY DEF Use_set
<1> QED
  BY <1>1, <1>2, Other_tasks_hold DEF IInv

(* A task that has no process level uses, as all but those in their        *)
(* spooler_process, goes from one state to another.                        *)
LEMMA Change_of_state_holds ==
  ASSUME IInv, NEW t \in Tasks, UNCHANGED <<holder_map, use_list>>,
         task_state[t] \notin {"none", "closed", "running"},
         task_state'[t] \notin {"none", "closed", "starting"},
         \A g \in Tasks \ {t} : task_state'[g] = task_state[g] /\ operation'[g] = operation[g]
  PROVE  \A g \in Tasks : Holds_invariant(g)'
<1>1. \A r : Use_set(r)' = Use_set(r)
  BY DEF Use_set
<1>2. Holds_what_it_may(t)'
  BY <1>1 DEF IInv, Holds_invariant, Holds_what_it_may, May_be_held
<1>3. Holds_the_job_locks(t)'
  BY <1>1, Job_locks_stay
<1> QED
  BY <1>1, <1>2, <1>3, Step_of_one_task DEF Holds_invariant, Goes_on

(* The script calls the API.                                               *)
LEMMA Api_call_holds ==
  ASSUME IInv, NEW t \in Tasks, Api_call(t)
  PROVE  \A g \in Tasks : Holds_invariant(g)'
<1>1. Holder_types /\ Use_types /\ State_types /\ Lists_right /\ Holds_invariant(t)
  BY Parts_of_TypeOK DEF IInv, Lists_right
<1>2. CASE Delay_until_locks_available(t)
  BY <1>2, Quiet_steps_hold DEF Delay_until_locks_available, lock_vars, Goes_on
<1>3. ASSUME NEW l \in Locks, NEW mode \in Modes, Try_hold_lock(t, l, mode)
      PROVE  \A g \in Tasks : Holds_invariant(g)'
  <2>1. PICK r \in Requestors : r = Level(t)
    BY Requestor_types
  <2> DEFINE u    == <<r, l, mode>>
             list == <<u>>
  <2>2. /\ task_state[t] \in {"opening", "running"} /\ operation[t]
        /\ UNCHANGED <<task_state, operation>>
    BY <1>3 DEF Try_hold_lock, task_vars
  <2>3. /\ \A q \in Requestors \ {r} : Use_set(q)' = Use_set(q)
        /\ Use_set(r)' = Use_set(r) \cup {u}
    BY <1>1, <1>3, <2>1, Try_hold_lock_lists
  <2>4. /\ Requestor_of(u) = r /\ Lock_of(u) = l
        /\ list[1] = u /\ First(list, 1) = {u}
    BY DEF Requestor_of, Lock_of, First
  <2>5. Hold_locks(t, list, 1) \/ UNCHANGED holder_map
    BY <1>3, <2>1 DEF Try_hold_lock
  <2> HIDE DEF u, list
  <2>6. \A k \in Locks :
          /\ holder_map[k][t] \subseteq holder_map'[k][t]
          /\ holder_map'[k][t] \subseteq holder_map[k][t] \cup On_lock({u}, k)
          /\ \A g \in Tasks \ {t} : holder_map'[k][g] = holder_map[k][g]
    <3>1. CASE Hold_locks(t, list, 1)
      <4>1. \A k \in Locks :
              /\ holder_map'[k][t] = holder_map[k][t] \cup On_lock(First(list, 1), k)
              /\ \A g \in Tasks \ {t} : holder_map'[k][g] = holder_map[k][g]
        BY <1>1, <3>1, Hold_locks_effect
      <4> QED
        BY <2>4, <4>1
    <3>2. CASE UNCHANGED holder_map
      BY <3>2
    <3> QED
      BY <2>5, <3>1, <3>2
  <2>7. ASSUME NEW k \in Locks, NEW v \in holder_map'[k][t] PROVE May_be_held(t, k, v)'
    <3>1. CASE v \in holder_map[k][t]
      <4>1. May_be_held(t, k, v)
        BY <1>1, <3>1 DEF Holds_invariant, Holds_what_it_may
      <4>2. Requestor_of(v) \in Requestors
        BY <4>1, TaskAssumption, Requestor_types DEF May_be_held, Requestors_of
      <4>3. v \in Use_set(Requestor_of(v))'
        BY <2>3, <4>1, <4>2 DEF May_be_held
      <4> QED
        BY <2>2, <4>1, <4>3 DEF May_be_held
    <3>2. CASE v = u /\ k = l
      <4>1. u \in Use_set(r)'
        BY <2>3
      <4>2. r = IF task_state[t] = "opening" THEN Task_api(t) ELSE Process_api(t)
        BY <2>1 DEF Level
      <4> QED
        BY <2>2, <2>4, <3>2, <4>1, <4>2, Requestors_differ DEF May_be_held, Requestors_of
    <3> QED
      BY <2>4, <2>6, <2>7, <3>1, <3>2 DEF On_lock
  <2>8. Holds_what_it_may(t)'
    BY <2>7 DEF Holds_what_it_may
  <2>9. /\ r \in {Task_api(t), Process_api(t)}
        /\ Job_requestor(Job_of[t]) \in Requestors \ {r}
    BY <2>1, TaskAssumption, Requestor_types, Requestors_differ
  <2>10. Holds_the_job_locks(t)'
    BY <2>2, <2>3, <2>6, <2>9, Job_locks_stay
  <2> QED
    BY <2>2, <2>3, <2>6, <2>8, <2>9, <2>10, Step_of_one_task DEF Holds_invariant, Goes_on
<1> QED
  BY <1>2, <1>3 DEF Api_call

(* spooler_process has ended: the process level uses go.                   *)
LEMMA Step_completed_holds ==
  ASSUME IInv, NEW t \in Tasks, NEW result, Step_completed(t, result)
  PROVE  \A g \in Tasks : Holds_invariant(g)'
<1> DEFINE list == use_list[Process_api(t)]
           gone == First(list, Len(list))
           R    == Notified_by_release(waiting_queues, holder_map, lock_mode, t, list)
<1>1. /\ Holder_types /\ Use_types /\ State_types /\ Lists_right /\ Holds_invariant(t)
      /\ Process_api(t) \in Requestors /\ holder_map \in Holder_maps
      /\ Job_requestor(Job_of[t]) \in Requestors
  BY Parts_of_TypeOK, Requestor_types, TaskAssumption DEF IInv, Lists_right, Holder_types
<1>2. PICK state \in {"ending", "running_waiting_for_locks", "running"} :
        /\ Release_locks(holder_map, lock_mode, t, list)
        /\ task_state' = [Notified_task_states(R) EXCEPT ![t] = state]
        /\ \E ends : operation' = [operation EXCEPT ![t] = ends]
        /\ task_state[t] = "running"
  BY DEF Step_completed
<1>3. gone = Use_set(Process_api(t))
  BY <1>1, First_of_uses
<1>4. /\ \A r \in Requestors \ {Process_api(t)} : Use_set(r)' = Use_set(r)
      /\ \A j \in Jobs : Use_set(Job_requestor(j))' = Use_set(Job_requestor(j))
  BY <1>1, Step_completed_lists
<1> HIDE DEF list, R
<1>5. \A l \in Locks : /\ holder_map'[l][t] = holder_map[l][t] \ gone
                       /\ \A g \in Tasks \ {t} : holder_map'[l][g] = holder_map[l][g]
  BY <1>1, <1>2, Release_locks_effect
<1> HIDE DEF gone
<1>6. Notified_task_states(R) \in [Tasks -> Task_states]
  BY <1>1, Notified_types
<1>7. task_state'[t] \notin {"none", "closed", "starting"}
  BY <1>2, <1>6
<1>8. ASSUME NEW l \in Locks, NEW u \in holder_map'[l][t] PROVE May_be_held(t, l, u)'
  <2>1. May_be_held(t, l, u) /\ u \notin gone
    BY <1>1, <1>5, <1>8 DEF Holds_invariant, Holds_what_it_may
  <2>2. Requestor_of(u) # Process_api(t)
    BY <1>3, <2>1 DEF May_be_held
  <2>3. Requestor_of(u) \in Requestors
    BY <2>1, TaskAssumption, Requestor_types DEF May_be_held, Requestors_of
  <2> QED
    BY <1>4, <1>7, <2>1, <2>2, <2>3 DEF May_be_held
<1>9. Holds_what_it_may(t)'
  BY <1>8 DEF Holds_what_it_may
<1>10. Holds_the_job_locks(t)'
  <2>1. \A u \in gone : Requestor_of(u) # Job_requestor(Job_of[t])
    BY <1>1, <1>3, Requestors_differ DEF Lists_right, Lists_are_own
  <2>2. Use_set(Job_requestor(Job_of[t]))' = Use_set(Job_requestor(Job_of[t]))
    BY <1>4, TaskAssumption
  <2> QED
    BY <1>2, <1>5, <2>1, <2>2, Job_locks_stay
<1>11. \A g \in Tasks \ {t} : Goes_on(g) /\ operation'[g] = operation[g]
  BY <1>1, <1>2, <1>6, Notified_tasks_go_on DEF State_types
<1> QED
  BY <1>4, <1>5, <1>9, <1>10, <1>11, Step_of_one_task DEF Holds_invariant

(* The last operation has ended: everything is given back.                 *)
LEMMA Ending_completed_holds ==
  ASSUME IInv, NEW t \in Tasks, Ending_completed(t)
  PROVE  /\ \A g \in Tasks : Holds_invariant(g)'
         /\ task_state'[t] = "closed"
         /\ \A g \in Tasks \ {t} : Goes_on(g)
<1>1. /\ Holder_types /\ Use_types /\ State_types /\ Lists_right /\ Holds_invariant(t)
      /\ holder_map \in Holder_maps
      /\ Requestors_of(t) \subseteq Requestors
  BY Parts_of_TypeOK, Requestor_types, TaskAssumption
     DEF IInv, Lists_right, Holder_types, Requestors_of
<1>2. PICK o \in Requestor_orders(t) : \E R :
        /\ Release_locks(holder_map, lock_mode, t, use_list[o[1]] \o use_list[o[2]] \o use_list[o[3]])
        /\ task_state' = [Notified_task_states(R) EXCEPT ![t] = "closed"]
  BY DEF Ending_completed
<1>3. PICK R : task_state' = [Notified_task_states(R) EXCEPT ![t] = "closed"]
  BY <1>2
<1>6. PICK list : /\ list = use_list[o[1]] \o use_list[o[2]] \o use_list[o[3]]
                  /\ Release_locks(holder_map, lock_mode, t, list)
  BY <1>2
<1>4. {o[1], o[2], o[3]} = Requestors_of(t)
  BY DEF Requestor_orders, Requestors_of
<1>5. \A r \in Requestors_of(t) : Use_set(r) \subseteq First(list, Len(list))
  <2>1. /\ use_list[o[1]] \in Seq(Uses) /\ use_list[o[2]] \in Seq(Uses) /\ use_list[o[3]] \in Seq(Uses)
        /\ o[1] \in Requestors /\ o[2] \in Requestors /\ o[3] \in Requestors
    BY <1>1, <1>4 DEF Use_types
  <2> DEFINE q == use_list[o[1]] \o use_list[o[2]]
  <2>2. /\ q \in Seq(Uses)
        /\ First(q, Len(q)) = Use_set(o[1]) \cup Use_set(o[2])
    <3>1. First(use_list[o[1]], Len(use_list[o[1]])) = Use_set(o[1])
      BY <1>1, <2>1, First_of_uses
    <3>2. First(use_list[o[2]], Len(use_list[o[2]])) = Use_set(o[2])
      BY <1>1, <2>1, First_of_uses
    <3> DEFINE a == use_list[o[1]]
               b == use_list[o[2]]
    <3>3. a \in Seq(Uses) /\ b \in Seq(Uses) /\ q = a \o b
      BY <2>1
    <3>4. First(a, Len(a)) = Use_set(o[1]) /\ First(b, Len(b)) = Use_set(o[2])
      BY <3>1, <3>2
    <3> HIDE DEF a, b, q
    <3> QED BY <3>3, <3>4, First_of_both
  <2> HIDE DEF q
  <2>3. First(q \o use_list[o[3]], Len(q \o use_list[o[3]])) =
          Use_set(o[1]) \cup Use_set(o[2]) \cup Use_set(o[3])
    BY <1>1, <2>1, <2>2, First_of_both, First_of_uses
  <2>4. First(list, Len(list)) = Use_set(o[1]) \cup Use_set(o[2]) \cup Use_set(o[3])
    BY <1>6, <2>3 DEF q
  <2> QED
    BY <1>4, <2>4
<1>7. \A l \in Locks : /\ holder_map'[l][t] = holder_map[l][t] \ First(list, Len(list))
                       /\ \A g \in Tasks \ {t} : holder_map'[l][g] = holder_map[l][g]
  <2>1. holder_map' = Release(holder_map, t, list, Len(list))
    BY <1>6 DEF Release_locks
  <2>2. holder_map \in Holder_maps
    BY <1>1
  <2> QED
    BY <2>1, <2>2 DEF Release, Holder_maps, Holders
<1>8. \A l \in Locks : holder_map'[l][t] = {}
  BY <1>1, <1>5, <1>7 DEF Holds_invariant, Holds_what_it_may, May_be_held
<1>9. Notified_task_states(R) \in [Tasks -> Task_states]
  BY <1>1, Notified_types
<1>10. task_state'[t] = "closed"
  BY <1>3, <1>9
<1>11. \A g \in Tasks \ {t} : Goes_on(g)
  BY <1>1, <1>3, <1>9, Notified_tasks_go_on
<1>12. Holds_invariant(t)'
  BY <1>8, <1>10 DEF Holds_invariant, Holds_what_it_may, Holds_the_job_locks
<1>13. /\ UNCHANGED use_list
       /\ \A g \in Tasks \ {t} : operation'[g] = operation[g]
  BY <1>1 DEF Ending_completed, State_types
<1>14. \A r \in Requestors : Use_set(r)' = Use_set(r)
  BY <1>1, <1>13, Unchanged_lists
<1> QED
  BY <1>7, <1>10, <1>11, <1>12, <1>13, <1>14, Step_of_one_task

-----------------------------------------------------------------------------
(* A job starts a task, perhaps when another one has gone.                 *)

(* The states that tasks have when try_start_tasks is called: all as they   *)
(* are, but a closed task may be gone.                                     *)
Are_before_start(states) ==
  /\ states \in [Tasks -> Task_states]
  /\ \A g \in Tasks : \/ states[g] = task_state[g]
                      \/ task_state[g] = "closed" /\ states[g] = "none"

(* Of all tasks, at most one starts.                                       *)
LEMMA Try_start_tasks_states ==
  ASSUME TypeOK, NEW j \in Jobs, NEW state, NEW states, NEW wq, NEW enq,
         Are_before_start(states), Try_start_tasks(j, state, states, wq, enq)
  PROVE  \/ task_state' = states /\ job_state' = [job_state EXCEPT ![j] = state]
         \/ \E t \in Tasks :
              /\ Job_of[t] = j /\ states[t] = "none"
              /\ May_start_task(j, state, states)
              /\ task_state' = [states EXCEPT ![t] = "starting"]
              /\ job_state' = [job_state EXCEPT ![j] = "running"]
<1>1. ASSUME NEW t \in Tasks, Starts_task(j, t, state, states, wq, enq)
      PROVE  /\ Job_of[t] = j /\ states[t] = "none"
             /\ May_start_task(j, state, states)
             /\ task_state' = [states EXCEPT ![t] = "starting"]
             /\ job_state' = [job_state EXCEPT ![j] = "running"]
  BY <1>1 DEF Starts_task, Free_tasks
<1>2. ASSUME Starts_no_task(j, state, states, wq, enq)
      PROVE  task_state' = states /\ job_state' = [job_state EXCEPT ![j] = state]
  BY <1>2 DEF Starts_no_task
<1> QED
  BY <1>1, <1>2 DEF Try_start_tasks

LEMMA Try_start_tasks_holds ==
  ASSUME IInv, NEW j \in Jobs, NEW state, NEW states, NEW wq, NEW enq,
         Are_before_start(states), Try_start_tasks(j, state, states, wq, enq),
         \A k \in Jobs : Use_set(Job_requestor(k))' = Use_set(Job_requestor(k)),
         \A g \in Tasks : states[g] = task_state[g] =>
           /\ Use_set(Task_api(g))' = Use_set(Task_api(g))
           /\ Use_set(Process_api(g))' = Use_set(Process_api(g))
  PROVE  \A g \in Tasks : Holds_invariant(g)'
<1>1. Holder_types /\ Use_types /\ State_types /\ Lists_right
  BY Parts_of_TypeOK DEF IInv, Lists_right
<1>2. ASSUME NEW g \in Tasks, task_state'[g] = states[g], operation'[g] = operation[g],
             \A l \in Locks : holder_map'[l][g] = holder_map[l][g]
      PROVE  Holds_invariant(g)'
  <2>1. Holds_invariant(g) /\ TypeOK
    BY DEF IInv
  <2>2. CASE states[g] = task_state[g]
    <3>1. Job_of[g] \in Jobs
      BY TaskAssumption
    <3> QED
      BY <1>2, <2>1, <2>2, <3>1, Other_tasks_hold DEF Goes_on
  <2>3. CASE task_state[g] = "closed" /\ states[g] = "none"
    <3>1. \A l \in Locks : holder_map'[l][g] = {}
      BY <1>2, <2>1, <2>3, Idle_tasks_hold_nothing
    <3> QED
      BY <1>2, <2>3, <3>1 DEF Holds_invariant, Holds_what_it_may, Holds_the_job_locks
  <2> QED
    BY <2>2, <2>3 DEF Are_before_start
<1>3. CASE Starts_no_task(j, state, states, wq, enq)
  BY <1>2, <1>3 DEF Starts_no_task
<1>4. ASSUME NEW t \in Tasks, Starts_task(j, t, state, states, wq, enq)
      PROVE  \A g \in Tasks : Holds_invariant(g)'
  <2> DEFINE r    == Job_requestor(j)
             list == use_list[r]
  <2>1. /\ Hold_locks(t, list, Len(list))
        /\ t \in Free_tasks(j, states)
        /\ task_state' = [states EXCEPT ![t] = "starting"]
        /\ operation' = [operation EXCEPT ![t] = TRUE]
    BY <1>4 DEF Starts_task
  <2>2. /\ r \in Requestors /\ list \in Seq(Uses)
        /\ First(list, Len(list)) = Use_set(r)
    BY <1>1, Requestor_types, First_of_uses DEF Use_types
  <2> HIDE DEF list
  <2>3. \A l \in Locks :
          /\ holder_map'[l][t] = holder_map[l][t] \cup On_lock(Use_set(r), l)
          /\ \A g \in Tasks \ {t} : holder_map'[l][g] = holder_map[l][g]
    BY <1>1, <2>1, <2>2, Hold_locks_effect
  <2>4. Job_of[t] = j /\ states[t] = "none" /\ task_state[t] \in {"none", "closed"}
    BY <2>1 DEF Free_tasks, Are_before_start
  <2>5. \A l \in Locks : holder_map'[l][t] = On_lock(Use_set(r), l)
    BY <2>3, <2>4, Idle_tasks_hold_nothing DEF IInv
  <2>6. task_state'[t] = "starting" /\ \A g \in Tasks \ {t} : task_state'[g] = states[g]
    BY <2>1 DEF Are_before_start
  <2>7. \A g \in Tasks \ {t} : operation'[g] = operation[g]
    BY <1>1, <2>1 DEF State_types
  <2>8. Use_set(r)' = Use_set(r)
    OBVIOUS
  <2>9. Holds_what_it_may(t)'
    <3> SUFFICES ASSUME NEW l \in Locks, NEW u \in holder_map'[l][t]
                 PROVE  May_be_held(t, l, u)'
      BY DEF Holds_what_it_may
    <3>1. Lock_of(u) = l /\ u \in Use_set(r) /\ Requestor_of(u) = r
      BY <1>1, <2>2, <2>5 DEF On_lock, Lists_right, Lists_are_own
    <3>2. u \in Use_set(r)' /\ r # Task_api(t) /\ r # Process_api(t)
      BY <2>8, <3>1, Requestors_differ
    <3> QED
      BY <2>4, <2>6, <3>1, <3>2 DEF May_be_held, Requestors_of
  <2>10. Holds_the_job_locks(t)'
    <3> SUFFICES ASSUME NEW u \in Use_set(r)' PROVE Is_held_by(u, t)'
      BY <2>4 DEF Holds_the_job_locks
    <3>1. u \in Use_set(r) /\ Lock_of(u) \in Locks
      BY <1>1, <2>2, <2>8, Use_set_type DEF Uses, Lock_of
    <3> QED
      BY <2>5, <3>1 DEF Is_held_by, On_lock, Holders
  <2> QED
    BY <1>2, <2>3, <2>6, <2>7, <2>9, <2>10 DEF Holds_invariant
<1> QED
  BY <1>3, <1>4 DEF Try_start_tasks

(* The object of a closed task goes.                                       *)
LEMMA On_task_closed_before_start ==
  ASSUME IInv, NEW t \in Tasks, On_task_closed(t)
  PROVE  /\ task_state[t] = "closed"
         /\ Are_before_start([task_state EXCEPT ![t] = "none"])
<1>1. <<"Task_closed", t>> \in calls
  BY DEF On_task_closed
<1>2. task_state[t] = "closed"
  BY <1>1 DEF IInv, Closed_calls
<1>3. task_state \in [Tasks -> Task_states] /\ "none" \in Task_states
  BY Parts_of_TypeOK DEF IInv, State_types, Task_states
<1> QED
  BY <1>2, <1>3 DEF Are_before_start

LEMMA On_task_closed_holds ==
  ASSUME IInv, NEW t \in Tasks, On_task_closed(t)
  PROVE  \A g \in Tasks : Holds_invariant(g)'
<1> DEFINE states == [task_state EXCEPT ![t] = "none"]
<1>1. Use_types /\ State_types /\ Lists_right /\ Job_of[t] \in Jobs
  BY Parts_of_TypeOK, TaskAssumption DEF IInv, Lists_right
<1>2. PICK state, wq, enq : Try_start_tasks(Job_of[t], state, states, wq, enq)
  BY DEF On_task_closed
<1>3. task_state[t] = "closed" /\ Are_before_start(states)
  BY On_task_closed_before_start
<1>4. states[t] = "none"
  BY <1>1 DEF State_types
<1>5. ASSUME NEW g \in Tasks, states[g] = task_state[g]
      PROVE  /\ Use_set(Task_api(g))' = Use_set(Task_api(g))
             /\ Use_set(Process_api(g))' = Use_set(Process_api(g))
  <2>1. g # t
    BY <1>3, <1>4, <1>5
  <2>2. /\ Task_api(g) \in Requestors \ {Task_api(t), Process_api(t)}
        /\ Process_api(g) \in Requestors \ {Task_api(t), Process_api(t)}
    BY <2>1, Requestor_types, Requestors_differ
  <2> QED
    BY <1>1, <2>2, On_task_closed_lists
<1>6. \A k \in Jobs : Use_set(Job_requestor(k))' = Use_set(Job_requestor(k))
  BY <1>1, On_task_closed_lists
<1> HIDE DEF states
<1> QED
  BY <1>1, <1>2, <1>3, <1>5, <1>6, Try_start_tasks_holds

(* Every step preserves what tasks hold.                                   *)
LEMMA Next_holds ==
  ASSUME IInv, [Next]_vars
  PROVE  \A g \in Tasks : Holds_invariant(g)'
<1>1. State_types
  BY Parts_of_TypeOK DEF IInv
<1>2. \A r : UNCHANGED use_list => Use_set(r)' = Use_set(r)
  BY DEF Use_set
<1>3. ASSUME NEW j \in Jobs, NEW state, NEW wq, NEW enq, UNCHANGED use_list,
             Try_start_tasks(j, state, task_state, wq, enq)
      PROVE  \A g \in Tasks : Holds_invariant(g)'
  <2>1. Are_before_start(task_state)
    BY <1>1 DEF Are_before_start, State_types
  <2> QED
    BY <1>2, <1>3, <2>1, Try_start_tasks_holds
<1>4. ASSUME NEW j \in Jobs, Job_command(j)
      PROVE  \A g \in Tasks : Holds_invariant(g)'
  <2>1. CASE Start_job(j) \/ Stop_job(j)
    BY <2>1, Quiet_steps_hold DEF Start_job, Stop_job, lock_vars, Goes_on
  <2>2. CASE Unstop_job(j)
    BY <1>3, <2>2 DEF Unstop_job
  <2> QED
    BY <1>4, <2>1, <2>2 DEF Job_command
<1>5. ASSUME NEW j \in Jobs, NEW name, On_job_call(j, name)
      PROVE  \A g \in Tasks : Holds_invariant(g)'
  BY <1>3, <1>5 DEF On_job_call
<1>6. ASSUME NEW t \in Tasks, End_task(t)
      PROVE  \A g \in Tasks : Holds_invariant(g)'
  BY <1>6, Quiet_steps_hold DEF End_task, lock_vars, Goes_on
<1>7. ASSUME NEW t \in Tasks, Process_signaled(t)
      PROVE  \A g \in Tasks : Holds_invariant(g)'
  <2>1. /\ UNCHANGED <<holder_map, use_list>> /\ task_state[t] = "running_process"
        /\ task_state' = [task_state EXCEPT ![t] = "ending"]
        /\ operation' = [operation EXCEPT ![t] = TRUE]
    BY <1>7 DEF Process_signaled, lock_vars
  <2> QED
    BY <1>1, <2>1, Change_of_state_holds DEF State_types
<1>8. ASSUME NEW t \in Tasks, NEW result,
             Starting_completed(t, result) \/ Opening_completed(t, result)
      PROVE  \A g \in Tasks : Holds_invariant(g)'
  <2>1. /\ UNCHANGED <<holder_map, use_list>> /\ task_state[t] \in {"starting", "opening"}
        /\ \E s \in {"ending", "running_process", "opening", "opening_waiting_for_locks", "running"} :
           \E b : /\ task_state' = [task_state EXCEPT ![t] = s]
                  /\ operation' = [operation EXCEPT ![t] = b]
    BY <1>8 DEF Starting_completed, Opening_completed, lock_vars
  <2>2. task_state'[t] \notin {"none", "closed", "starting"}
    BY <1>1, <2>1 DEF State_types
  <2>3. \A g \in Tasks \ {t} : task_state'[g] = task_state[g] /\ operation'[g] = operation[g]
    BY <1>1, <2>1 DEF State_types
  <2> QED
    BY <2>1, <2>2, <2>3, Change_of_state_holds
<1>9. ASSUME NEW R, Notify_requestors(R), UNCHANGED <<holder_map, use_list>>
      PROVE  \A g \in Tasks : Holds_invariant(g)'
  BY <1>1, <1>9, Notified_tasks_go_on, Quiet_steps_hold DEF Notify_requestors
<1>10. ASSUME NEW l \in Locks, Change_lock(l)
       PROVE  \A g \in Tasks : Holds_invariant(g)'
  <2>1. CASE (Remove(l) \/ Add_lock(l)) /\ UNCHANGED task_vars
    BY <2>1, Quiet_steps_hold DEF Remove, Add_lock, task_vars, Goes_on
  <2>2. ASSUME NEW n, Replace_with(l, n) \/ Set_max_non_exclusive(l, n)
        PROVE  UNCHANGED <<holder_map, use_list>>
    BY <2>2 DEF Replace_with, Set_max_non_exclusive
  <2> QED
    BY <1>9, <1>10, <2>1, <2>2 DEF Change_lock
<1>11. ASSUME NEW l \in Locks, Handle_candidate(l)
       PROVE  \A g \in Tasks : Holds_invariant(g)'
  BY <1>9, <1>11 DEF Handle_candidate, Handle_replace_or_remove_candidate
<1>12. CASE UNCHANGED vars
  BY <1>12, Quiet_steps_hold DEF vars, lock_vars, task_vars, Goes_on
<1> QED
  BY <1>4, <1>5, <1>6, <1>7, <1>8, <1>10, <1>11, <1>12, On_task_closed_holds, Do_something_holds,
     Api_call_holds, Step_completed_holds, Ending_completed_holds DEF Next, Operation_completed

-----------------------------------------------------------------------------
(* Which tasks there are, which are closed, and the states of the jobs.    *)

(* Steps in which no task object comes or goes, and only a task that is    *)
(* closed waits for Task_closed_call.                                      *)
Nobody_comes_or_goes ==
  \A g \in Tasks :
    /\ task_state'[g] = "none" <=> task_state[g] = "none"
    /\ task_state[g] = "closed" => task_state'[g] = "closed"
    /\ <<"Task_closed", g>> \in calls' => <<"Task_closed", g>> \in calls \/ task_state'[g] = "closed"

(* Notifications neither close a task nor register its Task_closed_call.   *)
LEMMA Notified_tasks_stay ==
  ASSUME TypeOK, NEW R
  PROVE  \A g \in Tasks :
           /\ Notified_task_states(R)[g] = "none" <=> task_state[g] = "none"
           /\ task_state[g] = "closed" => Notified_task_states(R)[g] = "closed"
           /\ <<"Task_closed", g>> \notin Notified_calls(R)
BY DEF Notified_task_states, Is_notified, Waiting, Notified_calls

(* The steps of a task t: its state changes from one to another.           *)
LEMMA State_of_one_task ==
  ASSUME TypeOK, NEW t \in Tasks, NEW R, NEW s, NEW other_calls,
         task_state[t] \notin {"none", "closed"}, s # "none",
         task_state' = [Notified_task_states(R) EXCEPT ![t] = s],
         calls' = other_calls \cup Notified_calls(R),
         \A g \in Tasks : <<"Task_closed", g>> \in other_calls =>
           <<"Task_closed", g>> \in calls \/ (g = t /\ s = "closed")
  PROVE  Nobody_comes_or_goes
<1>1. Notified_task_states(R) \in [Tasks -> Task_states]
  BY Notified_types, Parts_of_TypeOK
<1>2. task_state'[t] = s /\ \A g \in Tasks \ {t} : task_state'[g] = Notified_task_states(R)[g]
  BY <1>1
<1> QED
  BY <1>2, Notified_tasks_stay DEF Nobody_comes_or_goes

LEMMA Steps_of_tasks_keep_tasks ==
  ASSUME TypeOK, NEW t \in Tasks,
         \/ \E name \in Step_calls : Do_something(t, name)
         \/ Api_call(t) \/ End_task(t) \/ Operation_completed(t) \/ Process_signaled(t)
  PROVE  Nobody_comes_or_goes
<1>0. State_types
  BY Parts_of_TypeOK
<1>1. ASSUME NEW s, s # "none", task_state[t] \notin {"none", "closed"},
             task_state' = [task_state EXCEPT ![t] = s], calls' \subseteq calls
      PROVE  Nobody_comes_or_goes
  <2>1. task_state'[t] = s /\ \A g \in Tasks \ {t} : task_state'[g] = task_state[g]
    BY <1>0, <1>1 DEF State_types
  <2> QED
    BY <1>1, <2>1 DEF Nobody_comes_or_goes
<1>2. ASSUME task_state' = task_state, \A g \in Tasks : <<"Task_closed", g>> \in calls' =>
                                          <<"Task_closed", g>> \in calls
      PROVE  Nobody_comes_or_goes
  BY <1>2 DEF Nobody_comes_or_goes
<1>3. ASSUME NEW name \in Step_calls, Do_something(t, name)
      PROVE  Nobody_comes_or_goes
  <2> DEFINE other_calls == calls \ {<<name, t>>}
  <2>1. ASSUME NEW hm, NEW md, To_ending(t, hm, md, other_calls),
               task_state[t] \in {"opening", "running"} \cup Waiting
        PROVE  Nobody_comes_or_goes
    <3>1. PICK R : /\ task_state' = [Notified_task_states(R) EXCEPT ![t] = "ending"]
                   /\ calls' = other_calls \cup Notified_calls(R)
      BY <2>1 DEF To_ending
    <3>2. /\ task_state[t] \notin {"none", "closed"}
          /\ \A g \in Tasks : <<"Task_closed", g>> \in other_calls => <<"Task_closed", g>> \in calls
      BY <2>1 DEF Waiting
    <3> HIDE DEF other_calls
    <3>3. PICK c : c = other_calls
      OBVIOUS
    <3> QED
      BY <3>1, <3>2, <3>3, State_of_one_task
  <2>2. CASE Steps_to_ending(t, other_calls)
    BY <2>1, <2>2 DEF Steps_to_ending, Ends_in_do_something
  <2>3. CASE Fails_to_hold(t, other_calls)
    BY <2>1, <2>3 DEF Fails_to_hold
  <2>4. CASE Steps_into_script(t, other_calls) \/ (UNCHANGED task_state /\ calls' = other_calls)
    BY <1>2, <2>4 DEF Steps_into_script
  <2> QED
    BY <1>3, <2>2, <2>3, <2>4 DEF Do_something
<1>4. CASE Api_call(t)
  BY <1>2, <1>4 DEF Api_call, Try_hold_lock, Delay_until_locks_available, task_vars
<1>5. CASE End_task(t)
  BY <1>2, <1>5 DEF End_task
<1>6. ASSUME NEW result, Starting_completed(t, result) \/ Opening_completed(t, result)
      PROVE  Nobody_comes_or_goes
  <2>1. /\ task_state[t] \in {"starting", "opening"} /\ calls' = calls
        /\ \E s \in {"ending", "running_process", "opening", "opening_waiting_for_locks", "running"} :
             task_state' = [task_state EXCEPT ![t] = s]
    BY <1>6 DEF Starting_completed, Opening_completed
  <2> QED
    BY <1>1, <2>1
<1>7. ASSUME NEW result, Step_completed(t, result)
      PROVE  Nobody_comes_or_goes
  <2> DEFINE R == Notified_by_release(waiting_queues, holder_map, lock_mode, t,
                                      use_list[Process_api(t)])
  <2>1. PICK s \in {"ending", "running_waiting_for_locks", "running"} :
          task_state' = [Notified_task_states(R) EXCEPT ![t] = s]
    BY <1>7 DEF Step_completed
  <2>2. /\ task_state[t] = "running"
        /\ calls' = calls \cup Notified_calls(R) \cup {<<"Try_next_step", t>>}
    BY <1>7 DEF Step_completed
  <2> HIDE DEF R
  <2>3. PICK c : c = calls \cup {<<"Try_next_step", t>>}
    OBVIOUS
  <2>4. /\ calls' = c \cup Notified_calls(R)
        /\ \A g \in Tasks : <<"Task_closed", g>> \in c => <<"Task_closed", g>> \in calls
    BY <2>2, <2>3
  <2> QED
    BY <2>1, <2>2, <2>4, State_of_one_task
<1>8. CASE Ending_completed(t)
  <2>1. PICK R : /\ task_state[t] = "ending"
                 /\ task_state' = [Notified_task_states(R) EXCEPT ![t] = "closed"]
                 /\ calls' = calls \cup Notified_calls(R) \cup {<<"Task_closed", t>>}
    BY <1>8 DEF Ending_completed
  <2>2. PICK c : c = calls \cup {<<"Task_closed", t>>}
    OBVIOUS
  <2>3. /\ calls' = c \cup Notified_calls(R)
        /\ \A g \in Tasks : <<"Task_closed", g>> \in c => <<"Task_closed", g>> \in calls \/ g = t
    BY <2>1, <2>2
  <2> QED
    BY <2>1, <2>3, State_of_one_task
<1>9. CASE Process_signaled(t)
  BY <1>1, <1>9 DEF Process_signaled
<1> QED
  BY <1>3, <1>4, <1>5, <1>6, <1>7, <1>8, <1>9 DEF Operation_completed

LEMMA Other_steps_keep_tasks ==
  ASSUME TypeOK,
         \/ \E j \in Jobs : Start_job(j) \/ Stop_job(j)
         \/ \E l \in Locks : Change_lock(l) \/ Handle_candidate(l)
         \/ UNCHANGED vars
  PROVE  Nobody_comes_or_goes
<1>1. ASSUME NEW j \in Jobs, Start_job(j) \/ Stop_job(j)
      PROVE  Nobody_comes_or_goes
  BY <1>1 DEF Start_job, Stop_job, Nobody_comes_or_goes
<1>2. ASSUME NEW R, Notify_requestors(R)
      PROVE  Nobody_comes_or_goes
  BY <1>2, Notified_tasks_stay DEF Notify_requestors, Nobody_comes_or_goes
<1>3. CASE UNCHANGED task_vars
  BY <1>3 DEF task_vars, Nobody_comes_or_goes
<1> QED
  BY <1>1, <1>2, <1>3 DEF Change_lock, Handle_candidate, vars

LEMMA Kept_tasks_keep_closed_calls ==
  ASSUME Closed_calls, Nobody_comes_or_goes
  PROVE  Closed_calls'
BY DEF Closed_calls, Nobody_comes_or_goes

(* A job's state goes on to agree with its tasks if they stay and the new  *)
(* state is one that agrees.                                               *)
LEMMA Kept_tasks_keep_agreement ==
  ASSUME Job_state_agrees, Nobody_comes_or_goes,
         \A j \in Jobs : \/ job_state'[j] \in {job_state[j], "pending"}
                         \/ job_state'[j] = "stopped" /\ Running_tasks(j) = {}
                         \/ job_state'[j] = "stopping" /\ Running_tasks(j) # {}
  PROVE  Job_state_agrees'
<1>1. \A j \in Jobs : Running_tasks(j)' = Running_tasks(j)
  BY DEF Nobody_comes_or_goes, Running_tasks, Tasks_of
<1> QED
  BY <1>1 DEF Job_state_agrees

(* try_start_tasks in a state that agrees with the tasks the job has then. *)
LEMMA Try_start_tasks_keeps_agreement ==
  ASSUME IInv, NEW j \in Jobs, NEW state, NEW states, NEW wq, NEW enq,
         Are_before_start(states), Try_start_tasks(j, state, states, wq, enq),
         state = "stopped" => Tasks_of(j, states) = {},
         state \in {"stopping", "running"} => Tasks_of(j, states) # {},
         \A t \in Tasks : Job_of[t] # j => states[t] = task_state[t]
  PROVE  /\ Job_state_agrees'
         /\ \A t \in Tasks : states[t] = "closed" => task_state'[t] = "closed"
<1>1. TypeOK /\ job_state \in [Jobs -> Job_states] /\ states \in [Tasks -> Task_states]
  BY Parts_of_TypeOK DEF IInv, State_types, Are_before_start
<1>2. ASSUME NEW k \in Jobs, k # j, job_state'[k] = job_state[k],
             \A t \in Tasks : Job_of[t] = k => task_state'[t] = states[t]
      PROVE  /\ job_state'[k] = "stopped" => Running_tasks(k)' = {}
             /\ job_state'[k] \in {"stopping", "running"} => Running_tasks(k)' # {}
  <2>1. Running_tasks(k)' = Running_tasks(k)
    BY <1>2 DEF Running_tasks, Tasks_of
  <2> QED
    BY <1>2, <2>1 DEF IInv, Job_state_agrees
<1>3. CASE task_state' = states /\ job_state' = [job_state EXCEPT ![j] = state]
  <2>1. Running_tasks(j)' = Tasks_of(j, states) /\ job_state'[j] = state
    BY <1>1, <1>3 DEF Running_tasks, Tasks_of
  <2>2. \A k \in Jobs \ {j} : job_state'[k] = job_state[k]
    BY <1>1, <1>3
  <2>3. \A t \in Tasks : task_state'[t] = states[t]
    BY <1>3
  <2>4. \A k \in Jobs : /\ job_state'[k] = "stopped" => Running_tasks(k)' = {}
                        /\ job_state'[k] \in {"stopping", "running"} => Running_tasks(k)' # {}
    BY <1>2, <2>1, <2>2, <2>3
  <2> QED
    BY <2>3, <2>4 DEF Job_state_agrees
<1>4. ASSUME NEW t \in Tasks, Job_of[t] = j, states[t] = "none",
             task_state' = [states EXCEPT ![t] = "starting"],
             job_state' = [job_state EXCEPT ![j] = "running"]
      PROVE  /\ Job_state_agrees'
             /\ \A g \in Tasks : states[g] = "closed" => task_state'[g] = "closed"
  <2>1. task_state'[t] = "starting" /\ \A g \in Tasks \ {t} : task_state'[g] = states[g]
    BY <1>1, <1>4
  <2>2. t \in Running_tasks(j)' /\ job_state'[j] = "running"
    BY <1>1, <1>4, <2>1 DEF Running_tasks, Tasks_of
  <2>3. \A k \in Jobs \ {j} : job_state'[k] = job_state[k]
    BY <1>1, <1>4
  <2>4. \A k \in Jobs : /\ job_state'[k] = "stopped" => Running_tasks(k)' = {}
                        /\ job_state'[k] \in {"stopping", "running"} => Running_tasks(k)' # {}
    BY <1>2, <1>4, <2>1, <2>2, <2>3
  <2> QED
    BY <1>4, <2>1, <2>4 DEF Job_state_agrees
<1> QED
  BY <1>1, <1>3, <1>4, Try_start_tasks_states

(* remove_running_task, unstop and the calls of a job.                     *)
LEMMA Starts_keep_agreement ==
  ASSUME IInv,
         \/ \E j \in Jobs : Unstop_job(j) \/ \E name \in Job_calls : On_job_call(j, name)
         \/ \E t \in Tasks : On_task_closed(t)
  PROVE  Job_state_agrees' /\ Closed_calls'
<1>1. State_types /\ TypeOK
  BY Parts_of_TypeOK DEF IInv
<1>2. ASSUME NEW j \in Jobs, NEW state \in {"pending", job_state[j]}, NEW wq, NEW enq,
             Try_start_tasks(j, state, task_state, wq, enq), calls' \subseteq calls
      PROVE  Job_state_agrees' /\ Closed_calls'
  <2>1. Are_before_start(task_state)
    BY <1>1 DEF Are_before_start, State_types
  <2>2. /\ state = "stopped" => Tasks_of(j, task_state) = {}
        /\ state \in {"stopping", "running"} => Tasks_of(j, task_state) # {}
    BY <1>2 DEF IInv, Job_state_agrees, Running_tasks
  <2>3. /\ Job_state_agrees'
        /\ \A t \in Tasks : task_state[t] = "closed" => task_state'[t] = "closed"
    BY <1>2, <2>1, <2>2, Try_start_tasks_keeps_agreement
  <2> QED
    BY <1>2, <2>3 DEF IInv, Closed_calls
<1>3. ASSUME NEW j \in Jobs, Unstop_job(j)
      PROVE  Job_state_agrees' /\ Closed_calls'
  BY <1>2, <1>3 DEF Unstop_job
<1>4. ASSUME NEW j \in Jobs, NEW name, On_job_call(j, name)
      PROVE  Job_state_agrees' /\ Closed_calls'
  BY <1>2, <1>4 DEF On_job_call
<1>5. ASSUME NEW t \in Tasks, On_task_closed(t)
      PROVE  Job_state_agrees' /\ Closed_calls'
  <2> DEFINE j      == Job_of[t]
             states == [task_state EXCEPT ![t] = "none"]
             left   == Tasks_of(j, states)
             state  == IF left # {} THEN job_state[j] ELSE State_without_tasks(job_state[j])
  <2>1. PICK wq, enq : Try_start_tasks(j, state, states, wq, enq)
    BY <1>5 DEF On_task_closed
  <2>2. j \in Jobs /\ Are_before_start(states) /\ task_state[t] = "closed"
    BY <1>5, TaskAssumption, On_task_closed_before_start
  <2>3. states[t] = "none" /\ \A g \in Tasks \ {t} : states[g] = task_state[g]
    BY <1>1 DEF State_types
  <2>4. calls' \subseteq (calls \ {<<name, t>> : name \in Task_calls}) \cup {<<"Below_max_tasks", j>>}
    BY <1>5 DEF On_task_closed
  <2>5. \A g \in Tasks : <<"Task_closed", g>> \in calls' => g # t /\ <<"Task_closed", g>> \in calls
    BY <2>4 DEF Task_calls
  <2>6. t \in Running_tasks(j) /\ left \subseteq Running_tasks(j)
    BY <2>2, <2>3 DEF Running_tasks, Tasks_of
  <2> HIDE DEF states, left
  <2>7. /\ state = "stopped" => left = {}
        /\ state \in {"stopping", "running"} => left # {}
    <3>1. job_state[j] # "stopped"
      BY <2>2, <2>6 DEF IInv, Job_state_agrees
    <3> QED
      BY <1>1, <2>2, <3>1 DEF State_without_tasks, State_types, Job_states
  <2> HIDE DEF state
  <2>8. /\ Job_state_agrees'
        /\ \A g \in Tasks : states[g] = "closed" => task_state'[g] = "closed"
    <3>1. \A g \in Tasks : Job_of[g] # j => states[g] = task_state[g]
      BY <2>3
    <3> HIDE DEF j
    <3> QED
      BY <2>1, <2>2, <2>7, <3>1, Try_start_tasks_keeps_agreement DEF left
  <2> QED
    BY <2>3, <2>5, <2>8 DEF IInv, Closed_calls
<1> QED
  BY <1>3, <1>4, <1>5

-----------------------------------------------------------------------------
(* The invariant.                                                          *)

LEMMA Init_invariant == Init => IInv
<1> SUFFICES ASSUME Init PROVE IInv
  OBVIOUS
<1>1. TypeOK
  BY Init_type
<1>2. Job_lists_stay
  <2>1. \A j \in Jobs : Job_requestor(j) \in Requestors
                        /\ Job_requestor(j)[1] = "job" /\ Job_requestor(j)[2] = j
    BY Requestor_types DEF Job_requestor
  <2> QED
    BY <2>1 DEF Init, Job_lists_stay, Job_list
<1>3. Lists_are_own
  <2> SUFFICES ASSUME NEW r \in Requestors, NEW u \in Use_set(r) PROVE Requestor_of(u) = r
    BY DEF Lists_are_own
  <2>1. CASE r[1] = "job"
    BY <2>1 DEF Init, Use_set, Requestor_of
  <2>2. CASE r[1] # "job"
    <3>1. use_list[r] = <<>>
      BY <2>2 DEF Init
    <3> QED
      BY <3>1 DEF Use_set
  <2> QED
    BY <2>1, <2>2
<1>4. Closed_calls
  BY DEF Init, Closed_calls
<1>5. \A t \in Tasks : Holds_invariant(t)
  BY DEF Init, Holds_invariant, Holds_what_it_may, Holds_the_job_locks, No_holders, Holders
<1>6. Job_state_agrees
  BY DEF Init, Job_state_agrees
<1> QED
  BY <1>1, <1>2, <1>3, <1>4, <1>5, <1>6 DEF IInv

(* Steps of tasks, locks and commands preserve the agreement of jobs and   *)
(* tasks: only finish stops the job, and the task is still there.          *)
LEMMA Next_agrees ==
  ASSUME IInv, [Next]_vars
  PROVE  Job_state_agrees' /\ Closed_calls'
<1>0. TypeOK /\ State_types /\ Job_state_agrees /\ Closed_calls
  BY Parts_of_TypeOK DEF IInv
<1>1. ASSUME Nobody_comes_or_goes, job_state' = job_state
      PROVE  Job_state_agrees' /\ Closed_calls'
  BY <1>0, <1>1, Kept_tasks_keep_agreement, Kept_tasks_keep_closed_calls
<1>2. ASSUME NEW t \in Tasks,
             \/ \E name \in Step_calls : Do_something(t, name)
             \/ Api_call(t) \/ End_task(t) \/ Process_signaled(t)
             \/ \E result : Starting_completed(t, result) \/ Opening_completed(t, result)
                            \/ Step_completed(t, result)
      PROVE  job_state' = job_state
  BY <1>2 DEF Do_something, Api_call, Try_hold_lock, Delay_until_locks_available, task_vars, End_task,
              Process_signaled, Starting_completed, Opening_completed, Step_completed
<1>3. ASSUME NEW t \in Tasks, Ending_completed(t), Nobody_comes_or_goes
      PROVE  Job_state_agrees' /\ Closed_calls'
  <2>1. t \in Running_tasks(Job_of[t]) /\ Job_of[t] \in Jobs
    BY <1>3, TaskAssumption DEF Ending_completed, Running_tasks, Tasks_of
  <2>2. \E s \in {"stopping", job_state[Job_of[t]]} : job_state' = [job_state EXCEPT ![Job_of[t]] = s]
    BY <1>3 DEF Ending_completed
  <2>3. \A j \in Jobs : \/ job_state'[j] = job_state[j]
                        \/ job_state'[j] = "stopping" /\ Running_tasks(j) # {}
    BY <1>0, <2>1, <2>2 DEF State_types
  <2> QED
    BY <1>0, <1>3, <2>3, Kept_tasks_keep_agreement, Kept_tasks_keep_closed_calls
<1>4. ASSUME NEW j \in Jobs, Start_job(j) \/ Stop_job(j), Nobody_comes_or_goes
      PROVE  Job_state_agrees' /\ Closed_calls'
  <2>1. CASE Start_job(j)
    <3>1. \A k \in Jobs : job_state'[k] \in {job_state[k], "pending"}
      BY <1>0, <2>1 DEF Start_job, State_types
    <3> QED
      BY <1>0, <1>4, <3>1, Kept_tasks_keep_agreement, Kept_tasks_keep_closed_calls
  <2>2. CASE Stop_job(j)
    <3>1. job_state' = [job_state EXCEPT ![j] = IF Running_tasks(j) = {} THEN "stopped" ELSE "stopping"]
      BY <2>2 DEF Stop_job
    <3>2. \A k \in Jobs : \/ job_state'[k] = job_state[k]
                          \/ job_state'[k] = "stopped" /\ Running_tasks(k) = {}
                          \/ job_state'[k] = "stopping" /\ Running_tasks(k) # {}
      BY <1>0, <3>1 DEF State_types
    <3> QED
      BY <1>0, <1>4, <3>2, Kept_tasks_keep_agreement, Kept_tasks_keep_closed_calls
  <2> QED
    BY <1>4, <2>1, <2>2
<1>5. ASSUME NEW l \in Locks, Change_lock(l) \/ Handle_candidate(l)
      PROVE  job_state' = job_state
  BY <1>5 DEF Change_lock, Handle_candidate, Notify_requestors, task_vars
<1>6. CASE UNCHANGED vars
  <2>1. job_state' = job_state
    BY <1>6 DEF vars, task_vars
  <2> QED
    BY <1>0, <1>1, <1>6, <2>1, Other_steps_keep_tasks
<1>7. ASSUME NEW t \in Tasks,
             \/ \E name \in Step_calls : Do_something(t, name)
             \/ Api_call(t) \/ End_task(t) \/ Operation_completed(t) \/ Process_signaled(t)
      PROVE  Job_state_agrees' /\ Closed_calls'
  BY <1>0, <1>1, <1>2, <1>3, <1>7, Steps_of_tasks_keep_tasks DEF Operation_completed
<1>8. ASSUME NEW l \in Locks, Change_lock(l) \/ Handle_candidate(l)
      PROVE  Job_state_agrees' /\ Closed_calls'
  BY <1>0, <1>1, <1>5, <1>8, Other_steps_keep_tasks
<1>9. ASSUME NEW j \in Jobs, Job_command(j)
      PROVE  Job_state_agrees' /\ Closed_calls'
  BY <1>0, <1>4, <1>9, Other_steps_keep_tasks, Starts_keep_agreement DEF Job_command
<1> QED
  BY <1>6, <1>7, <1>8, <1>9, Starts_keep_agreement DEF Next

LEMMA Next_invariant ==
  ASSUME IInv, TypeOK', [Next]_vars
  PROVE  IInv'
<1>1. Use_types /\ Lists_right
  BY Parts_of_TypeOK DEF IInv, Lists_right
<1>2. Lists_right'
  BY <1>1, Lists_stay_right
<1>3. \A t \in Tasks : Holds_invariant(t)'
  BY Next_holds
<1>4. Job_state_agrees' /\ Closed_calls'
  BY Next_agrees
<1> QED
  BY <1>2, <1>3, <1>4 DEF IInv, Lists_right

LEMMA Invariant == Spec => []IInv
<1>1. IInv /\ TypeOK' /\ [Next]_vars => IInv'
  BY Next_invariant
<1> QED
  BY Init_invariant, <1>1, Type_correct, PTL DEF Spec

-----------------------------------------------------------------------------
(* What the invariant says of tasks and jobs.                              *)

(* A job is stopped exactly when its last task has gone, and never stays   *)
(* running or stopping without a task (set_state, remove_running_task,     *)
(* finish and try_start_tasks agree), in every instance.                   *)
THEOREM Job_states_agree == Spec => []Job_state_agrees
<1>1. IInv => Job_state_agrees
  BY DEF IInv
<1> QED
  BY <1>1, Invariant, PTL

(* From the step that starts it until its locks are given back in close, a *)
(* task holds every lock of its job (try_start_tasks, hold_locks, close).  *)
THEOREM Job_locks_are_kept == Spec => []Job_locks_are_held
<1>1. IInv => Job_locks_are_held
  BY DEF IInv, Holds_invariant, Holds_the_job_locks, Job_locks_are_held
<1> QED
  BY <1>1, Invariant, PTL

(* Locks of the process level are held during one spooler_process only, a  *)
(* closed task holds nothing, and nobody holds through another one's use   *)
(* (set_state_direct, Task::close, release_locks).                         *)
THEOREM Holds_are_given_back == Spec => []Holds_no_longer_than_allowed
<1>1. IInv => Holds_no_longer_than_allowed
  BY DEF IInv, Holds_invariant, Holds_what_it_may, May_be_held, Requestors_of,
         Holds_no_longer_than_allowed
<1> QED
  BY <1>1, Invariant, PTL

(* Whoever may have a lock as a new holder may have it as any holder.      *)
LEMMA Free_for_everybody ==
  ASSUME NEW hm, NEW md, NEW u, NEW t \in Tasks, Is_free_for(hm, md, u, NoHolder)
  PROVE  Is_free_for(hm, md, u, t)
<1>1. NoHolder \notin Held_by(hm, Lock_of(u))
  BY LockAssumption DEF Held_by, Holders
<1> QED
  BY <1>1 DEF Is_free_for

(* hold_locks leaves a lock alone that its first k uses do not name.       *)
LEMMA Untouched_lock_is_free ==
  ASSUME NEW hm \in Holder_maps, NEW md, NEW t \in Tasks, NEW list, NEW k, NEW u,
         Lock_of(u) \in Locks, On_lock(First(list, k), Lock_of(u)) = {},
         NEW h, Is_free_for(hm, md, u, h)
  PROVE  Is_free_for(Hold(hm, t, list, k), Hold_mode(hm, md, t, list, k), u, h)
<1> DEFINE nh == Hold(hm, t, list, k)
           nm == Hold_mode(hm, md, t, list, k)
<1>1. PICK l \in Locks : l = Lock_of(u)
  OBVIOUS
<1>2. t \in Holders
  BY DEF Holders
<1>3. \A g \in Holders : nh[l][g] = hm[l][g]
  <2>1. /\ nh[l][t] = hm[l][t] \cup On_lock(First(list, k), l)
        /\ \A g \in Holders \ {t} : nh[l][g] = hm[l][g]
    BY <1>2, Hold_by_lock
  <2> QED
    BY <1>1, <2>1
<1>4. nm[l] = md[l]
  BY <1>1 DEF Hold_mode, Has_exclusive
<1>5. Held_by(nh, l) = Held_by(hm, l)
  BY <1>3 DEF Held_by
<1> HIDE DEF nh, nm
<1>6. /\ Is_free(nh, l) <=> Is_free(hm, l)
      /\ Count_non_exclusive_holders(nh, nm, l) = Count_non_exclusive_holders(hm, md, l)
  BY <1>4, <1>5 DEF Is_free, Count_non_exclusive_holders
<1>7. Is_free_for(nh, nm, u, h)
  BY <1>1, <1>4, <1>5, <1>6 DEF Is_free_for
<1> QED
  BY <1>7 DEF nh, nm

(* A job's list names every lock once, so that none of its uses changes    *)
(* what the next one finds.                                                *)
LEMMA Job_lists_name_locks_once ==
  ASSUME TypeOK, Job_lists_stay, NEW j \in Jobs,
         NEW i \in 1 .. Len(use_list[Job_requestor(j)])
  PROVE  On_lock(First(use_list[Job_requestor(j)], i - 1),
                 Lock_of(use_list[Job_requestor(j)][i])) = {}
<1> DEFINE list == use_list[Job_requestor(j)]
<1>1. list \in Seq(Uses)
  BY Requestor_types, Parts_of_TypeOK DEF Use_types
<1>2. DOMAIN list = 1 .. Len(list) /\ Len(list) \in Nat
  BY <1>1, LenProperties
<1>3. list = Job_list(j) /\ DOMAIN list = DOMAIN Job_lock_uses[j]
  BY DEF Job_lists_stay, Job_list
<1>4. \A k \in DOMAIN list : Lock_of(list[k]) = Job_lock_uses[j][k][1]
  BY <1>3 DEF Job_list, Lock_of
<1>5. \A k, n \in DOMAIN list : Lock_of(list[k]) = Lock_of(list[n]) => k = n
  BY <1>3, <1>4, TaskAssumption
<1> HIDE DEF list
<1>6. \A k \in 1 .. i - 1 : k \in DOMAIN list /\ k # i
  BY <1>2 DEF list
<1>7. i \in DOMAIN list
  BY <1>2 DEF list
<1>8. \A k \in 1 .. i - 1 : Lock_of(list[k]) # Lock_of(list[i])
  BY <1>5, <1>6, <1>7
<1> QED
  BY <1>8 DEF On_lock, First, list

(* try_start_tasks asks whether all locks are available and only then      *)
(* creates the task and lets it hold them: hold_locks does not throw, for  *)
(* every list a job can have.                                              *)
THEOREM Starts_hold_all_locks == Spec => []Job_hold_does_not_throw
<1>1. ASSUME IInv PROVE Job_hold_does_not_throw
  <2> SUFFICES ASSUME NEW j \in Jobs, NEW t \in Tasks, Job_locks_are_available(j, waiting_queues)
               PROVE  Holds_up_to(holder_map, lock_mode, t, use_list[Job_requestor(j)],
                                  Len(use_list[Job_requestor(j)]))
    BY DEF Job_hold_does_not_throw, Free_tasks
  <2> DEFINE r == Job_requestor(j)
             list == use_list[r]
  <2>1. TypeOK /\ Job_lists_stay
    BY <1>1 DEF IInv
  <2>2. list \in Seq(Uses) /\ holder_map \in Holder_maps
    BY <2>1, Requestor_types, Parts_of_TypeOK DEF Use_types, Holder_types
  <2>3. DOMAIN list = 1 .. Len(list) /\ Len(list) \in Nat
    BY <2>2, LenProperties
  <2>4. Own_holder(r) = NoHolder
    BY Requestors_differ
  <2>5. ASSUME NEW i \in 1 .. Len(list)
        PROVE  Can_require(holder_map, lock_mode, t, list, i)
    <3>1. list[i] \in Use_set(r) /\ list # <<>>
      BY <2>3 DEF Use_set
    <3>2. file_based[Lock_of(list[i])].known /\ Is_free_for(holder_map, lock_mode, list[i], NoHolder)
      BY <2>4, <3>1 DEF Job_locks_are_available, Locks_are_available, Locks_are_available_for_holder
    <3>3. Is_free_for(holder_map, lock_mode, list[i], t)
      BY <3>2, Free_for_everybody
    <3>4. Lock_of(list[i]) \in Locks
      BY <2>2, ElementOfSeq DEF Uses, Lock_of
    <3>5. On_lock(First(list, i - 1), Lock_of(list[i])) = {}
      BY <2>1, Job_lists_name_locks_once
    <3> HIDE DEF list
    <3>6. Is_free_for(Hold(holder_map, t, list, i - 1), Hold_mode(holder_map, lock_mode, t, list, i - 1),
                      list[i], t)
      BY <2>2, <3>3, <3>4, <3>5, Untouched_lock_is_free
    <3> QED
      BY <3>2, <3>6 DEF Can_require
  <2> QED
    BY <2>3, <2>5 DEF Holds_up_to
<1>2. IInv => Job_hold_does_not_throw
  BY <1>1
<1> QED
  BY <1>2, Invariant, PTL

-----------------------------------------------------------------------------
(* Who wakes a waiting task.                                               *)

Wakes_rightly(t) ==
  task_state[t] \in Waiting /\ task_state'[t] # task_state[t] =>
    \/ task_state'[t] = "ending" /\ end[t]
    \/ <<"Task_locks_are_available", t>> \in calls'

(* on_locks_are_available registers the call when it ends the waiting.     *)
LEMMA Notified_tasks_wake_rightly ==
  ASSUME NEW R, NEW t \in Tasks, Notified_calls(R) \subseteq calls',
         task_state'[t] = Notified_task_states(R)[t]
  PROVE  Wakes_rightly(t)
<1>1. CASE Is_notified(t, R)
  <2>1. <<"Task_locks_are_available", t>> \in Notified_calls(R)
    BY <1>1 DEF Notified_calls
  <2> QED
    BY <2>1 DEF Wakes_rightly
<1>2. CASE ~Is_notified(t, R)
  BY <1>2 DEF Notified_task_states, Wakes_rightly
<1> QED
  BY <1>1, <1>2

(* The others wake in a step of task g only if g notifies them.            *)
LEMMA One_task_moves ==
  ASSUME State_types, NEW g \in Tasks, NEW state, NEW R, Notified_calls(R) \subseteq calls',
         task_state' = [Notified_task_states(R) EXCEPT ![g] = state],
         task_state[g] \in Waiting => state = "ending" /\ end[g]
  PROVE  \A t \in Tasks : Wakes_rightly(t)
<1>1. Notified_task_states(R) \in [Tasks -> Task_states]
  BY Notified_types
<1>2. task_state'[g] = state /\ \A t \in Tasks \ {g} : task_state'[t] = Notified_task_states(R)[t]
  BY <1>1
<1>3. Wakes_rightly(g)
  BY <1>2 DEF Wakes_rightly
<1> QED
  BY <1>2, <1>3, Notified_tasks_wake_rightly

LEMMA Do_something_wakes_rightly ==
  ASSUME TypeOK, NEW g \in Tasks, NEW name, Do_something(g, name)
  PROVE  \A t \in Tasks : Wakes_rightly(t)
<1> DEFINE other_calls == calls \ {<<name, g>>}
<1>1. State_types
  BY Parts_of_TypeOK
<1>2. ASSUME NEW hm, NEW md, To_ending(g, hm, md, other_calls), task_state[g] \in Waiting => end[g]
      PROVE  \A t \in Tasks : Wakes_rightly(t)
  <2>1. PICK R : /\ task_state' = [Notified_task_states(R) EXCEPT ![g] = "ending"]
                 /\ Notified_calls(R) \subseteq calls'
    BY <1>2 DEF To_ending
  <2> QED
    BY <1>1, <1>2, <2>1, One_task_moves
<1>3. CASE UNCHANGED task_state
  BY <1>3 DEF Wakes_rightly
<1>4. Steps_to_ending(g, other_calls) =>
        To_ending(g, holder_map, lock_mode, other_calls) /\ end[g]
  BY DEF Steps_to_ending, Ends_in_do_something
<1>5. Fails_to_hold(g, other_calls) =>
        /\ \E hm, md : To_ending(g, hm, md, other_calls)
        /\ task_state[g] \notin Waiting
  BY DEF Fails_to_hold, Waiting
<1>6. Steps_into_script(g, other_calls) => UNCHANGED task_state
  BY DEF Steps_into_script
<1> QED
  BY <1>2, <1>3, <1>4, <1>5, <1>6 DEF Do_something

LEMMA Operation_wakes_rightly ==
  ASSUME TypeOK, NEW g \in Tasks, Operation_completed(g)
  PROVE  \A t \in Tasks : Wakes_rightly(t)
<1>1. State_types
  BY Parts_of_TypeOK
<1>2. ASSUME NEW state, task_state' = [task_state EXCEPT ![g] = state], task_state[g] \notin Waiting
      PROVE  \A t \in Tasks : Wakes_rightly(t)
  BY <1>1, <1>2 DEF Wakes_rightly, State_types
<1>3. ASSUME NEW result, Starting_completed(g, result) \/ Opening_completed(g, result)
      PROVE  \A t \in Tasks : Wakes_rightly(t)
  BY <1>2, <1>3 DEF Starting_completed, Opening_completed, Waiting
<1>4. ASSUME NEW result, Step_completed(g, result)
      PROVE  \A t \in Tasks : Wakes_rightly(t)
  <2>1. PICK R, state : /\ task_state' = [Notified_task_states(R) EXCEPT ![g] = state]
                        /\ Notified_calls(R) \subseteq calls'
    BY <1>4 DEF Step_completed
  <2>2. task_state[g] \notin Waiting
    BY <1>4 DEF Step_completed, Waiting
  <2> QED
    BY <1>1, <2>1, <2>2, One_task_moves
<1>5. CASE Ending_completed(g)
  <2>1. PICK R : /\ task_state' = [Notified_task_states(R) EXCEPT ![g] = "closed"]
                 /\ Notified_calls(R) \subseteq calls'
    BY <1>5 DEF Ending_completed
  <2>2. task_state[g] \notin Waiting
    BY <1>5 DEF Ending_completed, Waiting
  <2> QED
    BY <1>1, <2>1, <2>2, One_task_moves
<1> QED
  BY <1>3, <1>4, <1>5 DEF Operation_completed

(* A job that starts a task wakes none.                                    *)
LEMMA Starts_wake_nobody ==
  ASSUME IInv,
         \/ \E j \in Jobs : Unstop_job(j) \/ \E name \in Job_calls : On_job_call(j, name)
         \/ \E t \in Tasks : On_task_closed(t)
  PROVE  \A t \in Tasks : Wakes_rightly(t)
<1>1. TypeOK /\ State_types
  BY Parts_of_TypeOK DEF IInv
<1>2. ASSUME NEW j \in Jobs, NEW state, NEW states, NEW wq, NEW enq, Are_before_start(states),
             Try_start_tasks(j, state, states, wq, enq)
      PROVE  \A t \in Tasks : Wakes_rightly(t)
  <2> SUFFICES ASSUME NEW t \in Tasks, task_state[t] \in Waiting PROVE task_state'[t] = task_state[t]
    BY DEF Wakes_rightly
  <2>1. states[t] = task_state[t] /\ states[t] # "none" /\ states \in [Tasks -> Task_states]
    BY <1>2 DEF Are_before_start, Waiting
  <2>2. task_state' = states \/ \E g \in Tasks : states[g] = "none"
                                  /\ task_state' = [states EXCEPT ![g] = "starting"]
    BY <1>1, <1>2, Try_start_tasks_states
  <2> QED
    BY <2>1, <2>2
<1>3. Are_before_start(task_state)
  BY <1>1 DEF Are_before_start, State_types
<1>4. ASSUME NEW t \in Tasks, On_task_closed(t)
      PROVE  Job_of[t] \in Jobs /\ Are_before_start([task_state EXCEPT ![t] = "none"])
  BY <1>4, TaskAssumption, On_task_closed_before_start
<1>5. ASSUME NEW t \in Tasks, On_task_closed(t)
      PROVE  \A g \in Tasks : Wakes_rightly(g)
  <2>1. \E state, wq, enq :
          Try_start_tasks(Job_of[t], state, [task_state EXCEPT ![t] = "none"], wq, enq)
    BY <1>5 DEF On_task_closed
  <2> QED
    BY <1>2, <1>4, <1>5, <2>1
<1> QED
  BY <1>2, <1>3, <1>5 DEF Unstop_job, On_job_call

(* A task that waits for locks goes on waiting until it is to end or is    *)
(* notified, and whoever notifies it has do_something called                *)
(* (on_locks_are_available, set_state): no task is woken and forgotten.    *)
THEOREM Nobody_is_woken_and_forgotten == Spec => Woken_tasks_are_called
<1>1. ASSUME IInv, [Next]_vars
      PROVE  \A t \in Tasks : Wakes_rightly(t)
  <2>1. TypeOK /\ State_types
    BY <1>1, Parts_of_TypeOK DEF IInv
  <2>2. CASE UNCHANGED task_state
    BY <2>2 DEF Wakes_rightly
  <2>3. ASSUME NEW j \in Jobs, Job_command(j) \/ \E name \in Job_calls : On_job_call(j, name)
        PROVE  \A t \in Tasks : Wakes_rightly(t)
    BY <1>1, <2>2, <2>3, Starts_wake_nobody DEF Job_command, Start_job, Stop_job
  <2>4. ASSUME NEW g \in Tasks, Api_call(g) \/ End_task(g)
        PROVE  \A t \in Tasks : Wakes_rightly(t)
    BY <2>2, <2>4 DEF Api_call, Try_hold_lock, Delay_until_locks_available, End_task, task_vars
  <2>5. ASSUME NEW g \in Tasks, Process_signaled(g)
        PROVE  \A t \in Tasks : Wakes_rightly(t)
    BY <2>1, <2>5 DEF Process_signaled, Wakes_rightly, Waiting, State_types
  <2>6. ASSUME NEW R, Notify_requestors(R)
        PROVE  \A t \in Tasks : Wakes_rightly(t)
    BY <2>6, Notified_tasks_wake_rightly DEF Notify_requestors
  <2>7. ASSUME NEW l \in Locks, Change_lock(l) \/ Handle_candidate(l)
        PROVE  \A t \in Tasks : Wakes_rightly(t)
    BY <2>2, <2>6, <2>7 DEF Change_lock, Handle_candidate, task_vars
  <2>8. CASE UNCHANGED vars
    BY <2>2, <2>8 DEF vars, task_vars
  <2> QED
    BY <1>1, <2>1, <2>3, <2>4, <2>5, <2>7, <2>8, Do_something_wakes_rightly, Operation_wakes_rightly,
       Starts_wake_nobody DEF Next
<1>2. IInv /\ [Next]_vars =>
        [\A t \in Tasks :
           task_state[t] \in Waiting /\ task_state'[t] # task_state[t] =>
             \/ task_state'[t] = "ending" /\ end[t]
             \/ <<"Task_locks_are_available", t>> \in calls']_vars
  BY <1>1 DEF Wakes_rightly
<1> QED
  BY <1>2, Invariant, PTL DEF Spec, Woken_tasks_are_called
================================================================================

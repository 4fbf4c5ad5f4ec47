--------------------------- MODULE LockSubsystem ---------------------------
(***************************************************************************)
(* The lock subsystem (engine-kernelcpp/scheduler/lock.cxx, lock.h): the   *)
(* classes Lock, Use, Requestor and Holder.                                *)
(*                                                                         *)
(* A requestor (a job, or a task at one of its two API levels) owns a list *)
(* of uses; a use asks for one lock in one mode.  A holder (a task) holds  *)
(* locks through uses.  A lock keeps a FIFO of waiting uses per mode and,  *)
(* whenever it is given back, notifies one waiting requestor.              *)
(*                                                                         *)
(* All of it runs in the scheduler's main thread, so a loop over uses is   *)
(* not interrupted.  The operators Hold and Release give the state after   *)
(* the first i iterations of such a loop.  Operators take the queues wq,   *)
(* the holder map hm and the lock modes md as arguments where the code     *)
(* decides, in the middle of a loop, about the next use or whom to notify. *)
(***************************************************************************)
EXTENDS Naturals, Sequences, FiniteSets

CONSTANTS Locks,         \* paths of the locks
          Jobs,
          Tasks,         \* task objects; they are the holders
          NoHolder,      \* the NULL passed for "no holder"
          Max_values,    \* the values configured for max_non_exclusive
          NoReplacement  \* the NULL of a lock without a replacement

Holders == Tasks

(* Requestors: a job, and a task at each of its two API levels.            *)
Job_requestors  == {"job"} \X Jobs
Task_requestors == {"task_api", "process_api"} \X Tasks
Requestors      == Job_requestors \cup Task_requestors

Job_requestor(j) == <<"job", j>>
Task_api(t)      == <<"task_api", t>>
Process_api(t)   == <<"process_api", t>>

(* The holder for which a requestor's locks_are_available() asks.          *)
Own_holder(r) == IF r[1] = "job" THEN NoHolder ELSE r[2]

lk_exclusive == "exclusive"
lk_non_exclusive == "non_exclusive"
Modes == {lk_exclusive, lk_non_exclusive}

ASSUME LockAssumption ==
  /\ Max_values \subseteq Nat
  /\ NoHolder \notin Tasks
  /\ NoReplacement \notin Max_values
  /\ IsFiniteSet(Tasks)

(* A use: requestor, lock, mode.                                           *)
Uses == Requestors \X Locks \X Modes
Requestor_of(u) == u[1]
Lock_of(u) == u[2]
Mode_of(u) == u[3]

VARIABLES
  holder_map,         \* [l][h]: the uses through which holder h holds lock l
  lock_mode,          \* [l]: valid while some holder holds l
  max_non_exclusive,  \* [l]: the configured number of non-exclusive holders
  waiting_queues,     \* [l][m]: the uses waiting for l in mode m
  file_based,         \* [l]: the lock as a file based object of its folder
  is_enqueued,        \* [r]: requestor r has entered the queues
  use_list            \* [r]: the uses of requestor r, in order

lock_vars == <<holder_map, lock_mode, max_non_exclusive, waiting_queues,
               file_based, is_enqueued, use_list>>

File_based == [known : BOOLEAN, to_be_removed : BOOLEAN, candidate : BOOLEAN,
               replacement : Max_values \cup {NoReplacement}]

New_file_based == [known |-> TRUE, to_be_removed |-> FALSE, candidate |-> FALSE,
                   replacement |-> NoReplacement]

No_holders == [h \in Holders |-> {}]
Empty_queues == [m \in Modes |-> <<>>]

-----------------------------------------------------------------------------
(* Lock: who holds it and who may have it.                                 *)

Held_by(hm, l) == {h \in Holders : hm[l][h] # {}}

Is_free(hm, l) == file_based[l].known /\ Held_by(hm, l) = {}

Count_non_exclusive_holders(hm, md, l) ==
  IF md[l] = lk_non_exclusive THEN Cardinality(Held_by(hm, l)) ELSE 0

(* Mutant: a holder raises its mode although there are other holders.      *)
Is_free_for_upgrade_among_readers(hm, md, u, h) ==
  LET l == Lock_of(u)
  IN  \/ Mode_of(u) = lk_exclusive /\ Is_free(hm, l)
      \/ /\ Mode_of(u) = lk_non_exclusive
         /\ md[l] # lk_exclusive \/ Is_free(hm, l)
         /\ Count_non_exclusive_holders(hm, md, l) < max_non_exclusive[l]
      \/ h \in Held_by(hm, l)

Is_free_for(hm, md, u, h) ==
  LET l == Lock_of(u)
  IN  \/ Mode_of(u) = lk_exclusive /\ Is_free(hm, l)
      \/ /\ Mode_of(u) = lk_non_exclusive
         /\ md[l] # lk_exclusive \/ Is_free(hm, l)
         /\ Count_non_exclusive_holders(hm, md, l) < max_non_exclusive[l]
      \/ /\ h \in Held_by(hm, l)
         /\ Mode_of(u) = lk_non_exclusive \/ Held_by(hm, l) = {h}

(* Mutant: whoever finds the lock free has its turn.                       *)
Its_my_turn_without_queue(wq, hm, md, u, h) == Is_free_for(hm, md, u, h)

Its_my_turn(wq, hm, md, u, h) ==
  LET queue == wq[Lock_of(u)][Mode_of(u)]
  IN  Is_free_for(hm, md, u, h) /\ (queue # <<>> => Head(queue) = u)

Is_held_by(u, h) == h \in Holders /\ u \in holder_map[Lock_of(u)][h]

-----------------------------------------------------------------------------
(* Requestor: the conjunction of its uses.                                 *)

Use_set(r) == {use_list[r][i] : i \in DOMAIN use_list[r]}

Locks_are_known(r) == \A u \in Use_set(r) : file_based[Lock_of(u)].known

(* Mutant: who is the first in a queue does not look whether the locks are free. *)
Head_of_a_queue_is_enough(wq, hm, md, r, h) ==
  /\ \A u \in Use_set(r) : file_based[Lock_of(u)].known
  /\ \E u \in Use_set(r) : LET queue == wq[Lock_of(u)][Mode_of(u)]
                           IN  queue # <<>> => Head(queue) = u

Locks_are_available_for_holder(wq, hm, md, r, h) ==
  /\ \A u \in Use_set(r) : file_based[Lock_of(u)].known /\ Is_free_for(hm, md, u, h)
  /\ \E u \in Use_set(r) : Its_my_turn(wq, hm, md, u, h)

Locks_are_available(wq, hm, md, r) ==
  Locks_are_available_for_holder(wq, hm, md, r, Own_holder(r))

Is_holding_all_of(h, r) == use_list[r] # <<>> /\ \A u \in Use_set(r) : Is_held_by(u, h)

(* Erases the first occurrence of u, as list::erase in dequeue_lock_use.   *)
Without(queue, u) ==
  IF \E i \in DOMAIN queue : queue[i] = u
    THEN LET i == CHOOSE i \in DOMAIN queue :
                     queue[i] = u /\ \A k \in 1 .. i - 1 : queue[k] # u
         IN  SubSeq(queue, 1, i - 1) \o SubSeq(queue, i + 1, Len(queue))
    ELSE queue

(* The queues without the uses of requestor r.                             *)
Dequeued(wq, r) == [l \in Locks |-> [m \in Modes |-> Without(wq[l][m], <<r, l, m>>)]]

Dequeue_lock_requests(r) ==
  IF is_enqueued[r]
    THEN /\ waiting_queues' = Dequeued(waiting_queues, r)
         /\ is_enqueued' = [is_enqueued EXCEPT ![r] = FALSE]
    ELSE UNCHANGED <<waiting_queues, is_enqueued>>

(* Mutant: the queue gets the requestor instead of its use.                *)
Enqueued_requestor(wq, r, waiting) ==
  [l \in Locks |-> [m \in Modes |->
     IF <<r, l, m>> \in waiting THEN Append(wq[l][m], r) ELSE wq[l][m]]]

(* enqueue_lock_requests throws when r is already enqueued; the callers    *)
(* make sure that it is not.  Uses that h already holds do not wait, and   *)
(* nothing is enqueued while one of the locks is unknown.                  *)
Enqueued(wq, r, waiting) ==
  [l \in Locks |-> [m \in Modes |->
     IF <<r, l, m>> \in waiting THEN Append(wq[l][m], <<r, l, m>>) ELSE wq[l][m]]]

(* Mutant: whoever holds one of the locks does not wait for the others.    *)
Enqueue_lock_requests_of_non_holders(r, not_waiting) ==
  IF Locks_are_known(r)
    THEN /\ waiting_queues' = IF not_waiting # {} THEN waiting_queues
                              ELSE Enqueued(waiting_queues, r, Use_set(r))
         /\ is_enqueued' = [is_enqueued EXCEPT ![r] = TRUE]
    ELSE UNCHANGED <<waiting_queues, is_enqueued>>

Enqueue_lock_requests(r, not_waiting) ==
  IF Locks_are_known(r)
    THEN /\ waiting_queues' = Enqueued(waiting_queues, r, Use_set(r) \ not_waiting)
         /\ is_enqueued' = [is_enqueued EXCEPT ![r] = TRUE]
    ELSE UNCHANGED <<waiting_queues, is_enqueued>>

-----------------------------------------------------------------------------
(* Holder: taking and giving back the uses of a list, one after the other. *)

First(list, i) == {list[k] : k \in 1 .. i}
On_lock(U, l) == {u \in U : Lock_of(u) = l}
Has_exclusive(U) == \E u \in U : Mode_of(u) = lk_exclusive

(* Mutant: only the last use of the list is taken.                         *)
Hold_last(hm, h, list, i) ==
  [l \in Locks |-> [hm[l] EXCEPT ![h] = @ \cup On_lock(First(list, i) \ First(list, i - 1), l)]]

(* The holder map after h has required the first i uses of the list.       *)
Hold(hm, h, list, i) ==
  [l \in Locks |-> [hm[l] EXCEPT ![h] = @ \cup On_lock(First(list, i), l)]]

(* A new holder sets the mode of its first use; an exclusive use raises    *)
(* the mode.                                                               *)
Hold_mode(hm, md, h, list, i) ==
  [l \in Locks |->
     LET U == On_lock(First(list, i), l)
     IN  IF Has_exclusive(U) THEN lk_exclusive
         ELSE IF U # {} /\ hm[l][h] = {} THEN lk_non_exclusive
         ELSE md[l]]

(* require_lock_for accepts the i-th use: the lock is active and free.     *)
Can_require(hm, md, h, list, i) ==
  /\ file_based[Lock_of(list[i])].known
  /\ Is_free_for(Hold(hm, h, list, i - 1), Hold_mode(hm, md, h, list, i - 1), list[i], h)

(* hold_locks takes k uses and then ends, or throws at the next one.       *)
Holds_up_to(hm, md, h, list, k) ==
  /\ k \in 0 .. Len(list)
  /\ \A i \in 1 .. k : Can_require(hm, md, h, list, i)
  /\ k < Len(list) => ~Can_require(hm, md, h, list, k + 1)

(* The holder map after h has released the first i uses of the list.       *)
Release(hm, h, list, i) ==
  [l \in Locks |-> [hm[l] EXCEPT ![h] = @ \ First(list, i)]]

(* Mutant: the mode is not lowered with the last exclusive use.            *)
Release_mode_not_lowered(hm, md, h, list, i) == md

(* When the last exclusive use goes and others stay, the mode is lowered.  *)
(* When no use stays the mode is no longer valid and is left alone here;   *)
(* no operation reads it before the next holder has set it.                *)
Release_mode(hm, md, h, list, i) ==
  [l \in Locks |->
     LET left == hm[l][h] \ First(list, i)
     IN  IF left # {} /\ Has_exclusive(hm[l][h]) /\ ~Has_exclusive(left)
           THEN lk_non_exclusive
           ELSE md[l]]

(* The i-th call of release_lock_for gives something back.                 *)
Is_released(hm, h, list, i) ==
  LET l      == Lock_of(list[i])
      before == Release(hm, h, list, i - 1)[l][h]
      left   == before \ {list[i]}
  IN  /\ list[i] \in before
      /\ left = {} \/ (Mode_of(list[i]) = lk_exclusive /\ ~Has_exclusive(left))

(* Mutant: only readers are notified.                                      *)
Next_requestors_among_readers(queues) ==
  IF queues[lk_non_exclusive] # <<>> THEN {Requestor_of(Head(queues[lk_non_exclusive]))} ELSE {}

(* The requestor notify_waiting_requestor picks: the first exclusive use,  *)
(* else the first non-exclusive one.                                       *)
Next_requestors(queues) ==
  IF queues[lk_exclusive] # <<>> THEN {Requestor_of(Head(queues[lk_exclusive]))}
  ELSE IF queues[lk_non_exclusive] # <<>> THEN {Requestor_of(Head(queues[lk_non_exclusive]))}
  ELSE {}

(* Mutant: the notification precedes the release.                          *)
Notified_before_release(wq, hm, md, h, list) ==
  {r \in Requestors :
     \E i \in 1 .. Len(list) :
       /\ Is_released(hm, h, list, i)
       /\ r \in Next_requestors(wq[Lock_of(list[i])])
       /\ Locks_are_available(wq, Release(hm, h, list, i - 1), Release_mode(hm, md, h, list, i - 1), r)}

(* The requestors notified while h releases the uses of the list.          *)
Notified_by_release(wq, hm, md, h, list) ==
  {r \in Requestors :
     \E i \in 1 .. Len(list) :
       /\ Is_released(hm, h, list, i)
       /\ r \in Next_requestors(wq[Lock_of(list[i])])
       /\ Locks_are_available(wq, Release(hm, h, list, i), Release_mode(hm, md, h, list, i), r)}

(* Mutant: a release does not look for a pending change of the lock.       *)
No_candidates_after_release(hm, h, list) == file_based

(* check_for_replacing_or_removing after a release: the folder will handle *)
(* the lock later.                                                         *)
Candidates_after_release(hm, h, list) ==
  [l \in Locks |->
     IF /\ \E i \in 1 .. Len(list) : Lock_of(list[i]) = l /\ Is_released(hm, h, list, i)
        /\ Held_by(Release(hm, h, list, Len(list)), l) = {}
        /\ file_based[l].replacement # NoReplacement \/ file_based[l].to_be_removed
       THEN [file_based[l] EXCEPT !.candidate = TRUE]
       ELSE file_based[l]]

(* Holder::release_locks: h, which has hm and md, gives the uses back.     *)
Release_locks(hm, md, h, list) ==
  /\ holder_map' = Release(hm, h, list, Len(list))
  /\ lock_mode' = Release_mode(hm, md, h, list, Len(list))
  /\ file_based' = Candidates_after_release(hm, h, list)
  /\ UNCHANGED max_non_exclusive

(* Holder::hold_locks of k uses.                                           *)
Hold_locks(h, list, k) ==
  /\ holder_map' = Hold(holder_map, h, list, k)
  /\ lock_mode' = Hold_mode(holder_map, lock_mode, h, list, k)
  /\ UNCHANGED <<max_non_exclusive, file_based>>

-----------------------------------------------------------------------------
(* The lock as a file based object: it is added, replaced and removed      *)
(* while jobs and tasks use it.                                            *)

(* on_prepare_to_remove dequeues everybody who waits for the lock, but only *)
(* if the lock is not marked for removal.                                  *)
Dequeued_by_prepare_to_remove(l, is_to_be_removed) ==
  IF is_to_be_removed THEN {}
  ELSE {r \in Requestors : \E m \in Modes :
          \E i \in DOMAIN waiting_queues[l][m] : Requestor_of(waiting_queues[l][m][i]) = r}

(* prepare_to_remove marks the lock before it calls on_prepare_to_remove.  *)
Prepared_to_remove(l) == Dequeued_by_prepare_to_remove(l, TRUE)

Without_requestors(queue, R) ==
  IF R = {} THEN queue ELSE SelectSeq(queue, LAMBDA u : Requestor_of(u) \notin R)

(* remove_now closes the lock, which forgets its queues; a requestor that  *)
(* waits in them is not told.                                              *)
Removed(l) == [file_based EXCEPT ![l] = [New_file_based EXCEPT !.known = FALSE]]

Remove(l) ==
  /\ file_based[l].known
  /\ LET R   == Prepared_to_remove(l)
         now == Held_by(holder_map, l) = {}
     IN  /\ waiting_queues' = [k \in Locks |-> [m \in Modes |->
              IF now /\ k = l THEN <<>> ELSE Without_requestors(waiting_queues[k][m], R)]]
         /\ is_enqueued' = [r \in Requestors |-> is_enqueued[r] /\ r \notin R]
         /\ file_based' = IF now THEN Removed(l)
                          ELSE [file_based EXCEPT ![l].to_be_removed = TRUE,
                                                  ![l].replacement = NoReplacement]
  /\ UNCHANGED <<holder_map, lock_mode, max_non_exclusive, use_list>>

(* A lock of the same path is added again: a new object.                   *)
Add_lock(l) ==
  /\ ~file_based[l].known
  /\ file_based' = [file_based EXCEPT ![l] = New_file_based]
  /\ \E n \in Max_values : max_non_exclusive' = [max_non_exclusive EXCEPT ![l] = n]
  /\ lock_mode' = [lock_mode EXCEPT ![l] = lk_exclusive]
  /\ UNCHANGED <<holder_map, waiting_queues, is_enqueued, use_list>>

(* The requestor notified when the limit of l has changed.                 *)
Notified_by_limit(l) ==
  IF max_non_exclusive'[l] = max_non_exclusive[l] THEN {}
  ELSE {r \in Next_requestors(waiting_queues[l]) :
          Locks_are_available(waiting_queues, holder_map, lock_mode, r)'}

(* put_Max_non_exclusive.                                                  *)
Set_max_non_exclusive(l, n) ==
  /\ file_based[l].known
  /\ max_non_exclusive' = [max_non_exclusive EXCEPT ![l] = n]
  /\ UNCHANGED <<holder_map, lock_mode, waiting_queues, file_based, is_enqueued, use_list>>

(* replace_with: a changed lock is not exchanged, it takes the new limit   *)
(* over as soon as nobody holds it.  A lock to be removed stays.           *)
Replace_with(l, n) ==
  /\ file_based[l].known
  /\ LET now == Held_by(holder_map, l) = {}
     IN  /\ max_non_exclusive' =
              IF now THEN [max_non_exclusive EXCEPT ![l] = n] ELSE max_non_exclusive
         /\ file_based' = [file_based EXCEPT
              ![l].to_be_removed = FALSE,
              ![l].replacement = IF now THEN NoReplacement ELSE n]
  /\ UNCHANGED <<holder_map, lock_mode, waiting_queues, is_enqueued, use_list>>

(* The folder handles a lock that a release has made a candidate.          *)
Handle_replace_or_remove_candidate(l) ==
  /\ file_based[l].candidate
  /\ LET now     == Held_by(holder_map, l) = {}
         replace == now /\ file_based[l].replacement # NoReplacement
         remove  == now /\ ~replace /\ file_based[l].to_be_removed
     IN  /\ max_non_exclusive' =
              IF replace THEN [max_non_exclusive EXCEPT ![l] = file_based[l].replacement]
              ELSE max_non_exclusive
         /\ waiting_queues' =
              IF remove THEN [waiting_queues EXCEPT ![l] = Empty_queues] ELSE waiting_queues
         /\ file_based' =
              IF remove THEN Removed(l)
              ELSE [file_based EXCEPT ![l].candidate = FALSE,
                     ![l].replacement = IF replace THEN NoReplacement ELSE @]
  /\ UNCHANGED <<holder_map, lock_mode, is_enqueued, use_list>>

-----------------------------------------------------------------------------
(* What the holders of a lock and its mode have to do with each other.     *)

(* Whoever holds a lock exclusively is its only holder.                    *)
Excludes(hm) ==
  \A l \in Locks : \A h, g \in Held_by(hm, l) : Has_exclusive(hm[l][h]) => g = h

(* The mode of a held lock says whether one of its uses is exclusive.      *)
Agrees(hm, md) ==
  \A l \in Locks : \A h \in Held_by(hm, l) : md[l] = lk_exclusive <=> Has_exclusive(hm[l][h])
=============================================================================

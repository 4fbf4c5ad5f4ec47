------------------------- MODULE LockedTasksProofs -------------------------
(***************************************************************************)
(* Proofs about LockedTasks for every set of locks, jobs and tasks: what   *)
(* the operators of LockSubsystem return, and what taking and giving back  *)
(* the first uses of a list does to the exclusion of holders and to the    *)
(* mode of a lock; type correctness, which every other proof needs; the    *)
(* exclusion of holders with the invariant that makes it inductive; and    *)
(* the implementation of ReadersWriterLock: every step changes what one    *)
(* holder may do, and only as a readers/writer lock with a limit allows    *)
(* it, or changes one limit.                                               *)
(***************************************************************************)
EXTENDS LockedTasks, SequenceTheorems, FiniteSetTheorems, WellFoundedInduction, TLAPS

(* The values of holder_map, lock_mode and waiting_queues.                 *)
Holder_maps == [Locks -> [Holders -> SUBSET Uses]]
Lock_modes  == [Locks -> Modes]
Queues      == [Locks -> [Modes -> Seq(Uses)]]

-----------------------------------------------------------------------------
(* Types of what the operators of the lock subsystem return.               *)

(* A non-empty set of positions has a first one.                           *)
LEMMA First_position ==
  ASSUME NEW S, S \subseteq Nat, S # {}
  PROVE  \E i \in S : \A k \in S : i <= k
<1>1. PICK i \in S : \A k \in S : <<k, i>> \notin OpToRel(<, Nat)
  BY WFMin, NatLessThanWellFounded
<1>2. \A k \in S : ~(k < i)
  BY <1>1 DEF OpToRel
<1> QED
  BY <1>2

(* dequeue_lock_use leaves a queue of uses.                                *)
LEMMA Without_type ==
  ASSUME NEW queue \in Seq(Uses), NEW u
  PROVE  Without(queue, u) \in Seq(Uses)
<1>1. CASE \E i \in DOMAIN queue : queue[i] = u
  <2> DEFINE P(i) == queue[i] = u /\ \A k \in 1 .. i - 1 : queue[k] # u
             i == CHOOSE i \in DOMAIN queue : P(i)
             S == {k \in DOMAIN queue : queue[k] = u}
  <2>1. S \subseteq Nat /\ S # {} /\ DOMAIN queue = 1 .. Len(queue) /\ Len(queue) \in Nat
    BY <1>1, LenProperties
  <2>2. PICK m \in S : \A k \in S : m <= k
    <3> HIDE DEF S
    <3> QED BY <2>1, First_position
  <2>3. P(m)
    BY <2>1, <2>2
  <2>4. i \in DOMAIN queue
    <3>1. \E k \in DOMAIN queue : P(k)
      BY <2>2, <2>3
    <3> HIDE DEF P
    <3> QED BY <3>1
  <2> HIDE DEF i
  <2>5. SubSeq(queue, 1, i - 1) \in Seq(Uses)
    <3>1. \A k \in 1 .. i - 1 : queue[k] \in Uses
      BY <2>1, <2>4, ElementOfSeq
    <3> QED BY <3>1, <2>1, <2>4, SubSeqProperties
  <2>6. SubSeq(queue, i + 1, Len(queue)) \in Seq(Uses)
    <3>1. \A k \in i + 1 .. Len(queue) : queue[k] \in Uses
      BY <2>1, <2>4, ElementOfSeq
    <3> QED BY <3>1, <2>1, <2>4, SubSeqProperties
  <2>7. Without(queue, u) = SubSeq(queue, 1, i - 1) \o SubSeq(queue, i + 1, Len(queue))
    BY <1>1 DEF Without, i, P
  <2> QED
    BY <2>5, <2>6, <2>7, ConcatProperties
<1>2. CASE ~\E i \in DOMAIN queue : queue[i] = u
  BY <1>2 DEF Without
<1> QED
  BY <1>1, <1>2

(* dequeue_lock_requests leaves queues of uses: it only erases entries.    *)
LEMMA Dequeued_type ==
  ASSUME NEW wq \in Queues, NEW r
  PROVE  Dequeued(wq, r) \in Queues
BY Without_type DEF Dequeued, Queues

(* enqueue_lock_requests leaves queues of uses: it appends uses of the     *)
(* requestor.                                                              *)
LEMMA Enqueued_type ==
  ASSUME NEW wq \in Queues, NEW r, NEW W \in SUBSET Uses
  PROVE  Enqueued(wq, r, W) \in Queues
<1>1. \A l \in Locks, m \in Modes : <<r, l, m>> \in W => Append(wq[l][m], <<r, l, m>>) \in Seq(Uses)
  BY AppendProperties DEF Queues
<1> QED
  BY <1>1 DEF Enqueued, Queues

(* The first k elements of a list of uses, as a loop over _use_list has    *)
(* seen them, are uses.                                                    *)
LEMMA First_type ==
  ASSUME NEW list \in Seq(Uses), NEW k \in 0 .. Len(list)
  PROVE  First(list, k) \subseteq Uses
<1>1. \A i \in 1 .. k : list[i] \in Uses
  BY ElementOfSeq, LenProperties
<1> QED
  BY <1>1 DEF First

(* hold_locks leaves a holder map and modes, after each of its             *)
(* iterations.                                                             *)
LEMMA Hold_type ==
  ASSUME NEW hm \in Holder_maps, NEW md \in Lock_modes, NEW h,
         NEW list \in Seq(Uses), NEW k \in 0 .. Len(list)
  PROVE  /\ Hold(hm, h, list, k) \in Holder_maps
         /\ Hold_mode(hm, md, h, list, k) \in Lock_modes
<1>1. \A l : On_lock(First(list, k), l) \subseteq Uses
  BY First_type DEF On_lock
<1>2. Hold(hm, h, list, k) \in Holder_maps
  BY <1>1 DEF Hold, Holder_maps
<1>3. Hold_mode(hm, md, h, list, k) \in Lock_modes
  BY DEF Hold_mode, Lock_modes, Modes
<1> QED
  BY <1>2, <1>3

(* release_locks leaves a holder map and modes, after each of its          *)
(* iterations.                                                             *)
LEMMA Release_type ==
  ASSUME NEW hm \in Holder_maps, NEW md \in Lock_modes, NEW h, NEW list, NEW k
  PROVE  /\ Release(hm, h, list, k) \in Holder_maps
         /\ Release_mode(hm, md, h, list, k) \in Lock_modes
<1>1. Release(hm, h, list, k) \in Holder_maps
  BY DEF Release, Holder_maps
<1>2. Release_mode(hm, md, h, list, k) \in Lock_modes
  BY DEF Release_mode, Lock_modes, Modes
<1> QED
  BY <1>1, <1>2

(* check_for_replacing_or_removing after a release neither removes nor     *)
(* adds a lock.                                                            *)
LEMMA Candidates_type ==
  ASSUME file_based \in [Locks -> File_based], NEW hm, NEW h, NEW list
  PROVE  /\ Candidates_after_release(hm, h, list) \in [Locks -> File_based]
         /\ \A l \in Locks : Candidates_after_release(hm, h, list)[l].known = file_based[l].known
<1>1. \A l \in Locks : /\ [file_based[l] EXCEPT !.candidate = TRUE] \in File_based
                      /\ [file_based[l] EXCEPT !.candidate = TRUE].known = file_based[l].known
  BY DEF File_based
<1> QED
  BY <1>1 DEF Candidates_after_release

-----------------------------------------------------------------------------
(* Taking the first k uses of a list.                                      *)

(* What a holder map looks like after h has taken the first k uses.        *)
LEMMA Hold_by_lock ==
  ASSUME NEW hm \in Holder_maps, NEW h \in Holders, NEW list, NEW k, NEW l \in Locks
  PROVE  /\ Hold(hm, h, list, k)[l][h] = hm[l][h] \cup On_lock(First(list, k), l)
         /\ \A g \in Holders \ {h} : Hold(hm, h, list, k)[l][g] = hm[l][g]
BY DEF Hold, Holder_maps

(* h may add the uses U to what it holds of lock l: exclusive ones only if  *)
(* nobody else holds l, and the first of all not while l is exclusive.     *)
May_hold(hm, md, h, l, U) ==
  /\ Has_exclusive(U) => Held_by(hm, l) \subseteq {h}
  /\ U # {} /\ h \notin Held_by(hm, l) /\ md[l] = lk_exclusive => Held_by(hm, l) = {}
  /\ U # {} => file_based[l].known

May_hold_first(hm, md, h, list, k) ==
  \A l \in Locks : May_hold(hm, md, h, l, On_lock(First(list, k), l))

(* The loop of hold_locks: each use was free when it was taken.             *)
LEMMA Required_uses_may_be_held ==
  ASSUME NEW hm \in Holder_maps, NEW md \in Lock_modes, NEW h \in Holders,
         NEW list \in Seq(Uses), NEW k \in 0 .. Len(list),
         \A i \in 1 .. k : Can_require(hm, md, h, list, i)
  PROVE  May_hold_first(hm, md, h, list, k)
<1> SUFFICES ASSUME NEW l \in Locks
             PROVE  May_hold(hm, md, h, l, On_lock(First(list, k), l))
  BY DEF May_hold_first
<1> DEFINE U == On_lock(First(list, k), l)
<1>0. k \in Nat
  BY LenProperties
<1>1. \A u \in U : \E i \in 1 .. k : list[i] = u /\ Lock_of(u) = l
  BY DEF On_lock, First
<1>2. \A g \in Held_by(hm, l) : \A i : g \in Held_by(Hold(hm, h, list, i), l)
  BY Hold_by_lock DEF Held_by
<1>3. ASSUME Has_exclusive(U) PROVE Held_by(hm, l) \subseteq {h}
  <2>1. PICK i \in 1 .. k : Lock_of(list[i]) = l /\ Mode_of(list[i]) = lk_exclusive
    BY <1>1, <1>3 DEF Has_exclusive
  <2>2. Held_by(Hold(hm, h, list, i - 1), l) \subseteq {h}
    BY <2>1 DEF Can_require, Is_free_for, Is_free, lk_exclusive, lk_non_exclusive
  <2> QED
    BY <1>2, <2>2
<1>4. ASSUME U # {}, h \notin Held_by(hm, l), md[l] = lk_exclusive PROVE Held_by(hm, l) = {}
  <2> DEFINE S == {i \in 1 .. k : Lock_of(list[i]) = l}
  <2>1. S \subseteq Nat /\ S # {}
    BY <1>0, <1>1, <1>4
  <2>2. PICK i \in S : \A j \in S : i <= j
    <3> HIDE DEF S
    <3> QED BY <2>1, First_position
  <2>3. On_lock(First(list, i - 1), l) = {}
    BY <1>0, <2>2 DEF On_lock, First
  <2>4. Held_by(Hold(hm, h, list, i - 1), l) = Held_by(hm, l)
    BY <2>3, Hold_by_lock DEF Held_by
  <2>5. Hold_mode(hm, md, h, list, i - 1)[l] = lk_exclusive
    BY <2>3, <1>4 DEF Hold_mode, Has_exclusive
  <2>6. Is_free_for(Hold(hm, h, list, i - 1), Hold_mode(hm, md, h, list, i - 1), list[i], h)
    BY <2>2 DEF Can_require
  <2>7. Lock_of(list[i]) = l
    BY <2>2
  <2> QED
    BY <2>4, <2>5, <2>6, <2>7, <1>4 DEF Is_free_for, Is_free
<1>5. U # {} => file_based[l].known
  BY <1>1 DEF Can_require
<1> QED
  BY <1>3, <1>4, <1>5 DEF May_hold

(* A job gives its locks to a task that starts only if they are available  *)
(* for nobody in particular.                                               *)
LEMMA Available_uses_may_be_held ==
  ASSUME NEW hm \in Holder_maps, NEW md \in Lock_modes, NEW h \in Holders,
         NEW list \in Seq(Uses),
         \A i \in 1 .. Len(list) : /\ file_based[Lock_of(list[i])].known
                                  /\ Is_free_for(hm, md, list[i], NoHolder)
  PROVE  May_hold_first(hm, md, h, list, Len(list))
<1> SUFFICES ASSUME NEW l \in Locks
             PROVE  May_hold(hm, md, h, l, On_lock(First(list, Len(list)), l))
  BY DEF May_hold_first
<1> DEFINE U == On_lock(First(list, Len(list)), l)
<1>1. \A u \in U : \E i \in 1 .. Len(list) : list[i] = u /\ Lock_of(u) = l
  BY DEF On_lock, First
<1>2. NoHolder \notin Held_by(hm, l)
  BY LockAssumption DEF Held_by, Holders
<1>3. \A u \in U : /\ file_based[l].known
                   /\ Mode_of(u) = lk_exclusive \/ md[l] = lk_exclusive => Held_by(hm, l) = {}
  BY <1>1, <1>2 DEF Is_free_for, Is_free, lk_exclusive, lk_non_exclusive
<1> QED
  BY <1>3 DEF May_hold, Has_exclusive

(* The claim about the holders that every step keeps.                      *)
Holds_are_right(hm, md, fb) ==
  /\ Excludes(hm)
  /\ Agrees(hm, md)
  /\ \A l \in Locks : ~fb[l].known => Held_by(hm, l) = {}

(* hold_locks: taking the first k uses of a list, each free when its turn  *)
(* comes, keeps exclusive holders alone, the modes right and removed       *)
(* locks unheld.                                                           *)
LEMMA Hold_keeps_holds_right ==
  ASSUME NEW hm \in Holder_maps, NEW md \in Lock_modes, NEW h \in Holders,
         NEW list \in Seq(Uses), NEW k \in 0 .. Len(list),
         Holds_are_right(hm, md, file_based),
         May_hold_first(hm, md, h, list, k)
  PROVE  Holds_are_right(Hold(hm, h, list, k), Hold_mode(hm, md, h, list, k), file_based)
<1> DEFINE nhm == Hold(hm, h, list, k)
           nmd == Hold_mode(hm, md, h, list, k)
           U(l) == On_lock(First(list, k), l)
<1>1. \A l \in Locks : /\ nhm[l][h] = hm[l][h] \cup U(l)
                       /\ \A g \in Holders \ {h} : nhm[l][g] = hm[l][g]
  BY Hold_by_lock
<1>2. \A l \in Locks : /\ Held_by(hm, l) \subseteq Held_by(nhm, l)
                       /\ Held_by(nhm, l) \subseteq Held_by(hm, l) \cup {h}
                       /\ U(l) = {} => Held_by(nhm, l) = Held_by(hm, l)
                       /\ U(l) # {} => h \in Held_by(nhm, l)
  BY <1>1 DEF Held_by
<1>3. \A l \in Locks : May_hold(hm, md, h, l, U(l))
  BY DEF May_hold_first
<1>4. \A l \in Locks : Has_exclusive(nhm[l][h]) <=> Has_exclusive(hm[l][h]) \/ Has_exclusive(U(l))
  BY <1>1 DEF Has_exclusive
<1>5. \A l \in Locks : nmd[l] = IF Has_exclusive(U(l)) THEN lk_exclusive
                               ELSE IF U(l) # {} /\ hm[l][h] = {} THEN lk_non_exclusive
                               ELSE md[l]
  BY DEF Hold_mode
<1> HIDE DEF nhm, nmd, U
<1>6. Excludes(nhm)
  <2> SUFFICES ASSUME NEW l \in Locks, NEW f \in Held_by(nhm, l), NEW g \in Held_by(nhm, l),
                      Has_exclusive(nhm[l][f]), g # f
               PROVE  FALSE
    BY DEF Excludes
  <2>0. f \in Holders /\ g \in Holders
    BY DEF Held_by
  <2>1. CASE f = h
    <3>1. g \in Held_by(hm, l)
      BY <1>2, <2>1
    <3>2. CASE Has_exclusive(U(l))
      BY <1>3, <2>1, <3>1, <3>2 DEF May_hold
    <3>3. CASE Has_exclusive(hm[l][h])
      <4>1. h \in Held_by(hm, l)
        BY <3>3 DEF Has_exclusive, Held_by
      <4> QED
        BY <2>1, <3>1, <3>3, <4>1 DEF Holds_are_right, Excludes
    <3> QED
      BY <1>4, <2>1, <3>2, <3>3
  <2>2. CASE f # h
    <3>1. f \in Held_by(hm, l) /\ Has_exclusive(hm[l][f])
      BY <1>1, <1>2, <2>0, <2>2
    <3>2. Held_by(hm, l) \subseteq {f} /\ md[l] = lk_exclusive
      BY <3>1 DEF Holds_are_right, Excludes, Agrees
    <3> QED
      BY <1>2, <1>3, <2>2, <3>1, <3>2 DEF May_hold
  <2> QED
    BY <2>1, <2>2
<1>7. Agrees(nhm, nmd)
  <2> SUFFICES ASSUME NEW l \in Locks, NEW f \in Held_by(nhm, l)
               PROVE  nmd[l] = lk_exclusive <=> Has_exclusive(nhm[l][f])
    BY DEF Agrees
  <2>0. f \in Holders
    BY DEF Held_by
  <2>1. CASE Has_exclusive(U(l))
    <3>1. U(l) # {}
      BY <2>1 DEF Has_exclusive
    <3>2. f = h
      BY <1>2, <1>4, <1>6, <2>1, <3>1 DEF Excludes
    <3> QED
      BY <1>4, <1>5, <2>1, <3>2
  <2>2. CASE ~Has_exclusive(U(l)) /\ U(l) # {} /\ hm[l][h] = {}
    <3>1. nmd[l] # lk_exclusive
      BY <1>5, <2>2 DEF lk_exclusive, lk_non_exclusive
    <3>2. ~Has_exclusive(nhm[l][h])
      BY <1>4, <2>2 DEF Has_exclusive
    <3>3. Has_exclusive(nhm[l][f]) => f = h
      BY <1>2, <1>6, <2>2 DEF Excludes
    <3> QED
      BY <3>1, <3>2, <3>3
  <2>3. CASE ~Has_exclusive(U(l)) /\ ~(U(l) # {} /\ hm[l][h] = {})
    <3>1. nmd[l] = md[l]
      BY <1>5, <2>3
    <3>2. f \in Held_by(hm, l)
      BY <1>2, <2>3 DEF Held_by
    <3>3. Has_exclusive(nhm[l][f]) <=> Has_exclusive(hm[l][f])
      BY <1>1, <1>4, <2>0, <2>3
    <3> QED
      BY <3>1, <3>2, <3>3 DEF Holds_are_right, Agrees
  <2> QED
    BY <2>1, <2>2, <2>3
<1>8. \A l \in Locks : ~file_based[l].known => Held_by(nhm, l) = {}
  BY <1>2, <1>3 DEF Holds_are_right, May_hold
<1> QED
  BY <1>6, <1>7, <1>8 DEF Holds_are_right, nhm, nmd

-----------------------------------------------------------------------------
(* Giving back the first k uses of a list.                                 *)

LEMMA Release_keeps_holds_right ==
  ASSUME NEW hm \in Holder_maps, NEW md \in Lock_modes, NEW h \in Holders,
         NEW list, NEW k, NEW fb, NEW nfb,
         Holds_are_right(hm, md, fb),
         \A l \in Locks : nfb[l].known = fb[l].known
  PROVE  Holds_are_right(Release(hm, h, list, k), Release_mode(hm, md, h, list, k), nfb)
<1> DEFINE nhm == Release(hm, h, list, k)
           nmd == Release_mode(hm, md, h, list, k)
           left(l) == hm[l][h] \ First(list, k)
<1>1. \A l \in Locks : /\ nhm[l][h] = left(l)
                       /\ \A g \in Holders \ {h} : nhm[l][g] = hm[l][g]
  BY DEF Release, Holder_maps
<1>2. \A l \in Locks : left(l) \subseteq hm[l][h]
  OBVIOUS
<1>3. \A l \in Locks : nmd[l] =
        IF left(l) # {} /\ Has_exclusive(hm[l][h]) /\ ~Has_exclusive(left(l))
          THEN lk_non_exclusive ELSE md[l]
  BY DEF Release_mode
<1> HIDE DEF nhm, nmd, left
<1>4. \A l \in Locks : Held_by(nhm, l) \subseteq Held_by(hm, l)
  BY <1>1, <1>2 DEF Held_by
<1>5. \A l \in Locks, f \in Holders : Has_exclusive(nhm[l][f]) => Has_exclusive(hm[l][f])
  BY <1>1, <1>2 DEF Has_exclusive
<1>6. Excludes(nhm)
  BY <1>4, <1>5 DEF Excludes, Holds_are_right, Held_by
<1>7. Agrees(nhm, nmd)
  <2> SUFFICES ASSUME NEW l \in Locks, NEW f \in Held_by(nhm, l)
               PROVE  nmd[l] = lk_exclusive <=> Has_exclusive(nhm[l][f])
    BY DEF Agrees
  <2>0. f \in Holders /\ f \in Held_by(hm, l)
    BY <1>4 DEF Held_by
  <2>1. md[l] = lk_exclusive <=> Has_exclusive(hm[l][f])
    BY <2>0 DEF Holds_are_right, Agrees
  <2>2. CASE left(l) # {} /\ Has_exclusive(hm[l][h]) /\ ~Has_exclusive(left(l))
    <3>1. f = h
      <4>1. h \in Held_by(hm, l)
        BY <2>2 DEF Held_by, Has_exclusive
      <4> QED
        BY <2>0, <2>2, <4>1 DEF Holds_are_right, Excludes
    <3>2. nmd[l] # lk_exclusive
      BY <1>3, <2>2 DEF lk_exclusive, lk_non_exclusive
    <3> QED
      BY <1>1, <2>2, <3>1, <3>2
  <2>3. CASE ~(left(l) # {} /\ Has_exclusive(hm[l][h]) /\ ~Has_exclusive(left(l)))
    <3>1. nmd[l] = md[l]
      BY <1>3, <2>3
    <3>2. CASE f # h
      BY <1>1, <2>0, <2>1, <3>1, <3>2
    <3>3. CASE f = h
      <4>1. left(l) # {}
        BY <1>1, <3>3 DEF Held_by
      <4> QED
        BY <1>1, <1>5, <2>0, <2>1, <2>3, <3>1, <3>3, <4>1
    <3> QED
      BY <3>2, <3>3
  <2> QED
    BY <2>2, <2>3
<1>8. \A l \in Locks : ~nfb[l].known => Held_by(nhm, l) = {}
  BY <1>4 DEF Holds_are_right
<1> QED
  BY <1>6, <1>7, <1>8 DEF Holds_are_right, nhm, nmd

-----------------------------------------------------------------------------
(* The parts of TypeOK that an operation changes together.                 *)

Holder_types == /\ holder_map \in Holder_maps
                /\ lock_mode \in Lock_modes
                /\ max_non_exclusive \in [Locks -> Max_values]
                /\ file_based \in [Locks -> File_based]

Queue_types == waiting_queues \in Queues /\ is_enqueued \in [Requestors -> BOOLEAN]

Use_types == use_list \in [Requestors -> Seq(Uses)]

State_types == /\ job_state \in [Jobs -> Job_states]
               /\ queued \in [Jobs -> BOOLEAN]
               /\ task_state \in [Tasks -> Task_states]
               /\ operation \in [Tasks -> BOOLEAN]

Flag_types == /\ delay \in [Tasks -> BOOLEAN]
              /\ end \in [Tasks -> BOOLEAN]
              /\ error \in [Tasks -> BOOLEAN]

All_calls == (Job_calls \X Jobs) \cup (Task_calls \X Tasks)

Call_types == calls \subseteq All_calls

(* TypeOK is the conjunction of the parts that operations change           *)
(* together.                                                               *)
LEMMA Parts_of_TypeOK ==
  TypeOK <=> /\ Holder_types /\ Queue_types /\ Use_types
             /\ State_types /\ Flag_types /\ Call_types
BY DEF TypeOK, Lock_types, Task_types, Holder_types, Queue_types, Use_types, State_types,
       Flag_types, Call_types, All_calls, Holder_maps, Lock_modes, Queues

(* The same for the next state.                                            *)
LEMMA Parts_of_next_TypeOK ==
  TypeOK' <=> /\ Holder_types' /\ Queue_types' /\ Use_types'
              /\ State_types' /\ Flag_types' /\ Call_types'
BY DEF TypeOK, Lock_types, Task_types, Holder_types, Queue_types, Use_types, State_types,
       Flag_types, Call_types, All_calls, Holder_maps, Lock_modes, Queues

(* The job's requestor and the two of a task are requestors.               *)
LEMMA Requestor_types ==
  /\ \A j \in Jobs : Job_requestor(j) \in Requestors
  /\ \A t \in Tasks : /\ Task_api(t) \in Requestors
                      /\ Process_api(t) \in Requestors
                      /\ Level(t) \in Requestors
BY DEF Job_requestor, Task_api, Process_api, Level, Requestors, Job_requestors, Task_requestors

(* A requestor's _use_list contains uses.                                  *)
LEMMA Use_set_type ==
  ASSUME Use_types, NEW r \in Requestors
  PROVE  Use_set(r) \subseteq Uses
<1>1. use_list[r] \in Seq(Uses)
  BY DEF Use_types
<1> QED
  BY <1>1, LenProperties, ElementOfSeq DEF Use_set

(* Holder::hold_locks keeps the types of holder maps, modes, limits and    *)
(* file based objects.                                                     *)
LEMMA Hold_locks_type ==
  ASSUME Holder_types, NEW h, NEW list \in Seq(Uses), NEW k \in 0 .. Len(list),
         Hold_locks(h, list, k)
  PROVE  Holder_types'
BY Hold_type DEF Holder_types, Hold_locks

(* Holder::release_locks does, too.                                        *)
LEMMA Release_locks_type ==
  ASSUME Holder_types, NEW hm \in Holder_maps, NEW md \in Lock_modes, NEW h, NEW list,
         Release_locks(hm, md, h, list)
  PROVE  Holder_types'
BY Release_type, Candidates_type DEF Holder_types, Release_locks

(* Requestor::dequeue_lock_requests keeps the types of the queues and      *)
(* flags.                                                                  *)
LEMMA Dequeue_type ==
  ASSUME Queue_types, NEW r \in Requestors, Dequeue_lock_requests(r)
  PROVE  Queue_types'
BY Dequeued_type DEF Queue_types, Dequeue_lock_requests

(* Requestor::enqueue_lock_requests does, too.                             *)
LEMMA Enqueue_type ==
  ASSUME Queue_types, Use_types, NEW r \in Requestors, NEW W, Enqueue_lock_requests(r, W)
  PROVE  Queue_types'
<1>1. Use_set(r) \ W \in SUBSET Uses
  BY Use_set_type
<1>2. Enqueued(waiting_queues, r, Use_set(r) \ W) \in Queues
  BY <1>1, Enqueued_type DEF Queue_types
<1> QED
  BY <1>2 DEF Queue_types, Enqueue_lock_requests

(* on_locks_are_available of whatever requestors.                          *)
LEMMA Notified_types ==
  ASSUME State_types, NEW R
  PROVE  /\ Notified_task_states(R) \in [Tasks -> Task_states]
         /\ Notified_calls(R) \subseteq All_calls
<1>1. Notified_task_states(R) \in [Tasks -> Task_states]
  BY DEF Notified_task_states, State_types, Task_states, Not_ending
<1>2. Notified_calls(R) \subseteq All_calls
  BY DEF Notified_calls, All_calls, Job_calls, Task_calls, Step_calls
<1> QED
  BY <1>1, <1>2

(* Standard_job::set_state leaves queues and flags of the right types.     *)
LEMMA Set_state_types ==
  ASSUME NEW j \in Jobs, NEW state, NEW wq \in Queues, NEW enq \in [Requestors -> BOOLEAN]
  PROVE  /\ Queues_after_set_state(j, state, wq, enq) \in Queues
         /\ Enqueued_after_set_state(j, state, enq) \in [Requestors -> BOOLEAN]
<1>1. Dequeued(wq, Job_requestor(j)) \in Queues
  BY Dequeued_type
<1> QED
  BY <1>1, Requestor_types DEF Queues_after_set_state, Enqueued_after_set_state

(* Standard_job::try_start_tasks keeps the types, whether it starts a      *)
(* task, enqueues the job, dequeues it or does nothing.                    *)
LEMMA Try_start_tasks_type ==
  ASSUME TypeOK, NEW j \in Jobs, NEW state \in Job_states, NEW states \in [Tasks -> Task_states],
         NEW wq \in Queues, NEW enq \in [Requestors -> BOOLEAN],
         Try_start_tasks(j, state, states, wq, enq)
  PROVE  Holder_types' /\ Queue_types' /\ State_types'
<1> DEFINE r == Job_requestor(j)
<1>1. Holder_types /\ Use_types /\ State_types
  BY Parts_of_TypeOK
<1>2. r \in Requestors /\ use_list[r] \in Seq(Uses) /\ Use_set(r) \in SUBSET Uses
  BY <1>1, Requestor_types, Use_set_type DEF Use_types
<1>3. Dequeued(wq, r) \in Queues /\ Enqueued(wq, r, Use_set(r)) \in Queues
  BY <1>2, Dequeued_type, Enqueued_type
<1> HIDE DEF r
<1>4. ASSUME NEW t \in Tasks, Starts_task(j, t, state, states, wq, enq)
      PROVE  Holder_types' /\ Queue_types' /\ State_types'
  <2>1. Holder_types'
    <3>1. Hold_locks(t, use_list[r], Len(use_list[r]))
      BY <1>4 DEF Starts_task, r
    <3>2. Len(use_list[r]) \in 0 .. Len(use_list[r])
      BY <1>2, LenProperties
    <3> QED
      BY <1>1, <1>2, <3>1, <3>2, Hold_locks_type
  <2>2. Queue_types'
    BY <1>2, <1>3, <1>4 DEF Starts_task, Queue_types, r
  <2>3. State_types'
    BY <1>1, <1>4 DEF Starts_task, State_types, Job_states, Task_states, Not_ending
  <2> QED
    BY <2>1, <2>2, <2>3
<1>5. ASSUME Starts_no_task(j, state, states, wq, enq)
      PROVE  Holder_types' /\ Queue_types' /\ State_types'
  <2>1. Holder_types'
    BY <1>1, <1>5 DEF Starts_no_task, Holder_types
  <2>2. waiting_queues' \in Queues
    BY <1>3, <1>5 DEF Starts_no_task, r
  <2>3. is_enqueued' \in [Requestors -> BOOLEAN]
    BY <1>2, <1>5 DEF Starts_no_task, r
  <2>4. State_types'
    BY <1>1, <1>5 DEF Starts_no_task, State_types
  <2> QED
    BY <2>1, <2>2, <2>3, <2>4 DEF Queue_types
<1> QED
  BY <1>4, <1>5 DEF Try_start_tasks

(* Task::set_state_direct( s_ending ) keeps the types.                     *)
LEMMA To_ending_type ==
  ASSUME TypeOK, NEW t \in Tasks, NEW hm \in Holder_maps, NEW md \in Lock_modes,
         NEW other_calls \in SUBSET All_calls, To_ending(t, hm, md, other_calls)
  PROVE  /\ Holder_types' /\ Queue_types' /\ Call_types'
         /\ task_state' \in [Tasks -> Task_states]
         /\ operation' \in [Tasks -> BOOLEAN]
<1>1. Holder_types /\ Queue_types /\ State_types
  BY Parts_of_TypeOK
<1> DEFINE list == IF task_state[t] = "running" THEN use_list[Process_api(t)] ELSE <<>>
           R == Notified_by_release(waiting_queues, hm, md, t, list)
<1>2. Holder_types'
  <2>1. Release_locks(hm, md, t, list)
    BY DEF To_ending
  <2> QED
    BY <1>1, <2>1, Release_locks_type
<1>3. Queue_types'
  <2>1. CASE task_state[t] = "running"
    BY <1>1, <2>1, Dequeue_type, Requestor_types DEF To_ending
  <2>2. CASE task_state[t] # "running"
    BY <1>1, <2>2 DEF To_ending, Queue_types
  <2> QED
    BY <2>1, <2>2
<1>4. /\ task_state' = [Notified_task_states(R) EXCEPT ![t] = "ending"]
      /\ operation' = [operation EXCEPT ![t] = TRUE]
      /\ calls' = other_calls \cup Notified_calls(R)
  BY DEF To_ending
<1>5. /\ Notified_task_states(R) \in [Tasks -> Task_states]
      /\ Notified_calls(R) \subseteq All_calls
  BY <1>1, Notified_types
<1> HIDE DEF R
<1>6. task_state' \in [Tasks -> Task_states] /\ operation' \in [Tasks -> BOOLEAN]
  BY <1>1, <1>4, <1>5 DEF Task_states, State_types
<1> QED
  BY <1>2, <1>3, <1>4, <1>5, <1>6 DEF Call_types

-----------------------------------------------------------------------------
(* Type correctness, action by action.                                     *)

LEMMA Init_type == Init => TypeOK
<1> SUFFICES ASSUME Init PROVE TypeOK
  OBVIOUS
<1>1. Holder_types
  BY DEF Init, Holder_types, Holder_maps, Lock_modes, No_holders, Modes, File_based, New_file_based
<1>2. Queue_types
  <2>1. Empty_queues \in [Modes -> Seq(Uses)]
    BY EmptySeq DEF Empty_queues
  <2> QED
    BY <2>1 DEF Init, Queue_types, Queues
<1>3. Use_types
  <2>1. ASSUME NEW j \in Jobs
        PROVE  [i \in DOMAIN Job_lock_uses[j] |->
                  <<Job_requestor(j), Job_lock_uses[j][i][1], Job_lock_uses[j][i][2]>>] \in Seq(Uses)
    <3> DEFINE list == Job_lock_uses[j]
    <3>1. list \in Seq(Locks \X Modes)
      BY TaskAssumption
    <3>2. DOMAIN list = 1 .. Len(list) /\ Len(list) \in Nat
      BY <3>1, LenProperties
    <3>3. \A i \in 1 .. Len(list) : list[i] \in Locks \X Modes
      BY <3>1, ElementOfSeq
    <3>4. \A i \in 1 .. Len(list) : <<Job_requestor(j), list[i][1], list[i][2]>> \in Uses
      BY <3>3, Requestor_types DEF Uses
    <3> HIDE DEF list
    <3>5. [i \in 1 .. Len(list) |-> <<Job_requestor(j), list[i][1], list[i][2]>>] \in Seq(Uses)
      BY <3>2, <3>4, SeqDef
    <3> QED
      BY <3>2, <3>5 DEF list
  <2>2. \A r \in Requestors : r[1] = "job" => r[2] \in Jobs /\ r = Job_requestor(r[2])
    BY DEF Requestors, Job_requestors, Task_requestors, Job_requestor
  <2>3. ASSUME NEW r \in Requestors, r[1] = "job"
        PROVE  [i \in DOMAIN Job_lock_uses[r[2]] |->
                  <<r, Job_lock_uses[r[2]][i][1], Job_lock_uses[r[2]][i][2]>>] \in Seq(Uses)
    BY <2>1, <2>2, <2>3
  <2> QED
    BY <2>3, EmptySeq DEF Init, Use_types
<1>4. State_types /\ Flag_types /\ Call_types
  BY DEF Init, State_types, Flag_types, Call_types, Job_states, Task_states
<1> QED
  BY <1>1, <1>2, <1>3, <1>4, Parts_of_TypeOK

(* The commands for a job (start_job, stop, unstop) keep the types.        *)
LEMMA Job_command_type ==
  ASSUME TypeOK, NEW j \in Jobs, Job_command(j)
  PROVE  TypeOK'
<1>1. Holder_types /\ Queue_types /\ Use_types /\ State_types /\ Flag_types /\ Call_types
  BY Parts_of_TypeOK
<1>2. CASE Start_job(j)
  <2>1. Holder_types' /\ Queue_types' /\ Use_types'
    BY <1>1, <1>2 DEF Start_job, lock_vars, Holder_types, Queue_types, Use_types
  <2>2. State_types' /\ Flag_types' /\ Call_types'
    BY <1>1, <1>2 DEF Start_job, State_types, Flag_types, Call_types, All_calls, Job_states, Job_calls
  <2> QED
    BY <2>1, <2>2, Parts_of_next_TypeOK
<1>3. CASE Stop_job(j)
  <2>1. Holder_types' /\ Use_types'
    BY <1>1, <1>3 DEF Stop_job, Holder_types, Use_types
  <2>2. Queue_types'
    BY <1>1, <1>3, Set_state_types DEF Stop_job, Queue_types
  <2>3. State_types' /\ Flag_types'
    BY <1>1, <1>3 DEF Stop_job, State_types, Flag_types, Job_states
  <2>4. Call_types'
    BY <1>1, <1>3 DEF Stop_job, Call_types, All_calls, Task_calls, Step_calls, Running_tasks, Tasks_of
  <2> QED
    BY <2>1, <2>2, <2>3, <2>4, Parts_of_next_TypeOK
<1>4. CASE Unstop_job(j)
  <2>1. "pending" \in Job_states
    BY DEF Job_states
  <2>2. Holder_types' /\ Queue_types' /\ State_types'
    BY <1>1, <1>4, <2>1, Set_state_types, Try_start_tasks_type
       DEF Unstop_job, Queue_types, State_types
  <2>3. Use_types' /\ Flag_types' /\ Call_types'
    BY <1>1, <1>4 DEF Unstop_job, Use_types, Flag_types, Call_types
  <2> QED
    BY <2>2, <2>3, Parts_of_next_TypeOK
<1> QED
  BY <1>2, <1>3, <1>4 DEF Job_command

(* The calls of a job (Standard_job::on_call) keep the types.              *)
LEMMA On_job_call_type ==
  ASSUME TypeOK, NEW j \in Jobs, NEW name \in Job_calls, On_job_call(j, name)
  PROVE  TypeOK'
<1>1. Holder_types /\ Queue_types /\ Use_types /\ State_types /\ Flag_types /\ Call_types
  BY Parts_of_TypeOK
<1>2. Holder_types' /\ Queue_types' /\ State_types'
  BY <1>1, Try_start_tasks_type DEF On_job_call, Queue_types, State_types
<1>3. Use_types' /\ Flag_types' /\ Call_types'
  BY <1>1 DEF On_job_call, Use_types, Flag_types, Call_types
<1> QED
  BY <1>2, <1>3, Parts_of_next_TypeOK

(* Task_closed_call, which removes a task object, keeps the types.         *)
LEMMA On_task_closed_type ==
  ASSUME TypeOK, NEW t \in Tasks, On_task_closed(t)
  PROVE  TypeOK'
<1> DEFINE j      == Job_of[t]
           states == [task_state EXCEPT ![t] = "none"]
           left   == Tasks_of(j, states)
           state  == IF left # {} THEN job_state[j] ELSE State_without_tasks(job_state[j])
           wq     == Dequeued(Dequeued(waiting_queues, Task_api(t)), Process_api(t))
           enq    == [is_enqueued EXCEPT ![Task_api(t)] = FALSE, ![Process_api(t)] = FALSE]
           nwq    == Queues_after_set_state(j, state, wq, enq)
           nenq   == Enqueued_after_set_state(j, state, enq)
<1>1. Holder_types /\ Queue_types /\ Use_types /\ State_types /\ Flag_types /\ Call_types
  BY Parts_of_TypeOK
<1>2. j \in Jobs
  BY TaskAssumption
<1>3. states \in [Tasks -> Task_states]
  BY <1>1 DEF State_types, Task_states
<1>4. state \in Job_states
  <2> HIDE DEF left, j
  <2> QED BY <1>1, <1>2 DEF State_types, Job_states, State_without_tasks
<1>5. wq \in Queues /\ enq \in [Requestors -> BOOLEAN]
  BY <1>1, Dequeued_type DEF Queue_types
<1>6. /\ Try_start_tasks(j, state, states, nwq, nenq)
      /\ delay' = [delay EXCEPT ![t] = FALSE]
      /\ end' = [end EXCEPT ![t] = FALSE]
      /\ error' = [error EXCEPT ![t] = FALSE]
      /\ use_list' = [use_list EXCEPT ![Task_api(t)] = <<>>, ![Process_api(t)] = <<>>]
      /\ calls' \subseteq calls \cup {<<"Below_max_tasks", j>>}
  BY DEF On_task_closed
<1> HIDE DEF j, states, state, wq, enq
<1>7. nwq \in Queues /\ nenq \in [Requestors -> BOOLEAN]
  BY <1>2, <1>5, Set_state_types
<1> HIDE DEF nwq, nenq
<1>8. Holder_types' /\ Queue_types' /\ State_types'
  BY <1>2, <1>3, <1>4, <1>6, <1>7, Try_start_tasks_type
<1>9. Use_types'
  BY <1>1, <1>6, EmptySeq DEF Use_types
<1>10. Flag_types' /\ Call_types'
  BY <1>1, <1>2, <1>6 DEF Flag_types, Call_types, All_calls, Job_calls
<1> QED
  BY <1>8, <1>9, <1>10, Parts_of_next_TypeOK

(* Task::do_something between two operations keeps the types.              *)
LEMMA Do_something_type ==
  ASSUME TypeOK, NEW t \in Tasks, NEW name \in Step_calls, Do_something(t, name)
  PROVE  TypeOK'
<1>1. Holder_types /\ Queue_types /\ Use_types /\ State_types /\ Flag_types /\ Call_types
  BY Parts_of_TypeOK
<1> DEFINE other_calls == calls \ {<<name, t>>}
<1>2. other_calls \in SUBSET All_calls
  BY <1>1 DEF Call_types
<1>3. Use_types' /\ job_state' = job_state /\ queued' = queued /\ delay' = delay
      /\ max_non_exclusive' = max_non_exclusive
  BY <1>1 DEF Do_something, Use_types
<1> SUFFICES /\ Holder_types' /\ Queue_types' /\ Call_types'
             /\ task_state' \in [Tasks -> Task_states]
             /\ operation' \in [Tasks -> BOOLEAN]
             /\ end' \in [Tasks -> BOOLEAN] /\ error' \in [Tasks -> BOOLEAN]
  BY <1>1, <1>3, Parts_of_next_TypeOK DEF State_types, Flag_types
<1> HIDE DEF other_calls
<1>4. CASE Steps_to_ending(t, other_calls)
  <2>1. To_ending(t, holder_map, lock_mode, other_calls) /\ end' = end /\ error' = error
    BY <1>4 DEF Steps_to_ending
  <2> QED
    BY <1>1, <1>2, <2>1, To_ending_type DEF Holder_types, Flag_types
<1>5. CASE Steps_into_script(t, other_calls)
  <2> DEFINE list == use_list[Level(t)]
  <2>1. list \in Seq(Uses) /\ Len(list) \in 0 .. Len(list)
    BY <1>1, Requestor_types, LenProperties DEF Use_types
  <2>2. Hold_locks(t, list, Len(list)) /\ Dequeue_lock_requests(Level(t))
    BY <1>5 DEF Steps_into_script
  <2>3. Holder_types' /\ Queue_types'
    BY <1>1, <2>1, <2>2, Hold_locks_type, Dequeue_type, Requestor_types
  <2> QED
    BY <1>1, <1>2, <1>5, <2>3 DEF Steps_into_script, Call_types, State_types, Flag_types
<1>6. CASE Fails_to_hold(t, other_calls)
  <2> DEFINE list == use_list[Level(t)]
  <2>1. list \in Seq(Uses) /\ Len(list) \in Nat
    BY <1>1, Requestor_types, LenProperties DEF Use_types
  <2>2. PICK k \in 0 .. Len(list) - 1 :
          To_ending(t, Hold(holder_map, t, list, k),
                    Hold_mode(holder_map, lock_mode, t, list, k), other_calls)
    BY <1>6 DEF Fails_to_hold
  <2> HIDE DEF list
  <2>3. /\ Hold(holder_map, t, list, k) \in Holder_maps
        /\ Hold_mode(holder_map, lock_mode, t, list, k) \in Lock_modes
    <3>1. k \in 0 .. Len(list)
      BY <2>1
    <3> QED
      BY <1>1, <2>1, <3>1, Hold_type DEF Holder_types
  <2>4. end' \in [Tasks -> BOOLEAN] /\ error' \in [Tasks -> BOOLEAN]
    BY <1>1, <1>6 DEF Fails_to_hold, Flag_types
  <2> QED
    BY <1>2, <2>2, <2>3, <2>4, To_ending_type
<1>7. CASE Has_nothing_to_do(t) /\ calls' = other_calls
           /\ UNCHANGED <<lock_vars, task_state, operation, end, error>>
  BY <1>1, <1>2, <1>7 DEF lock_vars, Holder_types, Queue_types, Call_types, State_types, Flag_types
<1> QED
  BY <1>4, <1>5, <1>6, <1>7 DEF Do_something, other_calls

(* The script's try_hold_lock and call_me_again_when_locks_available keep  *)
(* the types.                                                              *)
LEMMA Api_call_type ==
  ASSUME TypeOK, NEW t \in Tasks, Api_call(t)
  PROVE  TypeOK'
<1>1. Holder_types /\ Queue_types /\ Use_types /\ State_types /\ Flag_types /\ Call_types
  BY Parts_of_TypeOK
<1>2. ASSUME NEW l \in Locks, NEW mode \in Modes, Try_hold_lock(t, l, mode)
      PROVE  TypeOK'
  <2> DEFINE r == Level(t)
             u == <<r, l, mode>>
  <2>1. u \in Uses /\ r \in Requestors
    BY Requestor_types DEF Uses
  <2> HIDE DEF r
  <2>2. <<u>> \in Seq(Uses) /\ 1 \in 0 .. Len(<<u>>)
    BY <2>1
  <2> HIDE DEF u
  <2>3. Holder_types'
    <3>1. CASE Hold_locks(t, <<u>>, 1)
      BY <1>1, <2>2, <3>1, Hold_locks_type
    <3>2. CASE UNCHANGED <<holder_map, lock_mode, max_non_exclusive, file_based>>
      BY <1>1, <3>2 DEF Holder_types
    <3> QED
      BY <1>2, <3>1, <3>2 DEF Try_hold_lock, u, r
  <2>4. Use_types'
    <3>1. use_list' = use_list \/ use_list' = [use_list EXCEPT ![r] = Append(@, u)]
      BY <1>2 DEF Try_hold_lock, u, r
    <3>2. Append(use_list[r], u) \in Seq(Uses)
      BY <1>1, <2>1, AppendProperties DEF Use_types
    <3> QED
      BY <1>1, <3>1, <3>2 DEF Use_types
  <2>5. Queue_types' /\ State_types' /\ Flag_types' /\ Call_types'
    BY <1>1, <1>2 DEF Try_hold_lock, task_vars, Queue_types, State_types, Flag_types, Call_types
  <2> QED
    BY <2>3, <2>4, <2>5, Parts_of_next_TypeOK
<1>3. ASSUME Delay_until_locks_available(t)
      PROVE  TypeOK'
  <2>1. Holder_types' /\ Queue_types' /\ Use_types'
    BY <1>1, <1>3 DEF Delay_until_locks_available, lock_vars, Holder_types, Queue_types, Use_types
  <2>2. State_types' /\ Flag_types' /\ Call_types'
    BY <1>1, <1>3 DEF Delay_until_locks_available, State_types, Flag_types, Call_types
  <2> QED
    BY <2>1, <2>2, Parts_of_next_TypeOK
<1> QED
  BY <1>2, <1>3 DEF Api_call

(* The end of an operation, as Task::do_something handles it, keeps the    *)
(* types.                                                                  *)
LEMMA Operation_completed_type ==
  ASSUME TypeOK, NEW t \in Tasks, Operation_completed(t)
  PROVE  TypeOK'
<1>1. Holder_types /\ Queue_types /\ Use_types /\ State_types /\ Flag_types /\ Call_types
  BY Parts_of_TypeOK
<1>2. ASSUME NEW result, Starting_completed(t, result)
      PROVE  TypeOK'
  <2>1. Holder_types' /\ Queue_types' /\ Use_types' /\ Call_types'
    BY <1>1, <1>2
       DEF Starting_completed, lock_vars, Holder_types, Queue_types, Use_types, Call_types
  <2>2. \E state \in {"ending", "running_process", "opening"} :
          /\ task_state' = [task_state EXCEPT ![t] = state]
          /\ operation' = [operation EXCEPT ![t] = state # "running_process"]
    BY <1>2 DEF Starting_completed
  <2>3. State_types'
    BY <1>1, <1>2, <2>2 DEF Starting_completed, State_types, Task_states, Not_ending
  <2>4. Flag_types'
    BY <1>1, <1>2 DEF Starting_completed, Flag_types, With_error
  <2> QED
    BY <2>1, <2>3, <2>4, Parts_of_next_TypeOK
<1>3. ASSUME NEW result, Opening_completed(t, result)
      PROVE  TypeOK'
  <2>1. Holder_types' /\ Use_types' /\ Call_types'
    BY <1>1, <1>3 DEF Opening_completed, Holder_types, Use_types, Call_types
  <2>2. Queue_types'
    <3>1. CASE delay[t]
      BY <1>1, <1>3, <3>1, Enqueue_type, Requestor_types DEF Opening_completed
    <3>2. CASE ~delay[t]
      BY <1>1, <1>3, <3>2 DEF Opening_completed, Queue_types
    <3> QED
      BY <3>1, <3>2
  <2>3. \E state \in {"ending", "opening_waiting_for_locks", "running"} :
          /\ task_state' = [task_state EXCEPT ![t] = state]
          /\ operation' = [operation EXCEPT ![t] = state # "opening_waiting_for_locks"]
    BY <1>3 DEF Opening_completed
  <2>4. State_types'
    BY <1>1, <1>3, <2>3 DEF Opening_completed, State_types, Task_states, Not_ending, Waiting
  <2>5. Flag_types'
    BY <1>1, <1>3 DEF Opening_completed, Flag_types, With_error
  <2> QED
    BY <2>1, <2>2, <2>4, <2>5, Parts_of_next_TypeOK
<1>4. ASSUME NEW result, Step_completed(t, result)
      PROVE  TypeOK'
  <2> DEFINE r    == Process_api(t)
             list == use_list[r]
             R    == Notified_by_release(waiting_queues, holder_map, lock_mode, t, list)
             ends == result = "error" \/ (~delay[t] /\ result # "true")
  <2>1. Holder_types'
    <3>1. Release_locks(holder_map, lock_mode, t, list)
      BY <1>4 DEF Step_completed
    <3> QED
      BY <1>1, <3>1, Release_locks_type DEF Holder_types
  <2>2. Queue_types' /\ Use_types'
    <3>1. CASE delay[t]
      BY <1>1, <1>4, <3>1, Enqueue_type, Requestor_types DEF Step_completed, Use_types
    <3>2. CASE ~delay[t]
      BY <1>1, <1>4, <3>2, EmptySeq DEF Step_completed, Queue_types, Use_types
    <3> QED
      BY <3>1, <3>2
  <2>3. \E state \in {"ending", "running_waiting_for_locks", "running"} :
          task_state' = [Notified_task_states(R) EXCEPT ![t] = state]
    BY <1>4 DEF Step_completed
  <2>4. /\ operation' = [operation EXCEPT ![t] = ends]
        /\ calls' = calls \cup Notified_calls(R) \cup {<<"Try_next_step", t>>}
        /\ job_state' = job_state /\ queued' = queued
    BY <1>4 DEF Step_completed
  <2>5. /\ Notified_task_states(R) \in [Tasks -> Task_states]
        /\ Notified_calls(R) \subseteq All_calls
    BY <1>1, Notified_types
  <2>6. Flag_types'
    BY <1>1, <1>4 DEF Step_completed, Flag_types, With_error
  <2> HIDE DEF R, ends
  <2>7. task_state' \in [Tasks -> Task_states]
    BY <2>3, <2>5 DEF Task_states, Not_ending, Waiting
  <2>8. operation' \in [Tasks -> BOOLEAN]
    BY <1>1, <2>4 DEF State_types, ends
  <2>9. State_types'
    BY <1>1, <2>4, <2>7, <2>8 DEF State_types
  <2>10. Call_types'
    BY <1>1, <2>4, <2>5 DEF Call_types, All_calls, Task_calls, Step_calls
  <2> QED
    BY <2>1, <2>2, <2>6, <2>9, <2>10, Parts_of_next_TypeOK
<1>5. ASSUME Ending_completed(t)
      PROVE  TypeOK'
  <2> DEFINE j      == Job_of[t]
             stops  == error[t] /\ job_state[j] # "stopping"
             queues == IF stops /\ is_enqueued[Job_requestor(j)]
                         THEN Dequeued(waiting_queues, Job_requestor(j)) ELSE waiting_queues
             S      == {Job_requestor(Job_of[t]), Task_api(t), Process_api(t)}
             list(o) == use_list[o[1]] \o use_list[o[2]] \o use_list[o[3]]
  <2>1. j \in Jobs /\ S \subseteq Requestors
    BY TaskAssumption, Requestor_types
  <2>2. PICK o \in Requestor_orders(t) :
          LET R == Notified_by_release(queues, holder_map, lock_mode, t, list(o))
          IN  /\ Release_locks(holder_map, lock_mode, t, list(o))
              /\ task_state' = [Notified_task_states(R) EXCEPT ![t] = "closed"]
              /\ calls' = calls \cup Notified_calls(R) \cup {<<"Task_closed", t>>}
    BY <1>5 DEF Ending_completed
  <2> DEFINE R == Notified_by_release(queues, holder_map, lock_mode, t, list(o))
  <2>3. Holder_types'
    BY <1>1, <2>2, Release_locks_type DEF Holder_types
  <2>4. Queue_types'
    <3>1. queues \in Queues
      BY <1>1, Dequeued_type DEF Queue_types
    <3>2. waiting_queues' = queues
          /\ is_enqueued' = [is_enqueued EXCEPT ![Job_requestor(j)] = @ /\ ~stops]
      BY <1>5 DEF Ending_completed
    <3> HIDE DEF queues, stops
    <3> QED
      BY <1>1, <3>1, <3>2 DEF Queue_types
  <2>5. /\ Notified_task_states(R) \in [Tasks -> Task_states]
        /\ Notified_calls(R) \subseteq All_calls
    BY <1>1, Notified_types
  <2>6. /\ task_state' = [Notified_task_states(R) EXCEPT ![t] = "closed"]
        /\ calls' = calls \cup Notified_calls(R) \cup {<<"Task_closed", t>>}
    BY <2>2
  <2> HIDE DEF R
  <2>7. task_state' \in [Tasks -> Task_states] /\ Call_types'
    BY <1>1, <2>5, <2>6 DEF Task_states, Call_types, All_calls, Task_calls
  <2>8. State_types'
    BY <1>1, <1>5, <2>7 DEF Ending_completed, State_types, Job_states
  <2>9. Use_types' /\ Flag_types'
    BY <1>1, <1>5 DEF Ending_completed, Use_types, Flag_types
  <2> QED
    BY <2>3, <2>4, <2>7, <2>8, <2>9, Parts_of_next_TypeOK
<1> QED
  BY <1>2, <1>3, <1>4, <1>5 DEF Operation_completed

(* The end of an external process keeps the types.                         *)
LEMMA Process_signaled_type ==
  ASSUME TypeOK, NEW t \in Tasks, Process_signaled(t) \/ End_task(t)
  PROVE  TypeOK'
<1>1. Holder_types /\ Queue_types /\ Use_types /\ State_types /\ Flag_types /\ Call_types
  BY Parts_of_TypeOK
<1>2. Holder_types' /\ Queue_types' /\ Use_types'
  BY <1>1 DEF Process_signaled, End_task, lock_vars, Holder_types, Queue_types, Use_types
<1>3. State_types'
  BY <1>1 DEF Process_signaled, End_task, State_types, Task_states
<1>4. Flag_types'
  BY <1>1 DEF Process_signaled, End_task, Flag_types
<1>5. Call_types'
  BY <1>1 DEF Process_signaled, End_task, Call_types, All_calls, Task_calls, Step_calls
<1> QED
  BY <1>2, <1>3, <1>4, <1>5, Parts_of_next_TypeOK

(* on_locks_are_available of any requestors keeps the types of jobs and    *)
(* tasks.                                                                  *)
LEMMA Notify_requestors_type ==
  ASSUME TypeOK, NEW R, Notify_requestors(R)
  PROVE  State_types' /\ Flag_types' /\ Call_types'
<1>1. Holder_types /\ Queue_types /\ Use_types /\ State_types /\ Flag_types /\ Call_types
  BY Parts_of_TypeOK
<1>2. /\ Notified_task_states(R) \in [Tasks -> Task_states]
      /\ Notified_calls(R) \subseteq All_calls
  BY <1>1, Notified_types
<1> QED
  BY <1>1, <1>2 DEF Notify_requestors, State_types, Flag_types, Call_types

(* A removed lock is still a file based object of the right type.          *)
LEMMA Removed_type ==
  ASSUME Holder_types, NEW l \in Locks
  PROVE  Removed(l) \in [Locks -> File_based]
<1>1. [New_file_based EXCEPT !.known = FALSE] \in File_based
  BY DEF New_file_based, File_based
<1> QED
  BY <1>1 DEF Removed, Holder_types

(* Removing, adding, replacing and limiting a lock keep the types.         *)
LEMMA Change_lock_type ==
  ASSUME TypeOK, NEW l \in Locks, Change_lock(l)
  PROVE  TypeOK'
<1>1. Holder_types /\ Queue_types /\ Use_types /\ State_types /\ Flag_types /\ Call_types
  BY Parts_of_TypeOK
<1>2. CASE Remove(l) /\ UNCHANGED task_vars
  <2>1. holder_map' = holder_map /\ lock_mode' = lock_mode /\ Use_types'
        /\ max_non_exclusive' = max_non_exclusive
    BY <1>1, <1>2 DEF Remove, Use_types
  <2>2. file_based' \in [Locks -> File_based]
    <3>1. [file_based EXCEPT ![l].to_be_removed = TRUE, ![l].replacement = NoReplacement]
            \in [Locks -> File_based]
      BY <1>1 DEF Holder_types, File_based
    <3> QED
      BY <1>1, <1>2, <3>1, Removed_type DEF Remove
  <2>3. Queue_types'
    <3>1. Prepared_to_remove(l) = {}
      BY DEF Prepared_to_remove, Dequeued_by_prepare_to_remove
    <3>2. \A queue : Without_requestors(queue, {}) = queue
      BY DEF Without_requestors
    <3>3. <<>> \in Seq(Uses)
      BY EmptySeq
    <3>4. waiting_queues' \in Queues
      BY <1>1, <1>2, <3>1, <3>2, <3>3 DEF Remove, Queue_types, Queues
    <3>5. is_enqueued' \in [Requestors -> BOOLEAN]
      BY <1>1, <1>2, <3>1 DEF Remove, Queue_types
    <3> QED
      BY <3>4, <3>5 DEF Queue_types
  <2>4. Holder_types'
    BY <1>1, <2>1, <2>2 DEF Holder_types
  <2>5. State_types' /\ Flag_types' /\ Call_types'
    BY <1>1, <1>2 DEF task_vars, State_types, Flag_types, Call_types
  <2> QED
    BY <2>1, <2>3, <2>4, <2>5, Parts_of_next_TypeOK
<1>3. CASE Add_lock(l) /\ UNCHANGED task_vars
  <2>1. New_file_based \in File_based /\ lk_exclusive \in Modes
    BY DEF New_file_based, File_based, Modes
  <2>2. Holder_types'
    BY <1>1, <1>3, <2>1 DEF Add_lock, Holder_types, Lock_modes
  <2>3. Queue_types' /\ Use_types'
    BY <1>1, <1>3 DEF Add_lock, Queue_types, Use_types
  <2>4. State_types' /\ Flag_types' /\ Call_types'
    BY <1>1, <1>3 DEF task_vars, State_types, Flag_types, Call_types
  <2> QED
    BY <2>2, <2>3, <2>4, Parts_of_next_TypeOK
<1>4. ASSUME NEW n \in Max_values, Replace_with(l, n), Notify_requestors(Notified_by_limit(l))
      PROVE  TypeOK'
  <2>1. holder_map' = holder_map /\ lock_mode' = lock_mode /\ Queue_types' /\ Use_types'
    BY <1>1, <1>4 DEF Replace_with, Queue_types, Use_types
  <2>2. max_non_exclusive' \in [Locks -> Max_values]
    BY <1>1, <1>4 DEF Replace_with, Holder_types
  <2>3. file_based' \in [Locks -> File_based]
    <3>1. file_based \in [Locks -> File_based]
      BY <1>1 DEF Holder_types
    <3>2. \E m \in Max_values \cup {NoReplacement} :
            file_based' = [file_based EXCEPT ![l] = [@ EXCEPT !.to_be_removed = FALSE, !.replacement = m]]
      BY <1>4, <3>1 DEF Replace_with, File_based
    <3>3. PICK m \in Max_values \cup {NoReplacement} :
            file_based' = [file_based EXCEPT ![l] = [@ EXCEPT !.to_be_removed = FALSE, !.replacement = m]]
      BY <3>2
    <3>4. [file_based[l] EXCEPT !.to_be_removed = FALSE, !.replacement = m] \in File_based
      BY <3>1 DEF File_based
    <3> QED BY <3>1, <3>3, <3>4
  <2>4. Holder_types'
    BY <1>1, <2>1, <2>2, <2>3 DEF Holder_types
  <2> QED
    BY <1>4, <2>1, <2>4, Notify_requestors_type, Parts_of_next_TypeOK
<1>5. ASSUME NEW n \in Max_values, Set_max_non_exclusive(l, n),
             Notify_requestors(Notified_by_limit(l))
      PROVE  TypeOK'
  <2>1. Holder_types' /\ Queue_types' /\ Use_types'
    BY <1>1, <1>5 DEF Set_max_non_exclusive, Holder_types, Queue_types, Use_types
  <2> QED
    BY <1>5, <2>1, Notify_requestors_type, Parts_of_next_TypeOK
<1> QED
  BY <1>2, <1>3, <1>4, <1>5 DEF Change_lock

(* handle_replace_or_remove_candidates keeps the types.                    *)
LEMMA Handle_candidate_type ==
  ASSUME TypeOK, NEW l \in Locks, Handle_candidate(l)
  PROVE  TypeOK'
<1>1. Holder_types /\ Queue_types /\ Use_types /\ State_types /\ Flag_types /\ Call_types
  BY Parts_of_TypeOK
<1> USE DEF Handle_candidate, Handle_replace_or_remove_candidate
<1>2. holder_map' = holder_map /\ lock_mode' = lock_mode
      /\ is_enqueued' = is_enqueued /\ Use_types'
  BY <1>1 DEF Use_types
<1>3. max_non_exclusive' \in [Locks -> Max_values]
  BY <1>1 DEF Holder_types, File_based
<1>4. file_based' \in [Locks -> File_based]
  <2>1. \A n \in {NoReplacement, file_based[l].replacement} :
          [file_based EXCEPT ![l].candidate = FALSE, ![l].replacement = n] \in [Locks -> File_based]
    BY <1>1 DEF Holder_types, File_based
  <2> QED
    BY <1>1, <2>1, Removed_type
<1>5. Holder_types'
  BY <1>1, <1>2, <1>3, <1>4 DEF Holder_types
<1>6. Queue_types'
  <2>1. Empty_queues \in [Modes -> Seq(Uses)]
    BY EmptySeq DEF Empty_queues
  <2> QED
    BY <1>1, <1>2, <2>1 DEF Queue_types, Queues
<1> QED
  BY <1>2, <1>5, <1>6, Notify_requestors_type, Parts_of_next_TypeOK

(* The variables of jobs, tasks and locks have their types in every        *)
(* reachable state: what TypeOK lists.                                     *)
THEOREM Type_correct == Spec => []TypeOK
<1>1. TypeOK /\ [Next]_vars => TypeOK'
  <2> SUFFICES ASSUME TypeOK, [Next]_vars PROVE TypeOK'
    OBVIOUS
  <2>1. CASE Next
    BY <2>1, Job_command_type, On_job_call_type, Do_something_type, On_task_closed_type,
       Api_call_type, Operation_completed_type, Process_signaled_type, Change_lock_type,
       Handle_candidate_type DEF Next
  <2>2. CASE UNCHANGED vars
    BY <2>2 DEF vars, lock_vars, task_vars, TypeOK, Lock_types, Task_types
  <2> QED
    BY <2>1, <2>2
<1> QED
  BY Init_type, <1>1, PTL DEF Spec

-----------------------------------------------------------------------------
(* The exclusion of holders.  That nobody overtakes a holder's exclusive   *)
(* use needs the mode of the lock, which is what the code asks, and that   *)
(* a lock which is not known is free: Holds_are_right, with the types.     *)

Right_now == Holds_are_right(holder_map, lock_mode, file_based)

Holds_are_right_invariant == TypeOK /\ Right_now

(* At the start nobody holds a lock.                                       *)
LEMMA Init_holds_right == Init => Right_now
BY DEF Init, Right_now, Holds_are_right, Excludes, Agrees, Held_by, No_holders, New_file_based

(* Steps that take and give nothing.                                       *)
LEMMA Unchanged_holds_right ==
  ASSUME Right_now, UNCHANGED <<holder_map, lock_mode, file_based>>
  PROVE  Right_now'
BY DEF Right_now, Holds_are_right, Excludes, Agrees, Held_by

(* hold_locks by any holder preserves the exclusion of holders, if each    *)
(* use was free.                                                           *)
LEMMA Hold_locks_right ==
  ASSUME Holds_are_right_invariant, NEW h \in Holders,
         NEW list \in Seq(Uses), NEW k \in 0 .. Len(list),
         May_hold_first(holder_map, lock_mode, h, list, k), Hold_locks(h, list, k)
  PROVE  Right_now'
<1>1. holder_map \in Holder_maps /\ lock_mode \in Lock_modes
  BY Parts_of_TypeOK DEF Holder_types, Holds_are_right_invariant
<1>2. Holds_are_right(Hold(holder_map, h, list, k), Hold_mode(holder_map, lock_mode, h, list, k),
                      file_based)
  BY <1>1, Hold_keeps_holds_right DEF Holds_are_right_invariant, Right_now
<1>3. /\ holder_map' = Hold(holder_map, h, list, k)
      /\ lock_mode' = Hold_mode(holder_map, lock_mode, h, list, k)
      /\ file_based' = file_based
  BY DEF Hold_locks
<1> QED
  BY <1>2, <1>3 DEF Right_now, Holds_are_right, Excludes, Agrees, Held_by

(* release_locks by any holder preserves the exclusion of holders.         *)
LEMMA Release_locks_right ==
  ASSUME Holder_types, NEW h \in Holders, NEW list,
         NEW hm \in Holder_maps, NEW md \in Lock_modes,
         Holds_are_right(hm, md, file_based), Release_locks(hm, md, h, list)
  PROVE  Right_now'
<1> DEFINE fb == Candidates_after_release(hm, h, list)
           k  == Len(list)
<1>1. \A l \in Locks : fb[l].known = file_based[l].known
  BY Candidates_type DEF Holder_types
<1> HIDE DEF fb, k
<1>2. Holds_are_right(Release(hm, h, list, k), Release_mode(hm, md, h, list, k), fb)
  BY <1>1, Release_keeps_holds_right
<1>3. /\ holder_map' = Release(hm, h, list, k)
      /\ lock_mode' = Release_mode(hm, md, h, list, k)
      /\ file_based' = fb
  BY DEF Release_locks, fb, k
<1> QED
  BY <1>2, <1>3 DEF Right_now, Holds_are_right, Excludes, Agrees, Held_by

(* try_start_tasks, which takes the locks of the job for a new task,       *)
(* preserves the exclusion: the job has found each of its locks free for   *)
(* nobody in particular.                                                   *)
LEMMA Try_start_tasks_right ==
  ASSUME Holds_are_right_invariant, NEW j \in Jobs, NEW state, NEW states, NEW wq, NEW enq,
         Try_start_tasks(j, state, states, wq, enq)
  PROVE  Right_now'
<1> DEFINE r == Job_requestor(j)
           list == use_list[r]
<1>1. ASSUME NEW t \in Tasks, Starts_task(j, t, state, states, wq, enq)
      PROVE  Right_now'
  <2>1. list \in Seq(Uses) /\ Len(list) \in 0 .. Len(list) /\ DOMAIN list = 1 .. Len(list)
    BY Parts_of_TypeOK, Requestor_types, LenProperties DEF Use_types, Holds_are_right_invariant
  <2>2. Job_locks_are_available(j, wq) /\ Hold_locks(t, list, Len(list))
    BY <1>1 DEF Starts_task
  <2>3. Own_holder(r) = NoHolder
    BY DEF Own_holder, Job_requestor
  <2>4. list # <<>> => \A u \in Use_set(r) : /\ file_based[Lock_of(u)].known
                                            /\ Is_free_for(holder_map, lock_mode, u, NoHolder)
    BY <2>2, <2>3 DEF Job_locks_are_available, Locks_are_available, Locks_are_available_for_holder
  <2>5. \A i \in 1 .. Len(list) : /\ file_based[Lock_of(list[i])].known
                                 /\ Is_free_for(holder_map, lock_mode, list[i], NoHolder)
    <3>1. list = <<>> => 1 .. Len(list) = {}
      BY EmptySeq
    <3>2. \A i \in 1 .. Len(list) : list[i] \in Use_set(r)
      BY <2>1 DEF Use_set
    <3> QED
      BY <2>4, <3>1, <3>2
  <2>6. holder_map \in Holder_maps /\ lock_mode \in Lock_modes /\ t \in Holders
    BY Parts_of_TypeOK DEF Holder_types, Holds_are_right_invariant, Holders
  <2> HIDE DEF list
  <2>7. May_hold_first(holder_map, lock_mode, t, list, Len(list))
    BY <2>1, <2>5, <2>6, Available_uses_may_be_held
  <2> QED
    BY <2>1, <2>2, <2>6, <2>7, Hold_locks_right
<1>2. ASSUME Starts_no_task(j, state, states, wq, enq)
      PROVE  Right_now'
  BY <1>2, Unchanged_holds_right DEF Starts_no_task, Holds_are_right_invariant
<1> QED
  BY <1>1, <1>2 DEF Try_start_tasks

(* A task that ends gives its process level locks back, which preserves    *)
(* the exclusion.                                                          *)
LEMMA To_ending_right ==
  ASSUME TypeOK, NEW t \in Tasks, NEW hm \in Holder_maps, NEW md \in Lock_modes,
         NEW other_calls, Holds_are_right(hm, md, file_based),
         To_ending(t, hm, md, other_calls)
  PROVE  Right_now'
<1> DEFINE list == IF task_state[t] = "running" THEN use_list[Process_api(t)] ELSE <<>>
<1>1. Release_locks(hm, md, t, list)
  BY DEF To_ending
<1>2. Holder_types /\ t \in Holders
  BY Parts_of_TypeOK DEF Holders
<1> QED
  BY <1>1, <1>2, Release_locks_right

(* Task::do_something between two operations preserves the exclusion,      *)
(* even if hold_locks throws half-way.                                     *)
LEMMA Do_something_right ==
  ASSUME Holds_are_right_invariant, NEW t \in Tasks, NEW name \in Step_calls,
         Do_something(t, name)
  PROVE  Right_now'
<1> DEFINE other_calls == calls \ {<<name, t>>}
           list == use_list[Level(t)]
<1>1. /\ holder_map \in Holder_maps /\ lock_mode \in Lock_modes
      /\ list \in Seq(Uses) /\ Len(list) \in Nat /\ t \in Holders
  BY Parts_of_TypeOK, Requestor_types, LenProperties
     DEF Holds_are_right_invariant, Holder_types, Use_types, Holders
<1>2. ASSUME NEW k \in 0 .. Len(list), Holds_up_to(holder_map, lock_mode, t, list, k)
      PROVE  May_hold_first(holder_map, lock_mode, t, list, k)
  <2>1. \A i \in 1 .. k : Can_require(holder_map, lock_mode, t, list, i)
    BY <1>2 DEF Holds_up_to
  <2> QED
    BY <1>1, <2>1, Required_uses_may_be_held
<1> HIDE DEF other_calls, list
<1>3. CASE Steps_to_ending(t, other_calls)
  BY <1>1, <1>3, To_ending_right DEF Steps_to_ending, Holds_are_right_invariant, Right_now
<1>4. CASE Steps_into_script(t, other_calls)
  <2>1. /\ Holds_up_to(holder_map, lock_mode, t, list, Len(list))
        /\ Hold_locks(t, list, Len(list))
    BY <1>4 DEF Steps_into_script, list
  <2>2. Len(list) \in 0 .. Len(list)
    BY <1>1
  <2> QED
    BY <1>1, <1>2, <2>1, <2>2, Hold_locks_right
<1>5. CASE Fails_to_hold(t, other_calls)
  <2>1. PICK k \in 0 .. Len(list) - 1 :
          /\ Holds_up_to(holder_map, lock_mode, t, list, k)
          /\ To_ending(t, Hold(holder_map, t, list, k),
                       Hold_mode(holder_map, lock_mode, t, list, k), other_calls)
    BY <1>5 DEF Fails_to_hold, list
  <2> DEFINE hm == Hold(holder_map, t, list, k)
             md == Hold_mode(holder_map, lock_mode, t, list, k)
  <2>2. k \in 0 .. Len(list)
    BY <1>1
  <2>3. hm \in Holder_maps /\ md \in Lock_modes
    BY <1>1, <2>2, Hold_type
  <2>4. Holds_are_right(hm, md, file_based)
    BY <1>1, <1>2, <2>1, <2>2, Hold_keeps_holds_right DEF Holds_are_right_invariant, Right_now
  <2>5. To_ending(t, hm, md, other_calls)
    BY <2>1
  <2> HIDE DEF hm, md
  <2> QED
    BY <2>3, <2>4, <2>5, To_ending_right DEF Holds_are_right_invariant
<1>6. CASE UNCHANGED lock_vars
  BY <1>6, Unchanged_holds_right DEF lock_vars, Holds_are_right_invariant
<1> QED
  BY <1>3, <1>4, <1>5, <1>6 DEF Do_something, other_calls

(* try_hold_lock takes a lock only if it is free for the task: the         *)
(* exclusion is preserved.                                                 *)
LEMMA Api_call_right ==
  ASSUME Holds_are_right_invariant, NEW t \in Tasks, Api_call(t)
  PROVE  Right_now'
<1>1. holder_map \in Holder_maps /\ lock_mode \in Lock_modes /\ t \in Holders
  BY Parts_of_TypeOK DEF Holds_are_right_invariant, Holder_types, Holders
<1>2. ASSUME NEW l \in Locks, NEW mode \in Modes, Try_hold_lock(t, l, mode)
      PROVE  Right_now'
  <2> DEFINE u    == <<Level(t), l, mode>>
             list == <<u>>
  <2>1. CASE file_based[l].known /\ Is_free_for(holder_map, lock_mode, u, t)
    <3>1. Hold_locks(t, list, 1)
      BY <1>2, <2>1 DEF Try_hold_lock
    <3>2. list \in Seq(Uses) /\ 1 \in 0 .. Len(list)
      <4>1. u \in Uses
        BY Requestor_types DEF Uses
      <4> HIDE DEF u
      <4> QED BY <4>1
    <3>3. /\ Hold(holder_map, t, list, 0) = holder_map
          /\ Hold_mode(holder_map, lock_mode, t, list, 0) = lock_mode
      <4>1. \A k \in Locks : On_lock(First(list, 0), k) = {}
        BY DEF On_lock, First
      <4> HIDE DEF list
      <4>2. Hold(holder_map, t, list, 0) = holder_map
        BY <1>1, <4>1 DEF Hold, Holder_maps
      <4>3. Hold_mode(holder_map, lock_mode, t, list, 0) = lock_mode
        BY <1>1, <4>1 DEF Hold_mode, Lock_modes, Has_exclusive
      <4> QED
        BY <4>2, <4>3
    <3>4. \A i \in 1 .. 1 : Can_require(holder_map, lock_mode, t, list, i)
      <4>1. list[1] = u /\ Lock_of(u) = l /\ 1 - 1 = 0
        BY DEF Lock_of
      <4> HIDE DEF list, u
      <4> QED
        BY <2>1, <3>3, <4>1 DEF Can_require
    <3> HIDE DEF list
    <3>5. May_hold_first(holder_map, lock_mode, t, list, 1)
      BY <1>1, <3>2, <3>4, Required_uses_may_be_held
    <3> QED
      BY <1>1, <3>1, <3>2, <3>5, Hold_locks_right
  <2>2. CASE ~(file_based[l].known /\ Is_free_for(holder_map, lock_mode, u, t))
    BY <1>2, <2>2, Unchanged_holds_right DEF Try_hold_lock, Holds_are_right_invariant
  <2> QED
    BY <2>1, <2>2
<1>3. CASE Delay_until_locks_available(t)
  BY <1>3, Unchanged_holds_right DEF Delay_until_locks_available, lock_vars, Holds_are_right_invariant
<1> QED
  BY <1>2, <1>3 DEF Api_call

(* The end of an operation only gives locks back: the exclusion is         *)
(* preserved.                                                              *)
LEMMA Operation_completed_right ==
  ASSUME Holds_are_right_invariant, NEW t \in Tasks, Operation_completed(t)
  PROVE  Right_now'
<1>1. /\ Holder_types /\ t \in Holders
      /\ holder_map \in Holder_maps /\ lock_mode \in Lock_modes
      /\ Holds_are_right(holder_map, lock_mode, file_based)
  BY Parts_of_TypeOK DEF Holds_are_right_invariant, Right_now, Holder_types, Holders
<1>2. ASSUME NEW list, Release_locks(holder_map, lock_mode, t, list)
      PROVE  Right_now'
  BY <1>1, <1>2, Release_locks_right
<1>3. ASSUME NEW result, Starting_completed(t, result)
      PROVE  Right_now'
  BY <1>3, Unchanged_holds_right DEF Starting_completed, lock_vars, Holds_are_right_invariant
<1>4. ASSUME NEW result, Opening_completed(t, result)
      PROVE  Right_now'
  BY <1>4, Unchanged_holds_right DEF Opening_completed, Holds_are_right_invariant
<1>5. ASSUME NEW result, Step_completed(t, result)
      PROVE  Right_now'
  BY <1>2, <1>5 DEF Step_completed
<1>6. CASE Ending_completed(t)
  BY <1>2, <1>6 DEF Ending_completed
<1> QED
  BY <1>3, <1>4, <1>5, <1>6 DEF Operation_completed

(* Changes of a lock, now or when it has become a candidate, preserve the  *)
(* exclusion: a lock that is held is not removed, and a new lock of the    *)
(* same path is held by nobody.                                            *)
LEMMA Change_lock_right ==
  ASSUME Holds_are_right_invariant, NEW l \in Locks, Change_lock(l) \/ Handle_candidate(l)
  PROVE  Right_now'
<1>1. file_based \in [Locks -> File_based] /\ lock_mode \in Lock_modes
  BY Parts_of_TypeOK DEF Holds_are_right_invariant, Holder_types
<1>2. Holds_are_right(holder_map, lock_mode, file_based)
  BY DEF Holds_are_right_invariant, Right_now
<1>3. ASSUME holder_map' = holder_map,
             \A k \in Locks : Held_by(holder_map, k) # {} =>
               lock_mode'[k] = lock_mode[k] /\ file_based'[k].known = file_based[k].known,
             file_based' \in [Locks -> File_based]
      PROVE  Right_now'
  <2>1. Excludes(holder_map')
    BY <1>2, <1>3 DEF Holds_are_right, Excludes, Held_by
  <2>2. Agrees(holder_map', lock_mode')
    BY <1>2, <1>3 DEF Holds_are_right, Agrees, Held_by
  <2>3. \A k \in Locks : ~file_based'[k].known => Held_by(holder_map', k) = {}
    BY <1>2, <1>3 DEF Holds_are_right
  <2> QED
    BY <2>1, <2>2, <2>3 DEF Right_now, Holds_are_right, Excludes, Agrees, Held_by
<1>4. file_based' \in [Locks -> File_based]
  <2>1. TypeOK'
    BY Change_lock_type, Handle_candidate_type DEF Holds_are_right_invariant
  <2> QED
    BY <2>1, Parts_of_next_TypeOK DEF Holder_types
<1>5. CASE Remove(l)
  <2>1. holder_map' = holder_map /\ lock_mode' = lock_mode
    BY <1>5 DEF Remove
  <2>2. \A k \in Locks : Held_by(holder_map, k) # {} => file_based'[k].known = file_based[k].known
    BY <1>1, <1>5 DEF Remove, Removed, File_based
  <2> QED
    BY <1>3, <1>4, <2>1, <2>2
<1>6. CASE Add_lock(l)
  <2>1. Held_by(holder_map, l) = {}
    BY <1>2, <1>6 DEF Add_lock, Holds_are_right
  <2>2. holder_map' = holder_map /\ \A k \in Locks \ {l} :
          lock_mode'[k] = lock_mode[k] /\ file_based'[k] = file_based[k]
    BY <1>1, <1>6 DEF Add_lock, Lock_modes
  <2> QED
    BY <1>3, <1>4, <2>1, <2>2
<1>7. CASE \E n \in Max_values : Replace_with(l, n)
  <2>1. holder_map' = holder_map /\ lock_mode' = lock_mode
    BY <1>7 DEF Replace_with
  <2>2. \A k \in Locks : file_based'[k].known = file_based[k].known
    BY <1>1, <1>7 DEF Replace_with, File_based
  <2> QED
    BY <1>3, <1>4, <2>1, <2>2
<1>8. CASE \E n \in Max_values : Set_max_non_exclusive(l, n)
  BY <1>8, Unchanged_holds_right DEF Set_max_non_exclusive, Holds_are_right_invariant
<1>9. CASE Handle_replace_or_remove_candidate(l)
  <2>1. holder_map' = holder_map /\ lock_mode' = lock_mode
    BY <1>9 DEF Handle_replace_or_remove_candidate
  <2>2. \A k \in Locks : Held_by(holder_map, k) # {} => file_based'[k].known = file_based[k].known
    BY <1>1, <1>9 DEF Handle_replace_or_remove_candidate, Removed, File_based
  <2> QED
    BY <1>3, <1>4, <2>1, <2>2
<1> QED
  BY <1>5, <1>6, <1>7, <1>8, <1>9 DEF Change_lock, Handle_candidate

(* Every step preserves the exclusion of holders.                          *)
LEMMA Next_holds_right ==
  Holds_are_right_invariant /\ [Next]_vars => Right_now'
<1> SUFFICES ASSUME Holds_are_right_invariant, [Next]_vars PROVE Right_now'
  OBVIOUS
<1>1. ASSUME NEW j \in Jobs, Job_command(j) PROVE Right_now'
  <2>1. CASE Start_job(j)
    BY <2>1, Unchanged_holds_right DEF Start_job, lock_vars, Holds_are_right_invariant
  <2>2. CASE Stop_job(j)
    BY <2>2, Unchanged_holds_right DEF Stop_job, Holds_are_right_invariant
  <2>3. CASE Unstop_job(j)
    BY <2>3, Try_start_tasks_right DEF Unstop_job
  <2> QED
    BY <1>1, <2>1, <2>2, <2>3 DEF Job_command
<1>2. ASSUME NEW j \in Jobs, NEW name \in Job_calls, On_job_call(j, name) PROVE Right_now'
  BY <1>2, Try_start_tasks_right DEF On_job_call
<1>3. ASSUME NEW t \in Tasks, On_task_closed(t) PROVE Right_now'
  <2>1. Job_of[t] \in Jobs
    BY TaskAssumption
  <2> QED
    BY <1>3, <2>1, Try_start_tasks_right DEF On_task_closed
<1>4. ASSUME NEW t \in Tasks, Process_signaled(t) \/ End_task(t) PROVE Right_now'
  BY <1>4, Unchanged_holds_right DEF Process_signaled, End_task, lock_vars, Holds_are_right_invariant
<1>5. CASE UNCHANGED vars
  BY <1>5, Unchanged_holds_right DEF vars, lock_vars, Holds_are_right_invariant
<1> QED
  BY <1>1, <1>2, <1>3, <1>4, <1>5, Do_something_right, Api_call_right, Operation_completed_right,
     Change_lock_right DEF Next

(* In every reachable state: nobody else holds a lock that a task holds    *)
(* exclusively, the mode of a held lock is right, and nobody holds a lock   *)
(* that has been removed.                                                  *)
THEOREM Holders_are_exclusive ==
  Spec => [](Mutual_exclusion /\ Mode_agrees)
<1>1. Init => Holds_are_right_invariant
  BY Init_type, Init_holds_right DEF Holds_are_right_invariant
<1>2. Holds_are_right_invariant /\ TypeOK' /\ [Next]_vars => Holds_are_right_invariant'
  BY Next_holds_right DEF Holds_are_right_invariant
<1>3. Holds_are_right_invariant => Mutual_exclusion /\ Mode_agrees
  BY DEF Holds_are_right_invariant, Right_now, Holds_are_right, Mutual_exclusion, Mode_agrees
<1> QED
  BY <1>1, <1>2, <1>3, Type_correct, PTL DEF Spec

-----------------------------------------------------------------------------
(* When a holder may have the uses N of a lock instead of those it has:    *)
(* exclusively only if it is the only holder or has been exclusive before; *)
(* as a new reader only if there is no writer and the limit is not         *)
(* reached.                                                                *)
May_have(l, h, N) ==
  /\ Has_exclusive(N) =>
       Has_exclusive(holder_map[l][h]) \/ Held_by(holder_map, l) \subseteq {h}
  /\ N # {} /\ holder_map[l][h] = {} /\ ~Has_exclusive(N) =>
       /\ \A g \in Held_by(holder_map, l) : ~Has_exclusive(holder_map[l][g])
       /\ Cardinality(Held_by(holder_map, l)) < max_non_exclusive[l]

(* What the first uses of a list need, if they make h a reader of lock l.  *)
Admits(h, l, U) ==
  U # {} /\ holder_map[l][h] = {} /\ ~Has_exclusive(U) =>
    /\ lock_mode[l] # lk_exclusive \/ Held_by(holder_map, l) = {}
    /\ Count_non_exclusive_holders(holder_map, lock_mode, l) < max_non_exclusive[l]

(* The loop of hold_locks: the first use of a lock was free when nothing   *)
(* of the lock had been taken yet.                                         *)
LEMMA Required_uses_are_admitted ==
  ASSUME holder_map \in Holder_maps, lock_mode \in Lock_modes, NEW h \in Holders,
         NEW list \in Seq(Uses), NEW k \in 0 .. Len(list),
         \A i \in 1 .. k : Can_require(holder_map, lock_mode, h, list, i),
         NEW l \in Locks
  PROVE  Admits(h, l, On_lock(First(list, k), l))
<1> DEFINE U == On_lock(First(list, k), l)
           S == {i \in 1 .. k : Lock_of(list[i]) = l}
<1> SUFFICES ASSUME U # {}, holder_map[l][h] = {}, ~Has_exclusive(U)
             PROVE  /\ lock_mode[l] # lk_exclusive \/ Held_by(holder_map, l) = {}
                    /\ Count_non_exclusive_holders(holder_map, lock_mode, l) < max_non_exclusive[l]
  BY DEF Admits
<1>0. k \in Nat
  BY LenProperties
<1>1. S \subseteq Nat /\ S # {}
  BY <1>0 DEF On_lock, First
<1>2. PICK i \in S : \A j \in S : i <= j
  <2> HIDE DEF S
  <2> QED BY <1>1, First_position
<1>3. On_lock(First(list, i - 1), l) = {}
  BY <1>0, <1>2 DEF On_lock, First
<1>4. Held_by(Hold(holder_map, h, list, i - 1), l) = Held_by(holder_map, l)
  BY <1>3, Hold_by_lock DEF Held_by
<1>5. Hold_mode(holder_map, lock_mode, h, list, i - 1)[l] = lock_mode[l]
  BY <1>3 DEF Hold_mode, Has_exclusive
<1>6. Is_free_for(Hold(holder_map, h, list, i - 1),
                  Hold_mode(holder_map, lock_mode, h, list, i - 1), list[i], h)
  BY <1>2 DEF Can_require
<1>7. Lock_of(list[i]) = l /\ Mode_of(list[i]) # lk_exclusive
  BY <1>2 DEF On_lock, First, Has_exclusive
<1>8. h \notin Held_by(holder_map, l)
  BY DEF Held_by
<1> QED
  BY <1>4, <1>5, <1>6, <1>7, <1>8 DEF Is_free_for, Is_free, Count_non_exclusive_holders

(* The locks of a job that are available for nobody in particular.         *)
LEMMA Available_uses_are_admitted ==
  ASSUME holder_map \in Holder_maps, lock_mode \in Lock_modes, NEW h \in Holders,
         NEW list,
         \A i \in 1 .. Len(list) : Is_free_for(holder_map, lock_mode, list[i], NoHolder),
         NEW l \in Locks
  PROVE  Admits(h, l, On_lock(First(list, Len(list)), l))
<1> DEFINE U == On_lock(First(list, Len(list)), l)
<1> SUFFICES ASSUME U # {}, holder_map[l][h] = {}, ~Has_exclusive(U)
             PROVE  /\ lock_mode[l] # lk_exclusive \/ Held_by(holder_map, l) = {}
                    /\ Count_non_exclusive_holders(holder_map, lock_mode, l) < max_non_exclusive[l]
  BY DEF Admits
<1>1. PICK i \in 1 .. Len(list) : Lock_of(list[i]) = l /\ Mode_of(list[i]) # lk_exclusive
  BY DEF On_lock, First, Has_exclusive
<1>2. NoHolder \notin Held_by(holder_map, l)
  BY LockAssumption DEF Held_by, Holders
<1> QED
  BY <1>1, <1>2 DEF Is_free_for, Is_free

(* A count of holders, as the code asks for it, is a count of all holders  *)
(* when there is no writer.                                                *)
LEMMA Admitted_uses_may_be_had ==
  ASSUME Holds_are_right_invariant, NEW h \in Holders, NEW l \in Locks, NEW U,
         May_hold(holder_map, lock_mode, h, l, U), Admits(h, l, U)
  PROVE  May_have(l, h, holder_map[l][h] \cup U)
<1> DEFINE O == holder_map[l][h]
           N == O \cup U
<1>1. lock_mode[l] \in Modes
  BY Parts_of_TypeOK DEF Holds_are_right_invariant, Holder_types, Lock_modes
<1>2. ASSUME Has_exclusive(N)
      PROVE  Has_exclusive(O) \/ Held_by(holder_map, l) \subseteq {h}
  BY <1>2 DEF May_hold, Has_exclusive
<1>3. ASSUME N # {}, O = {}, ~Has_exclusive(N)
      PROVE  /\ \A g \in Held_by(holder_map, l) : ~Has_exclusive(holder_map[l][g])
             /\ Cardinality(Held_by(holder_map, l)) < max_non_exclusive[l]
  <2>1. /\ lock_mode[l] # lk_exclusive \/ Held_by(holder_map, l) = {}
        /\ Count_non_exclusive_holders(holder_map, lock_mode, l) < max_non_exclusive[l]
    BY <1>3 DEF Admits
  <2>2. \A g \in Held_by(holder_map, l) : ~Has_exclusive(holder_map[l][g])
    BY <2>1 DEF Holds_are_right_invariant, Right_now, Holds_are_right, Agrees
  <2>3. CASE Held_by(holder_map, l) = {}
    BY <2>1, <2>2, <2>3, FS_EmptySet DEF Count_non_exclusive_holders
  <2>4. CASE lock_mode[l] # lk_exclusive
    BY <1>1, <2>1, <2>2, <2>4 DEF Count_non_exclusive_holders, Modes
  <2> QED
    BY <2>1, <2>3, <2>4
<1> QED
  BY <1>2, <1>3 DEF May_have

(* Fewer uses than before may always be had: a release, a downgrade.       *)
LEMMA Fewer_uses_may_be_had ==
  ASSUME NEW h \in Holders, NEW l \in Locks, NEW N, N \subseteq holder_map[l][h]
  PROVE  May_have(l, h, N)
BY DEF May_have, Has_exclusive

-----------------------------------------------------------------------------
(* Steps of the abstract lock.                                             *)

(* ReadersWriterLock counts as the lock subsystem does.                    *)
LEMMA Same_cardinality == \A S : RW!Cardinality(S) = Cardinality(S)
BY DEF RW!Cardinality, Cardinality, RW!IsFiniteSet, IsFiniteSet

(* A step that changes what one holder has, to what it may have, is a      *)
(* change of its access.                                                   *)
LEMMA Holder_changes_access ==
  ASSUME Holds_are_right_invariant, NEW h \in Holders,
         holder_map' \in Holder_maps, UNCHANGED max_non_exclusive,
         \A l \in Locks : \A g \in Holders \ {h} : holder_map'[l][g] = holder_map[l][g],
         \A l \in Locks : May_have(l, h, holder_map'[l][h])
  PROVE  RW!ChangeAccess(h)
<1> DEFINE acc == [l \in Locks |-> [g \in Holders |-> Access_of(holder_map[l][g])]]
           a   == [l \in Locks |-> Access_of(holder_map'[l][h])]
<1>1. \A U : /\ Access_of(U) \in {"none", "shared", "exclusive"}
             /\ Access_of(U) = "none" <=> U = {}
             /\ Access_of(U) = "exclusive" <=> Has_exclusive(U)
  BY DEF Access_of, Has_exclusive
<1>2. a \in [Locks -> RW!Access]
  BY <1>1 DEF RW!Access
<1>3. acc' = [l \in Locks |-> [acc[l] EXCEPT ![h] = a[l]]]
  BY DEF Holder_maps
<1>4. ASSUME NEW l \in Locks, a[l] # acc[l][h]
      PROVE  RW!Compatible(l, h, a[l])
  <2> DEFINE N == holder_map'[l][h]
             O == holder_map[l][h]
  <2>1. a[l] = Access_of(N) /\ \A g \in Holders : acc[l][g] = Access_of(holder_map[l][g])
    OBVIOUS
  <2>2. /\ Has_exclusive(N) => Has_exclusive(O) \/ Held_by(holder_map, l) \subseteq {h}
        /\ N # {} /\ O = {} /\ ~Has_exclusive(N) =>
             /\ \A g \in Held_by(holder_map, l) : ~Has_exclusive(holder_map[l][g])
             /\ Cardinality(Held_by(holder_map, l)) < max_non_exclusive[l]
    BY DEF May_have
  <2>3. \A f, g \in Held_by(holder_map, l) : Has_exclusive(holder_map[l][f]) => g = f
    BY DEF Holds_are_right_invariant, Right_now, Holds_are_right, Excludes
  <2> HIDE DEF acc, a, N, O
  <2>4. ASSUME a[l] = "exclusive", NEW g \in Holders \ {h}
        PROVE  acc[l][g] = "none"
    BY <1>1, <2>1, <2>2, <2>3, <2>4 DEF O, Held_by, Has_exclusive
  <2>5. ASSUME a[l] = "shared", NEW g \in Holders \ {h}
        PROVE  acc[l][g] # "exclusive"
    <3>1. N # {} /\ ~Has_exclusive(N)
      BY <1>1, <2>1, <2>5
    <3> SUFFICES ASSUME Has_exclusive(holder_map[l][g]) PROVE FALSE
      BY <1>1, <2>1
    <3>2. g \in Held_by(holder_map, l)
      BY DEF Held_by, Has_exclusive
    <3>3. O # {}
      BY <2>2, <3>1, <3>2
    <3> QED
      BY <2>3, <3>2, <3>3 DEF Held_by, O
  <2>6. ASSUME a[l] = "shared", acc[l][h] = "none"
        PROVE  Cardinality({g \in Holders : acc[l][g] = "shared"}) < max_non_exclusive[l]
    <3>1. N # {} /\ ~Has_exclusive(N) /\ O = {}
      BY <1>1, <2>1, <2>6 DEF O
    <3>2. {g \in Holders : acc[l][g] = "shared"} = Held_by(holder_map, l)
      BY <1>1, <2>1, <2>2, <3>1 DEF Held_by
    <3> QED
      BY <2>2, <3>1, <3>2
  <2>7. RW!Readers(l) = {g \in Holders : acc[l][g] = "shared"}
    BY DEF RW!Readers, acc
  <2>8. RW!Compatible(l, h, a[l]) <=>
          /\ a[l] = "exclusive" => \A g \in Holders \ {h} : acc[l][g] = "none"
          /\ a[l] = "shared" => \A g \in Holders \ {h} : acc[l][g] # "exclusive"
          /\ a[l] = "shared" /\ acc[l][h] = "none" =>
               Cardinality(RW!Readers(l)) < max_non_exclusive[l]
    BY Same_cardinality DEF RW!Compatible, acc
  <2> QED
    BY <2>4, <2>5, <2>6, <2>7, <2>8
<1> QED
  BY <1>2, <1>3, <1>4 DEF RW!ChangeAccess

(* hold_locks, after k of its uses.                                        *)
LEMMA Hold_locks_implements ==
  ASSUME Holds_are_right_invariant, NEW h \in Holders,
         NEW list \in Seq(Uses), NEW k \in 0 .. Len(list),
         May_hold_first(holder_map, lock_mode, h, list, k),
         \A l \in Locks : Admits(h, l, On_lock(First(list, k), l)),
         Hold_locks(h, list, k)
  PROVE  RW!ChangeAccess(h)
<1>1. holder_map \in Holder_maps /\ lock_mode \in Lock_modes
  BY Parts_of_TypeOK DEF Holds_are_right_invariant, Holder_types
<1>2. holder_map' = Hold(holder_map, h, list, k) /\ UNCHANGED max_non_exclusive
  BY DEF Hold_locks
<1>3. holder_map' \in Holder_maps
  BY <1>1, <1>2, Hold_type
<1>4. \A l \in Locks : /\ holder_map'[l][h] = holder_map[l][h] \cup On_lock(First(list, k), l)
                       /\ \A g \in Holders \ {h} : holder_map'[l][g] = holder_map[l][g]
  BY <1>1, <1>2, Hold_by_lock
<1>5. \A l \in Locks : May_have(l, h, holder_map'[l][h])
  BY <1>4, Admitted_uses_may_be_had DEF May_hold_first
<1> QED
  BY <1>2, <1>3, <1>4, <1>5, Holder_changes_access

(* release_locks of whatever list.                                         *)
LEMMA Release_locks_implements ==
  ASSUME Holds_are_right_invariant, NEW h \in Holders, NEW list,
         Release_locks(holder_map, lock_mode, h, list)
  PROVE  RW!ChangeAccess(h)
<1>1. holder_map \in Holder_maps /\ lock_mode \in Lock_modes
  BY Parts_of_TypeOK DEF Holds_are_right_invariant, Holder_types
<1>2. /\ holder_map' = Release(holder_map, h, list, Len(list))
      /\ UNCHANGED max_non_exclusive
  BY DEF Release_locks
<1>3. holder_map' \in Holder_maps
  BY <1>1, <1>2, Release_type
<1>4. \A l \in Locks : /\ holder_map'[l][h] \subseteq holder_map[l][h]
                       /\ \A g \in Holders \ {h} : holder_map'[l][g] = holder_map[l][g]
  BY <1>1, <1>2 DEF Release, Holder_maps
<1> QED
  BY <1>2, <1>3, <1>4, Fewer_uses_may_be_had, Holder_changes_access

(* try_start_tasks gives the job's locks to a new task, or changes no      *)
(* access.                                                                 *)
LEMMA Try_start_tasks_implements ==
  ASSUME Holds_are_right_invariant, NEW j \in Jobs, NEW state, NEW states, NEW wq, NEW enq,
         Try_start_tasks(j, state, states, wq, enq)
  PROVE  \/ \E h \in Holders : RW!ChangeAccess(h)
         \/ UNCHANGED <<holder_map, max_non_exclusive>>
<1> DEFINE r == Job_requestor(j)
           list == use_list[r]
<1>1. ASSUME NEW t \in Tasks, Starts_task(j, t, state, states, wq, enq)
      PROVE  RW!ChangeAccess(t)
  <2>1. list \in Seq(Uses) /\ Len(list) \in 0 .. Len(list) /\ DOMAIN list = 1 .. Len(list)
    BY Parts_of_TypeOK, Requestor_types, LenProperties DEF Use_types, Holds_are_right_invariant
  <2>2. Job_locks_are_available(j, wq) /\ Hold_locks(t, list, Len(list))
    BY <1>1 DEF Starts_task
  <2>3. Own_holder(r) = NoHolder
    BY DEF Own_holder, Job_requestor
  <2>4. list # <<>> => \A u \in Use_set(r) : /\ file_based[Lock_of(u)].known
                                            /\ Is_free_for(holder_map, lock_mode, u, NoHolder)
    BY <2>2, <2>3 DEF Job_locks_are_available, Locks_are_available, Locks_are_available_for_holder
  <2>5. \A i \in 1 .. Len(list) : /\ file_based[Lock_of(list[i])].known
                                 /\ Is_free_for(holder_map, lock_mode, list[i], NoHolder)
    <3>1. list = <<>> => 1 .. Len(list) = {}
      BY EmptySeq
    <3>2. \A i \in 1 .. Len(list) : list[i] \in Use_set(r)
      BY <2>1 DEF Use_set
    <3> QED
      BY <2>4, <3>1, <3>2
  <2>6. holder_map \in Holder_maps /\ lock_mode \in Lock_modes /\ t \in Holders
    BY Parts_of_TypeOK DEF Holder_types, Holds_are_right_invariant, Holders
  <2> HIDE DEF list
  <2>7. May_hold_first(holder_map, lock_mode, t, list, Len(list))
    BY <2>1, <2>5, <2>6, Available_uses_may_be_held
  <2>8. \A l \in Locks : Admits(t, l, On_lock(First(list, Len(list)), l))
    BY <2>5, <2>6, Available_uses_are_admitted
  <2> QED
    BY <2>1, <2>2, <2>6, <2>7, <2>8, Hold_locks_implements
<1>2. ASSUME Starts_no_task(j, state, states, wq, enq)
      PROVE  UNCHANGED <<holder_map, max_non_exclusive>>
  BY <1>2 DEF Starts_no_task
<1> QED
  BY <1>1, <1>2 DEF Try_start_tasks, Holders

(* do_something between two operations: the task gives back, takes, or      *)
(* takes and gives back in the same step, if hold_locks throws.            *)
LEMMA Do_something_implements ==
  ASSUME Holds_are_right_invariant, NEW t \in Tasks, NEW name \in Step_calls,
         Do_something(t, name)
  PROVE  \/ \E h \in Holders : RW!ChangeAccess(h)
         \/ UNCHANGED <<holder_map, max_non_exclusive>>
<1> DEFINE other_calls == calls \ {<<name, t>>}
           list == use_list[Level(t)]
<1>1. /\ holder_map \in Holder_maps /\ lock_mode \in Lock_modes
      /\ list \in Seq(Uses) /\ Len(list) \in Nat /\ t \in Holders
  BY Parts_of_TypeOK, Requestor_types, LenProperties
     DEF Holds_are_right_invariant, Holder_types, Use_types, Holders
<1>2. ASSUME NEW k \in 0 .. Len(list), Holds_up_to(holder_map, lock_mode, t, list, k)
      PROVE  /\ May_hold_first(holder_map, lock_mode, t, list, k)
             /\ \A l \in Locks : Admits(t, l, On_lock(First(list, k), l))
  <2>1. \A i \in 1 .. k : Can_require(holder_map, lock_mode, t, list, i)
    BY <1>2 DEF Holds_up_to
  <2> HIDE DEF list
  <2> QED
    BY <1>1, <2>1, Required_uses_may_be_held, Required_uses_are_admitted
<1>3. CASE Steps_to_ending(t, other_calls)
  BY <1>1, <1>3, Release_locks_implements DEF Steps_to_ending, To_ending
<1>4. CASE Steps_into_script(t, other_calls)
  <2>1. /\ Holds_up_to(holder_map, lock_mode, t, list, Len(list))
        /\ Hold_locks(t, list, Len(list))
    BY <1>4 DEF Steps_into_script
  <2> HIDE DEF list
  <2>2. Len(list) \in 0 .. Len(list)
    BY <1>1
  <2> QED
    BY <1>1, <1>2, <2>1, <2>2, Hold_locks_implements
<1>5. CASE Fails_to_hold(t, other_calls)
  <2>1. PICK k \in 0 .. Len(list) - 1 :
          /\ Holds_up_to(holder_map, lock_mode, t, list, k)
          /\ To_ending(t, Hold(holder_map, t, list, k),
                       Hold_mode(holder_map, lock_mode, t, list, k), other_calls)
    BY <1>5 DEF Fails_to_hold
  <2> DEFINE hm   == Hold(holder_map, t, list, k)
             md   == Hold_mode(holder_map, lock_mode, t, list, k)
             back == IF task_state[t] = "running" THEN use_list[Process_api(t)] ELSE <<>>
  <2>2. Release_locks(hm, md, t, back)
    BY <2>1 DEF To_ending
  <2>3. task_state[t] = "running" => back = list
    BY DEF Level
  <2>4. task_state[t] # "running" => back = <<>>
    OBVIOUS
  <2> HIDE DEF list, back
  <2>5. k \in 0 .. Len(list) /\ k \in Nat
    BY <1>1
  <2>6. hm \in Holder_maps /\ md \in Lock_modes
    BY <1>1, <2>5, Hold_type
  <2>7. \A l \in Locks : /\ hm[l][t] = holder_map[l][t] \cup On_lock(First(list, k), l)
                         /\ \A g \in Holders \ {t} : hm[l][g] = holder_map[l][g]
    BY <1>1, Hold_by_lock
  <2> HIDE DEF hm, md
  <2>8. holder_map' = Release(hm, t, back, Len(back)) /\ UNCHANGED max_non_exclusive
    BY <2>2 DEF Release_locks
  <2>9. holder_map' \in Holder_maps
    BY <2>6, <2>8, Release_type
  <2>10. \A l \in Locks : /\ holder_map'[l][t] = hm[l][t] \ First(back, Len(back))
                          /\ \A g \in Holders \ {t} : holder_map'[l][g] = holder_map[l][g]
    BY <1>1, <2>6, <2>7, <2>8 DEF Release, Holder_maps
  <2>11. \A l \in Locks : May_have(l, t, holder_map'[l][t])
    <3>1. CASE task_state[t] = "running"
      <4>1. First(list, k) \subseteq First(back, Len(back))
        BY <1>1, <2>3, <2>5, <3>1 DEF First
      <4>2. \A l \in Locks : holder_map'[l][t] \subseteq holder_map[l][t]
        BY <2>7, <2>10, <4>1 DEF On_lock
      <4> QED
        BY <1>1, <4>2, Fewer_uses_may_be_had
    <3>2. CASE task_state[t] # "running"
      <4>1. First(back, Len(back)) = {}
        BY <2>4, <3>2, EmptySeq DEF First
      <4>2. \A l \in Locks : holder_map'[l][t] = holder_map[l][t] \cup On_lock(First(list, k), l)
        BY <2>7, <2>10, <4>1
      <4>3. \A l \in Locks : /\ May_hold(holder_map, lock_mode, t, l, On_lock(First(list, k), l))
                             /\ Admits(t, l, On_lock(First(list, k), l))
        BY <1>2, <2>1, <2>5 DEF May_hold_first, list
      <4> QED
        BY <1>1, <4>2, <4>3, Admitted_uses_may_be_had
    <3> QED
      BY <3>1, <3>2
  <2> QED
    BY <1>1, <2>8, <2>9, <2>10, <2>11, Holder_changes_access
<1>6. CASE UNCHANGED lock_vars
  BY <1>6 DEF lock_vars
<1> QED
  BY <1>3, <1>4, <1>5, <1>6 DEF Do_something

(* try_hold_lock takes a single use, if the lock is free for the task.     *)
LEMMA Api_call_implements ==
  ASSUME Holds_are_right_invariant, NEW t \in Tasks, Api_call(t)
  PROVE  \/ RW!ChangeAccess(t)
         \/ UNCHANGED <<holder_map, max_non_exclusive>>
<1>1. holder_map \in Holder_maps /\ lock_mode \in Lock_modes /\ t \in Holders
  BY Parts_of_TypeOK DEF Holds_are_right_invariant, Holder_types, Holders
<1>2. ASSUME NEW l \in Locks, NEW mode \in Modes, Try_hold_lock(t, l, mode),
             file_based[l].known, Is_free_for(holder_map, lock_mode, <<Level(t), l, mode>>, t)
      PROVE  RW!ChangeAccess(t)
  <2> DEFINE u    == <<Level(t), l, mode>>
             list == <<u>>
  <2>1. Hold_locks(t, list, 1)
    BY <1>2 DEF Try_hold_lock
  <2>2. list \in Seq(Uses) /\ 1 \in 0 .. Len(list)
    <3>1. u \in Uses
      BY Requestor_types DEF Uses
    <3> HIDE DEF u
    <3> QED BY <3>1
  <2>3. /\ Hold(holder_map, t, list, 0) = holder_map
        /\ Hold_mode(holder_map, lock_mode, t, list, 0) = lock_mode
    <3>1. \A k \in Locks : On_lock(First(list, 0), k) = {}
      BY DEF On_lock, First
    <3> HIDE DEF list
    <3>2. Hold(holder_map, t, list, 0) = holder_map
      BY <1>1, <3>1 DEF Hold, Holder_maps
    <3>3. Hold_mode(holder_map, lock_mode, t, list, 0) = lock_mode
      BY <1>1, <3>1 DEF Hold_mode, Lock_modes, Has_exclusive
    <3> QED
      BY <3>2, <3>3
  <2>4. \A i \in 1 .. 1 : Can_require(holder_map, lock_mode, t, list, i)
    <3>1. list[1] = u /\ Lock_of(u) = l /\ 1 - 1 = 0
      BY DEF Lock_of
    <3> HIDE DEF list, u
    <3>2. file_based[l].known /\ Is_free_for(holder_map, lock_mode, u, t)
      BY <1>2 DEF u
    <3> QED
      BY <2>3, <3>1, <3>2 DEF Can_require
  <2> HIDE DEF list
  <2>5. May_hold_first(holder_map, lock_mode, t, list, 1)
    BY <1>1, <2>2, <2>4, Required_uses_may_be_held
  <2>6. \A k \in Locks : Admits(t, k, On_lock(First(list, 1), k))
    BY <1>1, <2>2, <2>4, Required_uses_are_admitted
  <2> QED
    BY <1>1, <2>1, <2>2, <2>5, <2>6, Hold_locks_implements
<1>3. CASE Delay_until_locks_available(t)
  BY <1>3 DEF Delay_until_locks_available, lock_vars
<1> QED
  BY <1>2, <1>3 DEF Api_call, Try_hold_lock

(* A change of a lock's configuration changes its limit at most, also if   *)
(* it is carried out later or with a new object of the same path.          *)
LEMMA Change_lock_implements ==
  ASSUME TypeOK, NEW l \in Locks, Change_lock(l) \/ Handle_candidate(l)
  PROVE  RW!ChangeLimit(l) \/ UNCHANGED <<holder_map, max_non_exclusive>>
<1>1. file_based \in [Locks -> File_based]
  BY Parts_of_TypeOK DEF Holder_types
<1>2. ASSUME NEW n \in Max_values, UNCHANGED holder_map,
             max_non_exclusive' = [max_non_exclusive EXCEPT ![l] = n]
      PROVE  RW!ChangeLimit(l)
  BY <1>2 DEF RW!ChangeLimit
<1>3. CASE Remove(l)
  BY <1>3 DEF Remove
<1>4. CASE Add_lock(l)
  BY <1>2, <1>4 DEF Add_lock
<1>5. CASE \E n \in Max_values : Replace_with(l, n) \/ Set_max_non_exclusive(l, n)
  BY <1>2, <1>5 DEF Replace_with, Set_max_non_exclusive
<1>6. CASE Handle_replace_or_remove_candidate(l)
  <2>1. file_based[l].replacement \in Max_values \cup {NoReplacement}
    BY <1>1 DEF File_based
  <2> QED
    BY <1>2, <1>6, <2>1 DEF Handle_replace_or_remove_candidate
<1> QED
  BY <1>3, <1>4, <1>5, <1>6 DEF Change_lock, Handle_candidate

(* The lock subsystem implements readers/writer locks with a limit for     *)
(* readers, one per lock: in every step one task changes its access to     *)
(* some locks, as these allow it, or the limit of one lock changes         *)
(* (lock.cxx: is_free_for, require_lock_for, release_lock_for).            *)
THEOREM Locks_are_readers_writer_locks == Spec => Implements_readers_writer_lock
<1>1. Init => RW!Init
  BY DEF Init, RW!Init, No_holders, Access_of
<1>2. Holds_are_right_invariant /\ [Next]_vars => [RW!Next]_(RW!vars)
  <2> SUFFICES ASSUME Holds_are_right_invariant, [Next]_vars
               PROVE  [RW!Next]_(RW!vars)
    OBVIOUS
  <2>1. (\E h \in Holders : RW!ChangeAccess(h)) \/ (\E l \in Locks : RW!ChangeLimit(l)) =>
          RW!Next
    BY DEF RW!Next
  <2>2. UNCHANGED <<holder_map, max_non_exclusive>> => UNCHANGED RW!vars
    BY DEF RW!vars
  <2>3. TypeOK
    BY DEF Holds_are_right_invariant
  <2> HIDE DEF RW!Next, RW!vars
  <2>4. ASSUME NEW j \in Jobs, Job_command(j)
        PROVE  [RW!Next]_(RW!vars)
    <3>1. CASE Start_job(j) \/ Stop_job(j)
      BY <2>2, <3>1 DEF Start_job, Stop_job, lock_vars
    <3>2. CASE Unstop_job(j)
      BY <2>1, <2>2, <3>2, Try_start_tasks_implements DEF Unstop_job
    <3> QED
      BY <2>4, <3>1, <3>2 DEF Job_command
  <2>5. ASSUME NEW j \in Jobs, NEW name \in Job_calls, On_job_call(j, name)
        PROVE  [RW!Next]_(RW!vars)
    BY <2>1, <2>2, <2>5, Try_start_tasks_implements DEF On_job_call
  <2>6. ASSUME NEW t \in Tasks, On_task_closed(t)
        PROVE  [RW!Next]_(RW!vars)
    <3>1. Job_of[t] \in Jobs
      BY TaskAssumption
    <3> QED
      BY <2>1, <2>2, <2>6, <3>1, Try_start_tasks_implements DEF On_task_closed
  <2>7. ASSUME NEW t \in Tasks, NEW name \in Step_calls, Do_something(t, name)
        PROVE  [RW!Next]_(RW!vars)
    BY <2>1, <2>2, <2>7, Do_something_implements
  <2>8. ASSUME NEW t \in Tasks, Api_call(t)
        PROVE  [RW!Next]_(RW!vars)
    BY <2>1, <2>2, <2>8, Api_call_implements DEF Holders
  <2>9. ASSUME NEW t \in Tasks, Operation_completed(t)
        PROVE  [RW!Next]_(RW!vars)
    <3>1. ASSUME NEW list, Release_locks(holder_map, lock_mode, t, list)
          PROVE  [RW!Next]_(RW!vars)
      BY <2>1, <3>1, Release_locks_implements DEF Holders
    <3>2. ASSUME NEW result, Starting_completed(t, result) \/ Opening_completed(t, result)
          PROVE  [RW!Next]_(RW!vars)
      BY <2>2, <3>2 DEF Starting_completed, Opening_completed, lock_vars
    <3>3. ASSUME NEW result, Step_completed(t, result)
          PROVE  [RW!Next]_(RW!vars)
      BY <3>1, <3>3 DEF Step_completed
    <3>4. CASE Ending_completed(t)
      BY <3>1, <3>4 DEF Ending_completed
    <3> QED
      BY <2>9, <3>2, <3>3, <3>4 DEF Operation_completed
  <2>10. ASSUME NEW t \in Tasks, Process_signaled(t) \/ End_task(t)
         PROVE  [RW!Next]_(RW!vars)
    BY <2>2, <2>10 DEF Process_signaled, End_task, lock_vars
  <2>11. ASSUME NEW l \in Locks, Change_lock(l) \/ Handle_candidate(l)
         PROVE  [RW!Next]_(RW!vars)
    BY <2>1, <2>2, <2>3, <2>11, Change_lock_implements
  <2>12. CASE UNCHANGED vars
    BY <2>2, <2>12 DEF vars, lock_vars
  <2> QED
    BY <2>4, <2>5, <2>6, <2>7, <2>8, <2>9, <2>10, <2>11, <2>12 DEF Next
<1>3. Spec => []Holds_are_right_invariant
  <2>1. Init => Holds_are_right_invariant
    BY Init_type, Init_holds_right DEF Holds_are_right_invariant
  <2>2. Holds_are_right_invariant /\ TypeOK' /\ [Next]_vars => Holds_are_right_invariant'
    BY Next_holds_right DEF Holds_are_right_invariant
  <2> QED
    BY <2>1, <2>2, Type_correct, PTL DEF Spec
<1> QED
  BY <1>1, <1>2, <1>3, PTL DEF Spec, Implements_readers_writer_lock, RW!Spec
==============================================================================

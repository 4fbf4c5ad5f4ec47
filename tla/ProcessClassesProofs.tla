-------------------------- MODULE ProcessClassesProofs -------------------------
(***************************************************************************)
(* Proofs about ProcessClasses for any classes, jobs, tasks and limits:    *)
(* who is in the list of a process class waits for it, and nobody waits    *)
(* for a process that is free.                                             *)
(***************************************************************************)
EXTENDS ProcessClasses, SequenceTheorems, FiniteSetTheorems, WellFoundedInduction, TLAPS

Job_states  == {"pending", "running", "stopping", "stopped"}
Task_states == {"none", "waiting_for_process", "running", "idle", "ending", "closed"}
Calls       == {"order_possibly_available", "process_available", "below_max_tasks",
                "end_task", "task_closed"} \X Requestors

-----------------------------------------------------------------------------
(* The inductive invariant.                                                *)

Is_distinct(list) == \A i, k \in DOMAIN list : list[i] = list[k] => i = k

(* The lists have the requestors that wait, if these are the flags of the  *)
(* jobs and the states of the tasks.                                       *)
List_right(c, list, waiting, states) ==
  /\ list \in Seq(Requestors) /\ Is_distinct(list)
  /\ Elements(list) \cap Jobs \subseteq {j \in Jobs : Job_class[j] = c /\ waiting[j]}
  /\ Elements(list) \cap Tasks =
       {t \in Tasks : Class_of(t) = c /\ states[t] = "waiting_for_process"}

Lists_right(lists, waiting, states) ==
  /\ lists \in [Classes -> Seq(Requestors)]
  /\ \A c \in Classes : List_right(c, lists[c], waiting, states)

(* Every variable has its type.                                            *)
Class_types ==
  /\ known \subseteq Classes
  /\ max_processes \in [Classes -> Nat] /\ \A c \in Classes : max_processes[c] \in Limits[c]
  /\ process_set \in [Classes -> SUBSET Tasks]
Job_types ==
  /\ orders \in [Jobs -> 0 .. Max_orders] /\ job_state \in [Jobs -> Job_states]
  /\ waiting_for_process \in [Jobs -> BOOLEAN] /\ try_again \in [Jobs -> BOOLEAN]
  /\ turn \in Jobs \cup {Nobody}
Task_types ==
  /\ task_state \in [Tasks -> Task_states] /\ end \in [Tasks -> BOOLEAN]

(* A call tells that a task is closed only when it is; the call destroys   *)
(* the task.                                                               *)
Calls_right(cs, states) ==
  /\ cs \subseteq Calls
  /\ \A t \in Tasks : <<"task_closed", t>> \in cs => states[t] = "closed"

(* A task has a process of its class exactly from its start to the end of  *)
(* its last operation (try_to_get_process, detach_process).                *)
Processes_right(sets, states) ==
  \A c \in Classes :
    sets[c] = {t \in Tasks : Class_of(t) = c /\ states[t] \in {"running", "idle", "ending"}}

IInv ==
  /\ Class_types /\ Job_types /\ Task_types
  /\ Lists_right(requestor_list, waiting_for_process, task_state)
  /\ Calls_right(calls, task_state)
  /\ Processes_right(process_set, task_state)

-----------------------------------------------------------------------------
(* Why nobody waits for a free process.                                    *)

(* What the code needs of a configuration: no job's class is missing, and  *)
(* no class is asked by some jobs and by tasks of another class's jobs     *)
(* (see the README for what happens otherwise).                            *)
Classes_are_apart ==
  /\ \A j \in Jobs : Job_class[j] \in Known_classes
  /\ \A i, j \in Jobs : Task_class[i] = Job_class[j] => Task_class[i] = Job_class[i]

(* A job that waits is in the list, and could start a task.                *)
Could_start(j) ==
  /\ \/ job_state[j] = "pending" /\ Max_tasks[j] > 0
     \/ job_state[j] = "running" /\ Cardinality(Tasks_of(j)) < Max_tasks[j]
  /\ Free_tasks(j) # {}

Waiting_right ==
  \A j \in Jobs : waiting_for_process[j] =>
    j \in Elements(requestor_list[Job_class[j]]) /\ Could_start(j)

(* Tasks and jobs do not wait in one list, and nobody waits for a class    *)
(* that is missing.                                                        *)
Lists_apart ==
  \A c \in Classes :
    /\ \A t \in Tasks : t \in Elements(requestor_list[c]) => \A j \in Jobs : Job_class[j] # c
    /\ c \notin known => requestor_list[c] = <<>>

(* The requestor will look for a process.                                  *)
Is_told(r) ==
  \/ <<"process_available", r>> \in calls /\ (r \in Jobs => try_again[r])
  \/ r \in Jobs /\ turn = r /\ try_again[r]

First_is_told ==
  \A c \in Classes :
    Has_process(c) /\ requestor_list[c] # <<>> => Is_told(requestor_list[c][1])

Wake_inv == Known_classes \subseteq known /\ Waiting_right /\ Lists_apart /\ First_is_told

-----------------------------------------------------------------------------
(* Lists.                                                                  *)

LEMMA First_position ==
  ASSUME NEW I, I \subseteq Nat, I # {}
  PROVE  \E i \in I : \A k \in I : i <= k
<1>1. PICK i \in I : \A k \in I : <<k, i>> \notin OpToRel(<, Nat)
  BY WFMin, NatLessThanWellFounded
<1>2. \A k \in I : ~(k < i)
  BY <1>1 DEF OpToRel
<1> QED
  BY <1>2

LEMMA Positions ==
  ASSUME NEW S, NEW list \in Seq(S)
  PROVE  /\ Len(list) \in Nat /\ DOMAIN list = 1 .. Len(list)
         /\ list = [i \in 1 .. Len(list) |-> list[i]]
         /\ \A i \in 1 .. Len(list) : list[i] \in S
         /\ list = <<>> <=> Len(list) = 0
         /\ Elements(list) \subseteq S
         /\ list # <<>> => 1 \in DOMAIN list /\ list[1] \in Elements(list) /\ Head(list) = list[1]
<1>1. Len(list) \in Nat /\ DOMAIN list = 1 .. Len(list)
  BY LenProperties
<1>2. \A i \in 1 .. Len(list) : list[i] \in S
  BY <1>1, ElementOfSeq
<1>3. list = [i \in 1 .. Len(list) |-> list[i]]
  BY LenProperties
<1>4. list = <<>> <=> Len(list) = 0
  BY EmptySeq
<1>5. list # <<>> => Head(list) = list[1]
  BY HeadTailProperties
<1> QED
  BY <1>1, <1>2, <1>3, <1>4, <1>5 DEF Elements

(* An element at the end.                                                  *)
LEMMA Appended ==
  ASSUME NEW S, NEW list \in Seq(S), NEW r \in S, r \notin Elements(list), Is_distinct(list)
  PROVE  /\ Append(list, r) \in Seq(S) /\ Is_distinct(Append(list, r))
         /\ Append(list, r) # <<>>
         /\ Elements(Append(list, r)) = Elements(list) \cup {r}
         /\ Append(list, r)[1] = IF list = <<>> THEN r ELSE list[1]
<1> DEFINE q == Append(list, r)
           n == Len(list)
<1>1. n \in Nat /\ DOMAIN list = 1 .. n /\ (list = <<>> <=> n = 0)
  BY Positions
<1>2. /\ q \in Seq(S) /\ Len(q) = n + 1
      /\ \A i \in 1 .. n : q[i] = list[i]
      /\ q[n + 1] = r
  BY AppendProperties
<1>3. DOMAIN q = 1 .. n + 1 /\ q # <<>>
  BY <1>1, <1>2, Positions
<1> HIDE DEF q, n
<1>4. \A i \in 1 .. n : q[i] # r
  BY <1>1, <1>2 DEF Elements
<1>5. Is_distinct(q)
  BY <1>1, <1>2, <1>3, <1>4 DEF Is_distinct
<1>6. Elements(q) = Elements(list) \cup {r}
  BY <1>1, <1>2, <1>3 DEF Elements
<1>7. q[1] = IF list = <<>> THEN r ELSE list[1]
  BY <1>1, <1>2
<1> QED
  BY <1>2, <1>3, <1>5, <1>6, <1>7 DEF q

LEMMA Interval ==
  ASSUME NEW n \in Nat
  PROVE  IsFiniteSet(1 .. n) /\ Cardinality(1 .. n) = n
BY FS_Interval

(* How many numbers there are up to i, with and without p.                 *)
LEMMA Numbers_up_to ==
  ASSUME NEW n \in Nat, NEW i \in 1 .. n
  PROVE  /\ Cardinality({k \in 1 .. n : k <= i}) = i
         /\ \A p \in 1 .. n :
              Cardinality({k \in (1 .. n) \ {p} : k <= i}) = IF p <= i THEN i - 1 ELSE i
<1>1. IsFiniteSet(1 .. i) /\ Cardinality(1 .. i) = i
  BY FS_Interval
<1>2. {k \in 1 .. n : k <= i} = 1 .. i
  OBVIOUS
<1>3. ASSUME NEW p \in 1 .. n
      PROVE  Cardinality({k \in (1 .. n) \ {p} : k <= i}) = IF p <= i THEN i - 1 ELSE i
  <2>1. CASE p <= i
    <3>1. {k \in (1 .. n) \ {p} : k <= i} = (1 .. i) \ {p} /\ p \in 1 .. i
      BY <2>1
    <3>2. Cardinality((1 .. i) \ {p}) = Cardinality(1 .. i) - 1
      BY <1>1, <3>1, FS_RemoveElement
    <3> QED BY <1>1, <2>1, <3>1, <3>2
  <2>2. CASE ~(p <= i)
    <3>1. {k \in (1 .. n) \ {p} : k <= i} = 1 .. i
      BY <2>2
    <3> QED BY <1>1, <2>2, <3>1
  <2> QED BY <2>1, <2>2
<1> QED
  BY <1>1, <1>2, <1>3

(* list::remove of an element that is in the list once, or not at all.     *)
LEMMA Removed ==
  ASSUME NEW S, NEW list \in Seq(S), NEW r, Is_distinct(list)
  PROVE  /\ Without(list, r) \in Seq(S) /\ Is_distinct(Without(list, r))
         /\ Elements(Without(list, r)) = Elements(list) \ {r}
         /\ r \notin Elements(list) => Without(list, r) = list
         /\ list # <<>> /\ list[1] # r => Without(list, r) # <<>> /\ Without(list, r)[1] = list[1]
<1> DEFINE n == Len(list)
           left == {i \in DOMAIN list : list[i] # r}
           Rank(i) == Cardinality({k \in left : k <= i})
           at(m) == CHOOSE i \in left : Rank(i) = m
           rest == Without(list, r)
<1>1. /\ n \in Nat /\ DOMAIN list = 1 .. n /\ list = [i \in 1 .. n |-> list[i]]
      /\ \A i \in 1 .. n : list[i] \in S
      /\ list = <<>> <=> n = 0
  BY Positions
<1>2. rest = [m \in 1 .. Cardinality(left) |-> list[at(m)]]
  BY DEF Without
<1>3. CASE r \notin Elements(list)
  <2>1. left = 1 .. n
    BY <1>1, <1>3 DEF Elements
  <2>2. Cardinality(left) = n
    <3>1. n \in Nat
      BY <1>1
    <3> HIDE DEF left, n
    <3>2. Cardinality(1 .. n) = n
      BY <3>1, Interval
    <3> QED BY <2>1, <3>2
  <2>3. ASSUME NEW i \in left PROVE Rank(i) = i
    <3> HIDE DEF left
    <3>1. i \in 1 .. n /\ Rank(i) = Cardinality({k \in 1 .. n : k <= i})
      BY <2>1
    <3> HIDE DEF Rank, n
    <3> QED BY <1>1, <3>1, Numbers_up_to
  <2> HIDE DEF left, Rank
  <2>4. \A m \in 1 .. n : at(m) = m
    BY <2>1, <2>3
  <2> HIDE DEF at
  <2>5. rest = list
    BY <1>1, <1>2, <2>2, <2>4
  <2> QED
    BY <1>3, <2>5
<1>4. CASE r \in Elements(list)
  <2>1. PICK p \in 1 .. n : list[p] = r
    BY <1>1, <1>4 DEF Elements
  <2>2. left = (1 .. n) \ {p}
    BY <1>1, <2>1 DEF Is_distinct
  <2>3. Cardinality(left) = n - 1
    <3>1. IsFiniteSet(1 .. n) /\ Cardinality(1 .. n) = n
      BY <1>1, FS_Interval
    <3> QED BY <2>1, <2>2, <3>1, FS_RemoveElement
  <2>4. ASSUME NEW i \in left PROVE Rank(i) = IF p <= i THEN i - 1 ELSE i
    <3> HIDE DEF left
    <3>1. i \in 1 .. n /\ Rank(i) = Cardinality({k \in (1 .. n) \ {p} : k <= i})
      BY <2>2
    <3> HIDE DEF Rank, n
    <3> QED BY <1>1, <2>1, <3>1, Numbers_up_to
  <2> HIDE DEF left, Rank
  <2> DEFINE f(m) == IF m < p THEN m ELSE m + 1
  <2>5. ASSUME NEW m \in 1 .. n - 1
        PROVE  at(m) = f(m) /\ f(m) \in 1 .. n /\ f(m) # p
    <3>1. f(m) \in 1 .. n /\ f(m) # p
      BY <1>1
    <3>2. f(m) \in left /\ Rank(f(m)) = m
      BY <1>1, <2>2, <2>4, <3>1
    <3>3. \A i \in left : Rank(i) = m => i = f(m)
      BY <1>1, <2>2, <2>4
    <3> HIDE DEF f
    <3> QED BY <3>1, <3>2, <3>3
  <2> HIDE DEF at
  <2>6. rest = [m \in 1 .. n - 1 |-> list[f(m)]]
    BY <1>2, <2>3, <2>5
  <2>7. n - 1 \in Nat
    BY <1>1, <2>1
  <2>8. \A m \in 1 .. n - 1 : list[f(m)] \in S
    BY <1>1, <2>5
  <2> HIDE DEF f, rest
  <2>9. rest \in Seq(S) /\ Len(rest) = n - 1 /\ DOMAIN rest = 1 .. n - 1
    BY <2>6, <2>7, <2>8, IsASeq
  <2>10. \A m \in 1 .. n - 1 : rest[m] = list[f(m)]
    BY <2>6
  <2>11. Is_distinct(rest)
    <3>1. \A i, m \in 1 .. n - 1 : f(i) = f(m) => i = m
      BY DEF f
    <3> SUFFICES ASSUME NEW i \in 1 .. n - 1, NEW m \in 1 .. n - 1, rest[i] = rest[m]
                 PROVE  i = m
      BY <2>9 DEF Is_distinct
    <3>2. list[f(i)] = list[f(m)] /\ f(i) \in 1 .. n /\ f(m) \in 1 .. n
      BY <2>5, <2>10
    <3>3. f(i) = f(m)
      BY <1>1, <3>2 DEF Is_distinct
    <3> QED BY <3>1, <3>3
  <2>12. Elements(rest) = Elements(list) \ {r}
    <3>1. ASSUME NEW m \in 1 .. n - 1 PROVE rest[m] \in Elements(list) \ {r}
      <4>1. f(m) \in 1 .. n /\ f(m) # p
        BY <2>5
      <4>2. list[f(m)] # list[p]
        BY <1>1, <2>1, <4>1 DEF Is_distinct
      <4> QED BY <1>1, <2>1, <2>10, <4>1, <4>2 DEF Elements
    <3>2. ASSUME NEW i \in 1 .. n, list[i] # r PROVE \E m \in 1 .. n - 1 : rest[m] = list[i]
      <4>1. CASE i < p
        <5>1. i \in 1 .. n - 1 /\ f(i) = i
          BY <1>1, <2>1, <4>1 DEF f
        <5> QED BY <2>10, <5>1
      <4>2. CASE i > p
        <5>1. i - 1 \in 1 .. n - 1 /\ f(i - 1) = i
          BY <1>1, <2>1, <4>2 DEF f
        <5> QED BY <2>10, <5>1
      <4> QED BY <2>1, <3>2, <4>1, <4>2
    <3> QED BY <1>1, <2>9, <3>1, <3>2 DEF Elements
  <2>13. list # <<>> /\ list[1] # r => rest # <<>> /\ rest[1] = list[1]
    <3> HAVE list # <<>> /\ list[1] # r
    <3>1. p # 1 /\ 1 \in 1 .. n - 1 /\ 1 < p
      BY <1>1, <2>1
    <3>2. f(1) = 1
      BY <3>1 DEF f
    <3>3. rest # <<>>
      BY <2>9, <3>1, Positions
    <3> QED BY <2>10, <3>1, <3>2, <3>3
  <2> QED
    BY <1>4, <2>9, <2>11, <2>12, <2>13 DEF rest
<1> QED
  BY <1>3, <1>4

(* The requestor that is notified is in the list; it is the first one if   *)
(* there are only tasks, or only jobs.                                     *)
LEMMA Waiting_requestor ==
  ASSUME NEW S, NEW list \in Seq(S)
  PROVE  /\ waiting_requestor(list) \subseteq Elements(list)
         /\ list # <<>> /\ (Elements(list) \subseteq Tasks \/ Elements(list) \cap Tasks = {})
              => waiting_requestor(list) = {list[1]}
<1> DEFINE tasks == {i \in DOMAIN list : list[i] \in Tasks}
           first == CHOOSE i \in tasks : \A k \in tasks : i <= k
<1>1. /\ Len(list) \in Nat /\ DOMAIN list = 1 .. Len(list)
      /\ list # <<>> => 1 \in DOMAIN list
  BY Positions
<1>2. waiting_requestor(list) = IF list = <<>> THEN {} ELSE {list[IF tasks # {} THEN first ELSE 1]}
  BY DEF waiting_requestor
<1>3. tasks # {} => first \in tasks /\ \A k \in tasks : first <= k
  <2>1. tasks \subseteq Nat
    BY <1>1
  <2> HIDE DEF tasks
  <2> QED BY <2>1, First_position
<1>4. tasks \subseteq DOMAIN list
  OBVIOUS
<1>5. waiting_requestor(list) \subseteq Elements(list)
  <2> HIDE DEF tasks, first
  <2> QED BY <1>1, <1>2, <1>3, <1>4 DEF Elements
<1>6. ASSUME list # <<>>, Elements(list) \subseteq Tasks
      PROVE  waiting_requestor(list) = {list[1]}
  <2>1. 1 \in tasks
    BY <1>1, <1>6 DEF Elements
  <2> HIDE DEF tasks
  <2>2. first = 1
    BY <1>1, <1>3, <1>4, <2>1
  <2> QED BY <1>2, <1>6, <2>1, <2>2
<1>7. ASSUME list # <<>>, Elements(list) \cap Tasks = {}
      PROVE  waiting_requestor(list) = {list[1]}
  <2>1. tasks = {}
    BY <1>7 DEF Elements
  <2> QED BY <1>2, <1>7, <2>1
<1> QED
  BY <1>5, <1>6, <1>7

-----------------------------------------------------------------------------
(* The lists, when somebody enters or leaves.                              *)

LEMMA Classes_of ==
  /\ \A j \in Jobs : Job_class[j] \in Classes /\ Task_class[j] \in Classes /\ j \in Requestors
  /\ \A t \in Tasks : Job_of[t] \in Jobs /\ Class_of(t) \in Classes /\ t \in Requestors /\ t \notin Jobs
BY ProcessClassesAssumption DEF Class_of, Requestors

LEMMA List_replaced ==
  ASSUME NEW lists \in [Classes -> Seq(Requestors)], NEW c \in Classes, NEW list, NEW waiting, NEW states,
         List_right(c, list, waiting, states),
         \A d \in Classes \ {c} : List_right(d, lists[d], waiting, states)
  PROVE  Lists_right([lists EXCEPT ![c] = list], waiting, states)
<1>1. list \in Seq(Requestors)
  BY DEF List_right
<1>2. [lists EXCEPT ![c] = list] \in [Classes -> Seq(Requestors)]
  BY <1>1
<1>3. \A d \in Classes : [lists EXCEPT ![c] = list][d] = IF d = c THEN list ELSE lists[d]
  OBVIOUS
<1> QED
  BY <1>2, <1>3 DEF Lists_right

(* The lists do not see a change of other states.                          *)
LEMMA Same_who_wait ==
  ASSUME NEW lists, NEW waiting, NEW states, NEW waiting_2, NEW states_2,
         Lists_right(lists, waiting, states),
         \A j \in Jobs : waiting[j] => waiting_2[j],
         \A t \in Tasks : states_2[t] = "waiting_for_process" <=> states[t] = "waiting_for_process"
  PROVE  Lists_right(lists, waiting_2, states_2)
<1>1. ASSUME NEW c \in Classes PROVE List_right(c, lists[c], waiting_2, states_2)
  <2>1. List_right(c, lists[c], waiting, states)
    BY DEF Lists_right
  <2>2. {j \in Jobs : Job_class[j] = c /\ waiting[j]} \subseteq {j \in Jobs : Job_class[j] = c /\ waiting_2[j]}
    OBVIOUS
  <2>3. {t \in Tasks : Class_of(t) = c /\ states_2[t] = "waiting_for_process"}
          = {t \in Tasks : Class_of(t) = c /\ states[t] = "waiting_for_process"}
    OBVIOUS
  <2> QED BY <2>1, <2>2, <2>3 DEF List_right
<1> QED
  BY <1>1 DEF Lists_right

(* A job leaves the list of its class.                                     *)
LEMMA Job_withdrawn ==
  ASSUME NEW lists, NEW waiting \in [Jobs -> BOOLEAN], NEW states, Lists_right(lists, waiting, states),
         NEW j \in Jobs
  PROVE  Lists_right([lists EXCEPT ![Job_class[j]] = Without(@, j)], [waiting EXCEPT ![j] = FALSE], states)
<1> DEFINE c == Job_class[j]
           after == [waiting EXCEPT ![j] = FALSE]
<1>1. lists \in [Classes -> Seq(Requestors)] /\ c \in Classes /\ j \notin Tasks
  BY ProcessClassesAssumption, Classes_of DEF Lists_right
<1>2. \A i \in Jobs : after[i] <=> waiting[i] /\ i # j
  OBVIOUS
<1>3. \A d \in Classes : List_right(d, lists[d], waiting, states)
  BY DEF Lists_right
<1> HIDE DEF after
<1>4. List_right(c, Without(lists[c], j), after, states)
  <2>1. lists[c] \in Seq(Requestors) /\ Is_distinct(lists[c])
    BY <1>1, <1>3 DEF List_right
  <2>2. /\ Without(lists[c], j) \in Seq(Requestors) /\ Is_distinct(Without(lists[c], j))
        /\ Elements(Without(lists[c], j)) = Elements(lists[c]) \ {j}
    BY <2>1, Removed
  <2> QED BY <1>1, <1>2, <1>3, <2>2 DEF List_right
<1>5. ASSUME NEW d \in Classes \ {c} PROVE List_right(d, lists[d], after, states)
  BY <1>2, <1>3 DEF List_right
<1> QED
  BY <1>1, <1>4, <1>5, List_replaced DEF after

(* A job enters the list of its class.                                     *)
LEMMA Job_entered ==
  ASSUME NEW lists, NEW waiting \in [Jobs -> BOOLEAN], NEW states, Lists_right(lists, waiting, states),
         NEW j \in Jobs, ~waiting[j]
  PROVE  /\ j \notin Elements(lists[Job_class[j]])
         /\ Lists_right([lists EXCEPT ![Job_class[j]] = Append(@, j)], [waiting EXCEPT ![j] = TRUE], states)
<1> DEFINE c == Job_class[j]
           after == [waiting EXCEPT ![j] = TRUE]
<1>1. lists \in [Classes -> Seq(Requestors)] /\ c \in Classes /\ j \in Requestors /\ j \notin Tasks
  BY ProcessClassesAssumption, Classes_of DEF Lists_right
<1>2. \A i \in Jobs : after[i] <=> waiting[i] \/ i = j
  OBVIOUS
<1>3. \A d \in Classes : List_right(d, lists[d], waiting, states)
  BY DEF Lists_right
<1> HIDE DEF after
<1>4. j \notin Elements(lists[c])
  BY <1>1, <1>3 DEF List_right
<1>5. List_right(c, Append(lists[c], j), after, states)
  <2>1. lists[c] \in Seq(Requestors) /\ Is_distinct(lists[c])
    BY <1>1, <1>3 DEF List_right
  <2>2. /\ Append(lists[c], j) \in Seq(Requestors) /\ Is_distinct(Append(lists[c], j))
        /\ Elements(Append(lists[c], j)) = Elements(lists[c]) \cup {j}
    BY <1>1, <1>4, <2>1, Appended
  <2> QED BY <1>1, <1>2, <1>3, <2>2 DEF List_right
<1>6. ASSUME NEW d \in Classes \ {c} PROVE List_right(d, lists[d], after, states)
  BY <1>2, <1>3 DEF List_right
<1> QED
  BY <1>1, <1>4, <1>5, <1>6, List_replaced DEF after

(* A task enters the list of its class, and waits.                         *)
LEMMA Task_entered ==
  ASSUME NEW lists, NEW waiting, NEW states \in [Tasks -> Task_states], Lists_right(lists, waiting, states),
         NEW t \in Tasks, states[t] # "waiting_for_process"
  PROVE  /\ t \notin Elements(lists[Class_of(t)])
         /\ Lists_right([lists EXCEPT ![Class_of(t)] = Append(@, t)], waiting,
                        [states EXCEPT ![t] = "waiting_for_process"])
<1> DEFINE c == Class_of(t)
           after == [states EXCEPT ![t] = "waiting_for_process"]
<1>1. lists \in [Classes -> Seq(Requestors)] /\ c \in Classes /\ t \in Requestors /\ t \notin Jobs
  BY ProcessClassesAssumption, Classes_of DEF Lists_right
<1>2. \A u \in Tasks : after[u] = "waiting_for_process" <=> states[u] = "waiting_for_process" \/ u = t
  OBVIOUS
<1>3. \A d \in Classes : List_right(d, lists[d], waiting, states)
  BY DEF Lists_right
<1> HIDE DEF after
<1>4. t \notin Elements(lists[c])
  BY <1>1, <1>3 DEF List_right
<1>5. List_right(c, Append(lists[c], t), waiting, after)
  <2>1. lists[c] \in Seq(Requestors) /\ Is_distinct(lists[c])
    BY <1>1, <1>3 DEF List_right
  <2>2. /\ Append(lists[c], t) \in Seq(Requestors) /\ Is_distinct(Append(lists[c], t))
        /\ Elements(Append(lists[c], t)) = Elements(lists[c]) \cup {t}
    BY <1>1, <1>4, <2>1, Appended
  <2> QED BY <1>1, <1>2, <1>3, <2>2 DEF List_right
<1>6. ASSUME NEW d \in Classes \ {c} PROVE List_right(d, lists[d], waiting, after)
  BY <1>2, <1>3 DEF List_right
<1> QED
  BY <1>1, <1>4, <1>5, <1>6, List_replaced DEF after

(* A task leaves the list of its class, and does not wait.                 *)
LEMMA Task_left ==
  ASSUME NEW lists, NEW waiting, NEW states \in [Tasks -> Task_states], Lists_right(lists, waiting, states),
         NEW t \in Tasks, NEW state \in Task_states \ {"waiting_for_process"}
  PROVE  Lists_right([lists EXCEPT ![Class_of(t)] = Without(@, t)], waiting, [states EXCEPT ![t] = state])
<1> DEFINE c == Class_of(t)
           after == [states EXCEPT ![t] = state]
<1>1. lists \in [Classes -> Seq(Requestors)] /\ c \in Classes /\ t \notin Jobs
  BY ProcessClassesAssumption, Classes_of DEF Lists_right
<1>2. \A u \in Tasks : after[u] = "waiting_for_process" <=> states[u] = "waiting_for_process" /\ u # t
  OBVIOUS
<1>3. \A d \in Classes : List_right(d, lists[d], waiting, states)
  BY DEF Lists_right
<1> HIDE DEF after
<1>4. List_right(c, Without(lists[c], t), waiting, after)
  <2>1. lists[c] \in Seq(Requestors) /\ Is_distinct(lists[c])
    BY <1>1, <1>3 DEF List_right
  <2>2. /\ Without(lists[c], t) \in Seq(Requestors) /\ Is_distinct(Without(lists[c], t))
        /\ Elements(Without(lists[c], t)) = Elements(lists[c]) \ {t}
    BY <2>1, Removed
  <2> QED BY <1>1, <1>2, <1>3, <2>2 DEF List_right
<1>5. ASSUME NEW d \in Classes \ {c} PROVE List_right(d, lists[d], waiting, after)
  BY <1>2, <1>3 DEF List_right
<1> QED
  BY <1>1, <1>4, <1>5, List_replaced DEF after

(* Only requestors are notified.                                           *)
LEMMA Who_is_notified ==
  ASSUME NEW list \in Seq(Requestors), Is_distinct(list), NEW r
  PROVE  waiting_requestor(list) \subseteq Requestors /\ Notified_by_removal(list, r) \subseteq Requestors
<1>1. Without(list, r) \in Seq(Requestors)
  BY Removed
<1>2. /\ waiting_requestor(list) \subseteq Elements(list)
      /\ waiting_requestor(Without(list, r)) \subseteq Elements(Without(list, r))
  BY <1>1, Waiting_requestor
<1>3. Elements(list) \subseteq Requestors /\ Elements(Without(list, r)) \subseteq Requestors
  BY <1>1, Positions
<1> QED
  BY <1>2, <1>3 DEF Notified_by_removal

-----------------------------------------------------------------------------
(* Processes, calls and flags.                                             *)

LEMMA Process_taken ==
  ASSUME NEW sets \in [Classes -> SUBSET Tasks], NEW states \in [Tasks -> Task_states],
         Processes_right(sets, states), NEW t \in Tasks
  PROVE  LET after == [sets EXCEPT ![Class_of(t)] = @ \cup {t}]
         IN  /\ after \in [Classes -> SUBSET Tasks]
             /\ Processes_right(after, [states EXCEPT ![t] = "running"])
BY Classes_of DEF Processes_right

LEMMA Process_released ==
  ASSUME NEW sets \in [Classes -> SUBSET Tasks], NEW states \in [Tasks -> Task_states],
         Processes_right(sets, states), NEW t \in Tasks
  PROVE  LET after == [sets EXCEPT ![Class_of(t)] = @ \ {t}]
         IN  /\ after \in [Classes -> SUBSET Tasks]
             /\ Processes_right(after, [states EXCEPT ![t] = "closed"])
BY Classes_of DEF Processes_right

LEMMA Same_processes ==
  ASSUME NEW sets, NEW states, NEW states_2, Processes_right(sets, states),
         \A t \in Tasks : states_2[t] \in {"running", "idle", "ending"}
                            <=> states[t] \in {"running", "idle", "ending"}
  PROVE  Processes_right(sets, states_2)
BY DEF Processes_right

LEMMA Calls_added ==
  ASSUME NEW cs, NEW states, Calls_right(cs, states), NEW R, R \subseteq Requestors, NEW E, E \subseteq Tasks
  PROVE  Calls_right(cs \cup Process_calls(R) \cup End_calls(E), states)
<1>1. Process_calls(R) \subseteq Calls /\ End_calls(E) \subseteq Calls
  BY DEF Process_calls, End_calls, Calls, Requestors
<1>2. \A t : <<"task_closed", t>> \notin Process_calls(R) \cup End_calls(E)
  BY DEF Process_calls, End_calls
<1> QED
  BY <1>1, <1>2 DEF Calls_right

(* Nothing is added by these.                                              *)
LEMMA No_calls == Process_calls({}) = {} /\ End_calls({}) = {}
BY DEF Process_calls, End_calls

LEMMA Fewer_calls ==
  ASSUME NEW cs, NEW states, Calls_right(cs, states), NEW cs_2, cs_2 \subseteq cs,
         NEW states_2, \A t \in Tasks : states[t] = "closed" => states_2[t] = "closed"
  PROVE  Calls_right(cs_2, states_2)
BY DEF Calls_right

LEMMA Flags_notified ==
  ASSUME NEW again \in [Jobs -> BOOLEAN], NEW R
  PROVE  Notified(R, again) \in [Jobs -> BOOLEAN]
BY DEF Notified

LEMMA Freed_tasks ==
  ASSUME NEW c, NEW E \in Tasks_to_free(c)
  PROVE  E \subseteq Tasks /\ \A t \in E : task_state[t] = "idle"
BY DEF Tasks_to_free, Idle_tasks

LEMMA Ends_asked ==
  ASSUME NEW E, end \in [Tasks -> BOOLEAN]
  PROVE  [t \in Tasks |-> end[t] \/ t \in E] \in [Tasks -> BOOLEAN]
OBVIOUS

(* Orders are taken from a job that has them.                              *)
LEMMA Orders_taken ==
  ASSUME orders \in [Jobs -> 0 .. Max_orders], NEW j \in Jobs, NEW n \in 0 .. orders[j]
  PROVE  [orders EXCEPT ![j] = @ - n] \in [Jobs -> 0 .. Max_orders]
<1>1. Max_orders \in Nat /\ orders[j] \in 0 .. Max_orders
  BY ProcessClassesAssumption
<1>2. orders[j] - n \in 0 .. Max_orders
  BY <1>1
<1> QED
  BY <1>2

LEMMA One_order_taken ==
  ASSUME orders \in [Jobs -> 0 .. Max_orders], NEW j \in Jobs, orders[j] > 0
  PROVE  [orders EXCEPT ![j] = @ - 1] \in [Jobs -> 0 .. Max_orders]
<1>1. 1 \in 0 .. orders[j]
  BY ProcessClassesAssumption
<1> QED
  BY <1>1, Orders_taken

(* remove_waiting_job_from_process_list.                                   *)
LEMMA Withdrawal ==
  ASSUME IInv, NEW j \in Jobs, Flags_without(j)
  PROVE  /\ Lists_right(Lists_without(j), waiting_for_process', task_state)
         /\ waiting_for_process' \in [Jobs -> BOOLEAN] /\ try_again' \in [Jobs -> BOOLEAN]
         /\ Notified_without(j) \subseteq Requestors
<1> USE DEF IInv, Job_types
<1>1. Lists_right(Lists_without(j), waiting_for_process', task_state)
  BY Job_withdrawn DEF Lists_without, Flags_without
<1>2. waiting_for_process' \in [Jobs -> BOOLEAN] /\ try_again' \in [Jobs -> BOOLEAN]
  BY Flags_notified DEF Flags_without
<1>3. Notified_without(j) \subseteq Requestors
  BY Who_is_notified, Classes_of DEF Notified_without, Lists_right, List_right
<1> QED
  BY <1>1, <1>2, <1>3

(* set_state.                                                              *)
LEMMA Job_state_set ==
  ASSUME IInv, NEW j \in Jobs, NEW state \in Job_states, NEW more_calls, Set_job_state(j, state, more_calls)
  PROVE  /\ job_state' \in [Jobs -> Job_states]
         /\ Lists_right(requestor_list', waiting_for_process', task_state)
         /\ waiting_for_process' \in [Jobs -> BOOLEAN] /\ try_again' \in [Jobs -> BOOLEAN]
         /\ \E R \in SUBSET Requestors : calls' = more_calls \cup Process_calls(R)
<1>1. job_state' \in [Jobs -> Job_states]
  BY DEF Set_job_state, IInv, Job_types
<1>2. CASE state # job_state[j] /\ waiting_for_process[j]
  <2>1. /\ requestor_list' = Lists_without(j) /\ Flags_without(j)
        /\ calls' = more_calls \cup Process_calls(Notified_without(j))
    BY <1>2 DEF Set_job_state
  <2> QED BY <1>1, <2>1, Withdrawal
<1>3. CASE ~(state # job_state[j] /\ waiting_for_process[j])
  <2>1. calls' = more_calls /\ UNCHANGED <<requestor_list, waiting_for_process, try_again>>
    BY <1>3 DEF Set_job_state
  <2>2. calls' = more_calls \cup Process_calls({})
    BY <2>1, No_calls
  <2> QED BY <1>1, <2>1, <2>2 DEF IInv, Job_types
<1> QED
  BY <1>2, <1>3

-----------------------------------------------------------------------------
(* Every step keeps the invariant.                                         *)

LEMMA Set_max_processes_keeps ==
  ASSUME IInv, NEW c \in Classes, NEW n \in Limits[c], set_max_processes(c, n)
  PROVE  IInv'
<1> DEFINE R == IF c \in known THEN waiting_requestor(requestor_list[c]) ELSE {}
<1>1. /\ max_processes' = [max_processes EXCEPT ![c] = n]
      /\ calls' = calls \cup Process_calls(R) /\ try_again' = Notified(R, try_again)
      /\ UNCHANGED <<known, process_set, requestor_list, orders, job_state,
                     waiting_for_process, task_state, end, turn>>
  BY DEF set_max_processes, task_vars
<1>2. R \subseteq Requestors
  BY Who_is_notified DEF IInv, Lists_right, List_right
<1> HIDE DEF R
<1>3. Class_types'
  BY <1>1, ProcessClassesAssumption DEF IInv, Class_types
<1>4. Job_types' /\ Task_types'
  BY <1>1, Flags_notified DEF IInv, Job_types, Task_types
<1>5. Calls_right(calls', task_state')
  BY <1>1, <1>2, Calls_added, No_calls DEF IInv
<1> QED
  BY <1>1, <1>3, <1>4, <1>5 DEF IInv

LEMMA On_requisite_loaded_keeps ==
  ASSUME IInv, NEW c \in Classes, on_requisite_loaded(c)
  PROVE  IInv'
<1> DEFINE R == {j \in Jobs : Job_class[j] = c /\ waiting_for_process[j]}
<1>1. /\ known' = known \cup {c}
      /\ calls' = calls \cup Process_calls(R) /\ try_again' = Notified(R, try_again)
      /\ UNCHANGED <<max_processes, process_set, requestor_list, orders, job_state,
                     waiting_for_process, task_state, end, turn>>
  BY DEF on_requisite_loaded, task_vars
<1>2. R \subseteq Requestors
  BY Classes_of
<1> HIDE DEF R
<1>3. Class_types'
  BY <1>1 DEF IInv, Class_types
<1>4. Job_types' /\ Task_types'
  BY <1>1, Flags_notified DEF IInv, Job_types, Task_types
<1>5. Calls_right(calls', task_state')
  BY <1>1, <1>2, Calls_added, No_calls DEF IInv
<1> QED
  BY <1>1, <1>3, <1>4, <1>5 DEF IInv

LEMMA Start_task_keeps ==
  ASSUME IInv, NEW j \in Jobs, NEW t \in Tasks, Start_task(j, t)
  PROVE  IInv'
<1> DEFINE withdrawal_calls == Process_calls(Notified_without(j))
<1>1. /\ orders[j] > 0 /\ orders' = [orders EXCEPT ![j] = @ - 1]
      /\ job_state' = [job_state EXCEPT ![j] = "running"]
      /\ Flags_without(j) /\ UNCHANGED <<known, max_processes, turn>>
  BY DEF Start_task
<1>2. /\ Lists_right(Lists_without(j), waiting_for_process', task_state)
      /\ waiting_for_process' \in [Jobs -> BOOLEAN] /\ try_again' \in [Jobs -> BOOLEAN]
      /\ Notified_without(j) \subseteq Requestors
  BY <1>1, Withdrawal
<1>3. Job_types'
  <2>1. orders' \in [Jobs -> 0 .. Max_orders]
    BY <1>1, One_order_taken DEF IInv, Job_types
  <2> QED BY <1>1, <1>2, <2>1 DEF IInv, Job_types, Job_states
<1>4. task_state[t] = "none" /\ task_state \in [Tasks -> Task_states] /\ end \in [Tasks -> BOOLEAN]
  BY DEF Start_task, Free_tasks, IInv, Task_types
<1>5. /\ Calls_right(calls \cup withdrawal_calls, task_state)
      /\ Calls_right(calls, task_state) /\ Processes_right(process_set, task_state)
      /\ process_set \in [Classes -> SUBSET Tasks]
  BY <1>2, Calls_added, No_calls DEF IInv, Class_types
<1>6. CASE /\ Gets_process(t) /\ requestor_list' = Lists_without(j)
           /\ calls' = calls \cup withdrawal_calls /\ UNCHANGED end
  <2>1. /\ process_set' = [process_set EXCEPT ![Class_of(t)] = @ \cup {t}]
        /\ task_state' = [task_state EXCEPT ![t] = "running"]
    BY <1>6 DEF Gets_process
  <2>2. process_set' \in [Classes -> SUBSET Tasks] /\ Processes_right(process_set', task_state')
    BY <1>4, <1>5, <2>1, Process_taken
  <2>3. Class_types' /\ Task_types'
    BY <1>1, <1>4, <1>6, <2>1, <2>2 DEF IInv, Class_types, Task_types, Task_states
  <2>4. Lists_right(requestor_list', waiting_for_process', task_state')
    <3>1. \A u \in Tasks : task_state'[u] = "waiting_for_process" <=> task_state[u] = "waiting_for_process"
      BY <1>4, <2>1
    <3> QED BY <1>2, <1>6, <3>1, Same_who_wait
  <2>5. Calls_right(calls', task_state')
    <3>1. \A u \in Tasks : task_state[u] = "closed" => task_state'[u] = "closed"
      BY <1>4, <2>1
    <3> QED BY <1>5, <1>6, <3>1, Fewer_calls
  <2> QED BY <1>3, <2>2, <2>3, <2>4, <2>5 DEF IInv
<1>7. CASE Waits_for_process(t, Lists_without(j), withdrawal_calls)
  <2>1. PICK E \in Tasks_to_free(Class_of(t)) :
          /\ end' = [u \in Tasks |-> end[u] \/ u \in E]
          /\ calls' = calls \cup withdrawal_calls \cup End_calls(E)
    BY <1>7 DEF Waits_for_process
  <2>2. /\ requestor_list' = [Lists_without(j) EXCEPT ![Class_of(t)] = Append(@, t)]
        /\ task_state' = [task_state EXCEPT ![t] = "waiting_for_process"]
        /\ process_set' = process_set
    BY <1>7 DEF Waits_for_process
  <2>3. Class_types' /\ Task_types'
    BY <1>1, <1>4, <2>1, <2>2 DEF IInv, Class_types, Task_types, Task_states
  <2>4. Lists_right(requestor_list', waiting_for_process', task_state')
    BY <1>2, <1>4, <2>2, Task_entered
  <2>5. Calls_right(calls', task_state')
    <3>1. Calls_right(calls', task_state)
      BY <1>2, <1>5, <2>1, Calls_added, Freed_tasks
    <3>2. \A u \in Tasks : task_state[u] = "closed" => task_state'[u] = "closed"
      BY <1>4, <2>2
    <3> QED BY <3>1, <3>2, Fewer_calls
  <2>6. Processes_right(process_set', task_state')
    <3>1. \A u \in Tasks : task_state'[u] \in {"running", "idle", "ending"}
                             <=> task_state[u] \in {"running", "idle", "ending"}
      BY <1>4, <2>2
    <3> QED BY <1>5, <2>2, <3>1, Same_processes
  <2> QED BY <1>3, <2>3, <2>4, <2>5, <2>6 DEF IInv
<1> QED
  BY <1>6, <1>7 DEF Start_task

LEMMA Order_fails_keeps ==
  ASSUME IInv, NEW j \in Jobs, Order_fails(j)
  PROVE  IInv'
<1>1. /\ orders[j] > 0 /\ orders' = [orders EXCEPT ![j] = @ - 1]
      /\ requestor_list' = Lists_without(j) /\ Flags_without(j)
      /\ calls' = calls \cup Process_calls(Notified_without(j)) /\ turn' = Nobody
      /\ UNCHANGED <<known, max_processes, process_set, job_state, task_state, end>>
  BY DEF Order_fails, task_vars
<1>2. /\ Lists_right(requestor_list', waiting_for_process', task_state)
      /\ waiting_for_process' \in [Jobs -> BOOLEAN] /\ try_again' \in [Jobs -> BOOLEAN]
      /\ Notified_without(j) \subseteq Requestors
  BY <1>1, Withdrawal
<1>3. Class_types' /\ Job_types' /\ Task_types'
  <2>1. orders' \in [Jobs -> 0 .. Max_orders]
    BY <1>1, One_order_taken DEF IInv, Job_types
  <2> QED BY <1>1, <1>2, <2>1 DEF IInv, Class_types, Job_types, Task_types
<1>4. Calls_right(calls', task_state')
  BY <1>1, <1>2, Calls_added, No_calls DEF IInv
<1> QED
  BY <1>1, <1>2, <1>3, <1>4 DEF IInv

LEMMA Wait_for_process_keeps ==
  ASSUME IInv, NEW j \in Jobs, Wait_for_process(j)
  PROVE  IInv'
<1> DEFINE c == Job_class[j]
<1>1. /\ waiting_for_process' = [waiting_for_process EXCEPT ![j] = TRUE]
      /\ requestor_list' = IF c \in known /\ ~waiting_for_process[j]
                             THEN [requestor_list EXCEPT ![c] = Append(@, j)] ELSE requestor_list
      /\ try_again' = IF c \in known THEN [try_again EXCEPT ![j] = FALSE] ELSE try_again
      /\ turn' = Nobody
      /\ UNCHANGED <<known, max_processes, process_set, orders, job_state, task_state>>
  BY DEF Wait_for_process
<1>2. PICK E : /\ E \in Tasks_to_free(c) \cup {{}}
               /\ end' = [u \in Tasks |-> end[u] \/ u \in E] /\ calls' = calls \cup End_calls(E)
  BY DEF Wait_for_process
<1>3. E \subseteq Tasks
  BY <1>2, Freed_tasks
<1>4. waiting_for_process \in [Jobs -> BOOLEAN] /\ Lists_right(requestor_list, waiting_for_process, task_state)
  BY DEF IInv, Job_types
<1>5. Lists_right(requestor_list', waiting_for_process', task_state)
  <2>1. CASE c \in known /\ ~waiting_for_process[j]
    BY <1>1, <1>4, <2>1, Job_entered
  <2>2. CASE ~(c \in known /\ ~waiting_for_process[j])
    <3>1. \A i \in Jobs : waiting_for_process[i] => waiting_for_process'[i]
      BY <1>1, <1>4
    <3> QED BY <1>1, <1>4, <2>2, <3>1, Same_who_wait
  <2> QED BY <2>1, <2>2
<1>6. Class_types' /\ Job_types' /\ Task_types'
  <2>1. Class_types'
    BY <1>1 DEF IInv, Class_types
  <2>2. waiting_for_process' \in [Jobs -> BOOLEAN] /\ try_again' \in [Jobs -> BOOLEAN]
    BY <1>1 DEF IInv, Job_types
  <2>3. Job_types'
    BY <1>1, <2>2 DEF IInv, Job_types
  <2>4. Task_types'
    BY <1>1, <1>2, Ends_asked DEF IInv, Task_types
  <2> QED BY <2>1, <2>3, <2>4
<1>7. Calls_right(calls', task_state')
  <2>1. Calls_right(calls \cup Process_calls({}) \cup End_calls(E), task_state)
    BY <1>3, Calls_added DEF IInv
  <2>2. calls' = calls \cup Process_calls({}) \cup End_calls(E)
    BY <1>2, No_calls
  <2> QED BY <1>1, <2>1, <2>2
<1> QED
  BY <1>1, <1>5, <1>6, <1>7 DEF IInv

LEMMA Start_nothing_keeps ==
  ASSUME IInv, NEW j \in Jobs, Start_nothing(j)
  PROVE  IInv'
<1>1. turn' = Nobody /\ UNCHANGED <<known, max_processes, process_set, orders, job_state, task_state, end>>
  BY DEF Start_nothing, task_vars
<1>2. CASE /\ requestor_list' = Lists_without(j) /\ Flags_without(j)
           /\ calls' = calls \cup Process_calls(Notified_without(j))
  <2>1. /\ Lists_right(requestor_list', waiting_for_process', task_state)
        /\ waiting_for_process' \in [Jobs -> BOOLEAN] /\ try_again' \in [Jobs -> BOOLEAN]
        /\ Notified_without(j) \subseteq Requestors
    BY <1>2, Withdrawal
  <2>2. Class_types' /\ Job_types' /\ Task_types'
    BY <1>1, <2>1 DEF IInv, Class_types, Job_types, Task_types
  <2>3. Calls_right(calls', task_state')
    BY <1>1, <1>2, <2>1, Calls_added, No_calls DEF IInv
  <2> QED BY <1>1, <2>1, <2>2, <2>3 DEF IInv
<1>3. CASE UNCHANGED <<requestor_list, waiting_for_process, try_again, calls>>
  BY <1>1, <1>3 DEF IInv, Class_types, Job_types, Task_types
<1> QED
  BY <1>2, <1>3 DEF Start_nothing

LEMMA Add_order_keeps ==
  ASSUME IInv, NEW j \in Jobs, Add_order(j)
  PROVE  IInv'
<1>1. /\ orders[j] < Max_orders /\ orders' = [orders EXCEPT ![j] = @ + 1]
      /\ calls' = calls \cup {<<"order_possibly_available", j>>}
      /\ UNCHANGED <<known, max_processes, process_set, requestor_list, job_state,
                     waiting_for_process, try_again, task_state, end, turn>>
  BY DEF Add_order, class_vars, task_vars
<1>2. orders' \in [Jobs -> 0 .. Max_orders]
  <2>1. orders \in [Jobs -> 0 .. Max_orders] /\ Max_orders \in Nat
    BY ProcessClassesAssumption DEF IInv, Job_types
  <2>2. orders[j] + 1 \in 0 .. Max_orders
    BY <1>1, <2>1
  <2> QED BY <1>1, <2>1, <2>2
<1>3. Class_types' /\ Job_types' /\ Task_types'
  BY <1>1, <1>2 DEF IInv, Class_types, Job_types, Task_types
<1>4. Calls_right(calls', task_state')
  BY <1>1, Classes_of DEF IInv, Calls_right, Calls
<1> QED
  BY <1>1, <1>3, <1>4 DEF IInv

LEMMA Process_orders_keeps ==
  ASSUME IInv, NEW j \in Jobs, process_orders(j)
  PROVE  IInv'
<1> DEFINE idle  == {t \in Tasks : Job_of[t] = j /\ task_state[t] = "idle" /\ ~end[t]}
           taken == IF orders[j] < Cardinality(idle) THEN orders[j] ELSE Cardinality(idle)
<1>1. PICK S \in SUBSET idle : task_state' = [t \in Tasks |-> IF t \in S THEN "running" ELSE task_state[t]]
  BY DEF process_orders
<1>2. /\ calls' = calls \ {<<"order_possibly_available", j>>}
      /\ orders' = [orders EXCEPT ![j] = @ - taken] /\ turn' = j
      /\ UNCHANGED <<known, max_processes, process_set, requestor_list, job_state,
                     waiting_for_process, try_again, end>>
  BY DEF process_orders, class_vars
<1>3. orders \in [Jobs -> 0 .. Max_orders] /\ Max_orders \in Nat /\ task_state \in [Tasks -> Task_states]
  BY ProcessClassesAssumption DEF IInv, Job_types, Task_types
<1>4. taken \in 0 .. orders[j]
  <2>1. IsFiniteSet(idle)
    BY ProcessClassesAssumption, FS_Subset
  <2>2. Cardinality(idle) \in Nat
    BY <2>1, FS_CardinalityType
  <2> HIDE DEF idle
  <2> QED BY <1>3, <2>2
<1>5. \A t \in S : t \in Tasks /\ task_state[t] = "idle"
  OBVIOUS
<1> HIDE DEF idle, taken
<1>6. orders' \in [Jobs -> 0 .. Max_orders]
  BY <1>2, <1>3, <1>4, Orders_taken
<1>7. Class_types' /\ Job_types' /\ Task_types'
  BY <1>1, <1>2, <1>3, <1>6 DEF IInv, Class_types, Job_types, Task_types, Task_states
<1>8. \A t \in Tasks : IF t \in S THEN task_state[t] = "idle" /\ task_state'[t] = "running"
                                  ELSE task_state'[t] = task_state[t]
  BY <1>1, <1>5
<1>9. Lists_right(requestor_list', waiting_for_process', task_state')
  <2>1. \A t \in Tasks : task_state'[t] = "waiting_for_process" <=> task_state[t] = "waiting_for_process"
    BY <1>8
  <2> QED BY <1>2, <2>1, Same_who_wait DEF IInv
<1>10. Calls_right(calls', task_state')
  <2>1. \A t \in Tasks : task_state[t] = "closed" => task_state'[t] = "closed"
    BY <1>8
  <2>2. calls' \subseteq calls
    BY <1>2
  <2> QED BY <2>1, <2>2, Fewer_calls DEF IInv
<1>11. Processes_right(process_set', task_state')
  <2>1. \A t \in Tasks : task_state'[t] \in {"running", "idle", "ending"}
                           <=> task_state[t] \in {"running", "idle", "ending"}
    BY <1>8
  <2> QED BY <1>2, <2>1, Same_processes DEF IInv
<1> QED
  BY <1>7, <1>9, <1>10, <1>11 DEF IInv

LEMMA On_job_call_keeps ==
  ASSUME IInv, NEW j \in Jobs, NEW name, On_job_call(j, name)
  PROVE  IInv'
<1>1. /\ calls' = calls \ {<<name, j>>} /\ turn' = j
      /\ UNCHANGED <<known, max_processes, process_set, requestor_list, orders, job_state,
                     waiting_for_process, try_again, task_state, end>>
  BY DEF On_job_call, class_vars, job_vars, task_vars
<1>2. Calls_right(calls', task_state')
  BY <1>1, Fewer_calls DEF IInv
<1> QED
  BY <1>1, <1>2 DEF IInv, Class_types, Job_types, Task_types

LEMMA Stop_keeps ==
  ASSUME IInv, NEW j \in Jobs, stop(j)
  PROVE  IInv'
<1> DEFINE E == {t \in Tasks_of(j) : task_state[t] \in {"waiting_for_process", "running", "idle"} /\ ~end[t]}
           state == IF Tasks_of(j) = {} THEN "stopped" ELSE "stopping"
<1>1. /\ Set_job_state(j, state, calls \cup End_calls(E))
      /\ end' = [t \in Tasks |-> end[t] \/ t \in E]
      /\ UNCHANGED <<known, max_processes, process_set, orders, task_state, turn>>
  BY DEF stop
<1>2. E \subseteq Tasks /\ state \in Job_states
  BY DEF Tasks_of, Job_states
<1> HIDE DEF E, state
<1>3. /\ job_state' \in [Jobs -> Job_states]
      /\ Lists_right(requestor_list', waiting_for_process', task_state)
      /\ waiting_for_process' \in [Jobs -> BOOLEAN] /\ try_again' \in [Jobs -> BOOLEAN]
  BY <1>1, <1>2, Job_state_set
<1>4. PICK R \in SUBSET Requestors : calls' = (calls \cup End_calls(E)) \cup Process_calls(R)
  BY <1>1, <1>2, Job_state_set
<1>5. calls' = calls \cup Process_calls(R) \cup End_calls(E)
  BY <1>4
<1>6. Calls_right(calls', task_state')
  BY <1>1, <1>2, <1>5, Calls_added DEF IInv
<1>7. Class_types' /\ Job_types' /\ Task_types'
  BY <1>1, <1>3 DEF IInv, Class_types, Job_types, Task_types
<1> QED
  BY <1>1, <1>3, <1>6, <1>7 DEF IInv

LEMMA Unstop_keeps ==
  ASSUME IInv, NEW j \in Jobs, unstop(j)
  PROVE  IInv'
<1>1. /\ Set_job_state(j, "pending", calls) /\ turn' = j
      /\ UNCHANGED <<known, max_processes, process_set, orders, task_state, end>>
  BY DEF unstop, task_vars
<1>2. "pending" \in Job_states
  BY DEF Job_states
<1>3. /\ job_state' \in [Jobs -> Job_states]
      /\ Lists_right(requestor_list', waiting_for_process', task_state)
      /\ waiting_for_process' \in [Jobs -> BOOLEAN] /\ try_again' \in [Jobs -> BOOLEAN]
  BY <1>1, <1>2, Job_state_set
<1>4. PICK R \in SUBSET Requestors : calls' = calls \cup Process_calls(R)
  BY <1>1, <1>2, Job_state_set
<1>5. Calls_right(calls', task_state')
  BY <1>1, <1>4, Calls_added, No_calls DEF IInv
<1>6. Class_types' /\ Job_types' /\ Task_types'
  BY <1>1, <1>3 DEF IInv, Class_types, Job_types, Task_types
<1> QED
  BY <1>1, <1>3, <1>5, <1>6 DEF IInv

(* A task that has a process goes on with it.                              *)
LEMMA Task_goes_on ==
  ASSUME IInv, NEW t \in Tasks, task_state[t] \in {"running", "idle"},
         NEW state \in {"running", "idle", "ending"}
  PROVE  LET after == [task_state EXCEPT ![t] = state]
         IN  /\ after \in [Tasks -> Task_states]
             /\ Lists_right(requestor_list, waiting_for_process, after)
             /\ Calls_right(calls, after) /\ Processes_right(process_set, after)
<1> DEFINE after == [task_state EXCEPT ![t] = state]
<1>1. after \in [Tasks -> Task_states] /\ \A u \in Tasks : after[u] = IF u = t THEN state ELSE task_state[u]
  BY DEF IInv, Task_types, Task_states
<1> HIDE DEF after
<1>2. /\ \A u \in Tasks : after[u] = "waiting_for_process" <=> task_state[u] = "waiting_for_process"
      /\ \A u \in Tasks : task_state[u] = "closed" => after[u] = "closed"
      /\ \A u \in Tasks : after[u] \in {"running", "idle", "ending"}
                            <=> task_state[u] \in {"running", "idle", "ending"}
  BY <1>1
<1>3. Lists_right(requestor_list, waiting_for_process, after)
  BY <1>2, Same_who_wait DEF IInv
<1>4. Calls_right(calls, after)
  BY <1>2, Fewer_calls DEF IInv
<1>5. Processes_right(process_set, after)
  BY <1>2, Same_processes DEF IInv
<1> QED
  BY <1>1, <1>3, <1>4, <1>5 DEF after

LEMMA Step_completed_keeps ==
  ASSUME IInv, NEW t \in Tasks, Step_completed(t)
  PROVE  IInv'
<1> DEFINE j == Job_of[t]
           is_wanted == waiting_requestor(requestor_list[Class_of(t)]) # {}
<1>1. /\ task_state[t] = "running"
      /\ UNCHANGED <<known, max_processes, process_set, requestor_list, job_state,
                     waiting_for_process, try_again, turn>>
  BY DEF Step_completed, class_vars
<1>2. j \in Jobs /\ task_state \in [Tasks -> Task_states] /\ end \in [Tasks -> BOOLEAN] /\ is_wanted \in BOOLEAN
  BY Classes_of DEF IInv, Task_types
<1>3. CASE task_state' = [task_state EXCEPT ![t] = "ending"] /\ UNCHANGED <<orders, end, calls>>
  <2>1. /\ task_state' \in [Tasks -> Task_states]
        /\ Lists_right(requestor_list, waiting_for_process, task_state')
        /\ Calls_right(calls, task_state') /\ Processes_right(process_set, task_state')
    BY <1>1, <1>3, Task_goes_on
  <2> QED BY <1>1, <1>3, <2>1 DEF IInv, Class_types, Job_types, Task_types
<1>4. CASE /\ ~end[t] /\ orders[j] > 0 /\ orders' = [orders EXCEPT ![j] = @ - 1]
           /\ UNCHANGED <<task_state, end, calls>>
  <2>1. orders' \in [Jobs -> 0 .. Max_orders]
    BY <1>2, <1>4, One_order_taken DEF IInv, Job_types
  <2> QED BY <1>1, <1>4, <2>1 DEF IInv, Class_types, Job_types, Task_types
<1>5. CASE /\ task_state' = [task_state EXCEPT ![t] = "idle"]
           /\ end' = [end EXCEPT ![t] = is_wanted]
           /\ calls' = IF is_wanted THEN calls \cup End_calls({t}) ELSE calls
           /\ UNCHANGED orders
  <2>1. /\ task_state' \in [Tasks -> Task_states]
        /\ Lists_right(requestor_list, waiting_for_process, task_state')
        /\ Calls_right(calls, task_state') /\ Processes_right(process_set, task_state')
    BY <1>1, <1>5, Task_goes_on
  <2>2. end' \in [Tasks -> BOOLEAN]
    BY <1>2, <1>5
  <2>3. Calls_right(calls', task_state')
    <3>1. Calls_right(calls \cup End_calls({t}), task_state')
      BY <2>1, Calls_added, No_calls
    <3> QED BY <1>5, <2>1, <3>1
  <2> QED BY <1>1, <1>5, <2>1, <2>2, <2>3 DEF IInv, Class_types, Job_types, Task_types
<1> QED
  BY <1>3, <1>4, <1>5 DEF Step_completed

LEMMA Idle_timeout_keeps ==
  ASSUME IInv, NEW t \in Tasks, Idle_timeout(t)
  PROVE  IInv'
<1>1. /\ task_state[t] = "idle" /\ task_state' = [task_state EXCEPT ![t] = "ending"]
      /\ UNCHANGED <<known, max_processes, process_set, requestor_list, orders, job_state,
                     waiting_for_process, try_again, end, calls, turn>>
  BY DEF Idle_timeout, class_vars, job_vars
<1>2. /\ task_state' \in [Tasks -> Task_states]
      /\ Lists_right(requestor_list, waiting_for_process, task_state')
      /\ Calls_right(calls, task_state') /\ Processes_right(process_set, task_state')
  BY <1>1, Task_goes_on
<1> QED
  BY <1>1, <1>2 DEF IInv, Class_types, Job_types, Task_types

(* A task that waits leaves its list.                                      *)
LEMMA Task_leaves_list ==
  ASSUME IInv, NEW t \in Tasks, NEW state \in Task_states \ {"waiting_for_process"},
         requestor_list' = Lists_without_task(t),
         try_again' = Notified(Notified_by_removal(requestor_list[Class_of(t)], t), try_again)
  PROVE  /\ Lists_right(requestor_list', waiting_for_process, [task_state EXCEPT ![t] = state])
         /\ try_again' \in [Jobs -> BOOLEAN]
         /\ Notified_by_removal(requestor_list[Class_of(t)], t) \subseteq Requestors
<1>1. Lists_right(requestor_list', waiting_for_process, [task_state EXCEPT ![t] = state])
  BY Task_left DEF Lists_without_task, IInv, Task_types
<1>2. try_again' \in [Jobs -> BOOLEAN]
  BY Flags_notified DEF IInv, Job_types
<1>3. Notified_by_removal(requestor_list[Class_of(t)], t) \subseteq Requestors
  BY Who_is_notified, Classes_of DEF IInv, Lists_right, List_right
<1> QED
  BY <1>1, <1>2, <1>3

LEMMA Do_something_keeps ==
  ASSUME IInv, NEW t \in Tasks, NEW name, Do_something(t, name)
  PROVE  IInv'
<1> DEFINE c == Class_of(t)
           R == Notified_by_removal(requestor_list[c], t)
           other_calls == calls \ {<<name, t>>}
<1>1. UNCHANGED <<known, max_processes, orders, job_state, waiting_for_process, end, turn>>
  BY DEF Do_something
<1>2. /\ task_state \in [Tasks -> Task_states] /\ process_set \in [Classes -> SUBSET Tasks]
      /\ Calls_right(other_calls, task_state) /\ Processes_right(process_set, task_state)
  BY Fewer_calls DEF IInv, Task_types, Class_types
<1>3. CASE /\ task_state[t] = "waiting_for_process"
           /\ task_state' = [task_state EXCEPT ![t] = "closed"]
           /\ requestor_list' = Lists_without_task(t) /\ try_again' = Notified(R, try_again)
           /\ calls' = other_calls \cup Process_calls(R) \cup {<<"task_closed", t>>}
           /\ UNCHANGED process_set
  <2>1. /\ Lists_right(requestor_list', waiting_for_process, task_state')
        /\ try_again' \in [Jobs -> BOOLEAN] /\ R \subseteq Requestors
    <3>1. "closed" \in Task_states \ {"waiting_for_process"}
      BY DEF Task_states
    <3> QED BY <1>3, <3>1, Task_leaves_list
  <2>2. \A u \in Tasks : task_state'[u] = IF u = t THEN "closed" ELSE task_state[u]
    BY <1>2, <1>3
  <2>3. Calls_right(calls', task_state')
    <3>1. Calls_right(other_calls \cup Process_calls(R), task_state)
      BY <1>2, <2>1, Calls_added, No_calls
    <3> HIDE DEF other_calls, R
    <3>2. <<"task_closed", t>> \in Calls
      BY Classes_of DEF Calls
    <3>3. ASSUME NEW u \in Tasks, <<"task_closed", u>> \in calls' PROVE task_state'[u] = "closed"
      BY <1>3, <2>2, <3>1, <3>3 DEF Calls_right
    <3> QED BY <1>3, <3>1, <3>2, <3>3 DEF Calls_right
  <2>4. Processes_right(process_set', task_state')
    <3>1. \A u \in Tasks : task_state'[u] \in {"running", "idle", "ending"}
                             <=> task_state[u] \in {"running", "idle", "ending"}
      BY <1>3, <2>2
    <3> QED BY <1>2, <1>3, <3>1, Same_processes
  <2>5. Class_types' /\ Job_types' /\ Task_types'
    BY <1>1, <1>3, <2>1 DEF IInv, Class_types, Job_types, Task_types, Task_states
  <2> QED BY <1>1, <2>1, <2>3, <2>4, <2>5 DEF IInv
<1>4. CASE /\ task_state[t] = "waiting_for_process" /\ Gets_process(t)
           /\ requestor_list' = Lists_without_task(t) /\ try_again' = Notified(R, try_again)
           /\ calls' = other_calls \cup Process_calls(R)
  <2>1. /\ process_set' = [process_set EXCEPT ![c] = @ \cup {t}]
        /\ task_state' = [task_state EXCEPT ![t] = "running"]
    BY <1>4 DEF Gets_process
  <2>2. /\ Lists_right(requestor_list', waiting_for_process, task_state')
        /\ try_again' \in [Jobs -> BOOLEAN] /\ R \subseteq Requestors
    <3>1. "running" \in Task_states \ {"waiting_for_process"}
      BY DEF Task_states
    <3> QED BY <1>4, <2>1, <3>1, Task_leaves_list
  <2>3. process_set' \in [Classes -> SUBSET Tasks] /\ Processes_right(process_set', task_state')
    BY <1>2, <2>1, Process_taken
  <2>4. Calls_right(calls', task_state')
    <3>1. Calls_right(calls', task_state)
      BY <1>2, <1>4, <2>2, Calls_added, No_calls
    <3>2. \A u \in Tasks : task_state[u] = "closed" => task_state'[u] = "closed"
      BY <1>2, <1>4, <2>1
    <3> QED BY <3>1, <3>2, Fewer_calls
  <2>5. Class_types' /\ Job_types' /\ Task_types'
    BY <1>1, <2>1, <2>2, <2>3 DEF IInv, Class_types, Job_types, Task_types, Task_states
  <2> QED BY <1>1, <2>2, <2>3, <2>4, <2>5 DEF IInv
<1>5. CASE /\ task_state[t] = "idle" /\ task_state' = [task_state EXCEPT ![t] = "ending"]
           /\ calls' = other_calls /\ UNCHANGED <<process_set, requestor_list, try_again>>
  <2>1. /\ task_state' \in [Tasks -> Task_states]
        /\ Lists_right(requestor_list, waiting_for_process, task_state')
        /\ Calls_right(calls, task_state') /\ Processes_right(process_set, task_state')
    BY <1>5, Task_goes_on
  <2>2. Calls_right(calls', task_state')
    BY <1>5, <2>1, Fewer_calls
  <2> QED BY <1>1, <1>5, <2>1, <2>2 DEF IInv, Class_types, Job_types, Task_types
<1>6. CASE calls' = other_calls /\ UNCHANGED <<process_set, requestor_list, try_again, task_state>>
  BY <1>1, <1>2, <1>6 DEF IInv, Class_types, Job_types, Task_types
<1> QED
  BY <1>3, <1>4, <1>5, <1>6 DEF Do_something

LEMMA Task_ends_keeps ==
  ASSUME IInv, NEW t \in Tasks, Task_ends(t)
  PROVE  IInv'
<1> DEFINE c == Class_of(t)
           R == Notified_by_end(c)
<1>1. /\ task_state[t] = "ending" /\ process_set' = [process_set EXCEPT ![c] = @ \ {t}]
      /\ task_state' = [task_state EXCEPT ![t] = "closed"]
      /\ calls' = calls \cup Process_calls(R) \cup {<<"task_closed", t>>}
      /\ try_again' = Notified(R, try_again)
      /\ UNCHANGED <<known, max_processes, requestor_list, orders, job_state,
                     waiting_for_process, end, turn>>
  BY DEF Task_ends
<1>2. task_state \in [Tasks -> Task_states] /\ process_set \in [Classes -> SUBSET Tasks]
  BY DEF IInv, Task_types, Class_types
<1>3. R \subseteq Requestors
  BY Who_is_notified, Classes_of DEF Notified_by_end, IInv, Lists_right, List_right
<1>4. process_set' \in [Classes -> SUBSET Tasks] /\ Processes_right(process_set', task_state')
  BY <1>1, <1>2, Process_released DEF IInv
<1> HIDE DEF R
<1>5. Class_types' /\ Job_types' /\ Task_types'
  BY <1>1, <1>2, <1>4, Flags_notified DEF IInv, Class_types, Job_types, Task_types, Task_states
<1>6. \A u \in Tasks : task_state'[u] = IF u = t THEN "closed" ELSE task_state[u]
  BY <1>1, <1>2
<1>7. Lists_right(requestor_list', waiting_for_process', task_state')
  <2>1. \A u \in Tasks : task_state'[u] = "waiting_for_process" <=> task_state[u] = "waiting_for_process"
    BY <1>1, <1>6
  <2> QED BY <1>1, <2>1, Same_who_wait DEF IInv
<1>8. Calls_right(calls', task_state')
  <2>1. Calls_right(calls \cup Process_calls(R), task_state)
    BY <1>3, Calls_added, No_calls DEF IInv
  <2>2. <<"task_closed", t>> \in Calls
    BY Classes_of DEF Calls
  <2>3. ASSUME NEW u \in Tasks, <<"task_closed", u>> \in calls' PROVE task_state'[u] = "closed"
    BY <1>1, <1>6, <2>1, <2>3 DEF Calls_right
  <2> QED BY <1>1, <2>1, <2>2, <2>3 DEF Calls_right
<1> QED
  BY <1>4, <1>5, <1>7, <1>8 DEF IInv

LEMMA On_task_closed_keeps ==
  ASSUME IInv, NEW t \in Tasks, On_task_closed(t)
  PROVE  IInv'
<1> DEFINE j    == Job_of[t]
           left == Tasks_of(j) \ {t}
           state == CASE left = {} /\ job_state[j] = "stopping" -> "stopped"
                      [] left = {} /\ job_state[j] = "running"  -> "pending"
                      [] OTHER -> job_state[j]
           below == IF state = "pending" /\ Cardinality(left) + 1 = Max_tasks[j]
                      THEN {<<"below_max_tasks", j>>} ELSE {}
           others == {call \in calls : call[2] # t}
<1>1. /\ <<"task_closed", t>> \in calls /\ Set_job_state(j, state, others \cup below)
      /\ task_state' = [task_state EXCEPT ![t] = "none"] /\ end' = [end EXCEPT ![t] = FALSE]
      /\ turn' = j
      /\ UNCHANGED <<known, max_processes, process_set, orders>>
  BY DEF On_task_closed
<1>2. /\ j \in Jobs /\ task_state[t] = "closed" /\ task_state \in [Tasks -> Task_states]
      /\ job_state[j] \in Job_states
  BY <1>1, Classes_of DEF IInv, Calls_right, Task_types, Job_types
<1>3. state \in Job_states
  <2>1. state \in {"stopped", "pending", job_state[j]}
    <3> HIDE DEF left
    <3> QED OBVIOUS
  <2> HIDE DEF state
  <2> QED BY <1>2, <2>1 DEF Job_states
<1>4. below \subseteq {<<"below_max_tasks", j>>}
  OBVIOUS
<1> HIDE DEF left, state, below
<1>5. /\ job_state' \in [Jobs -> Job_states]
      /\ Lists_right(requestor_list', waiting_for_process', task_state)
      /\ waiting_for_process' \in [Jobs -> BOOLEAN] /\ try_again' \in [Jobs -> BOOLEAN]
  BY <1>1, <1>2, <1>3, Job_state_set
<1>6. PICK R \in SUBSET Requestors : calls' = (others \cup below) \cup Process_calls(R)
  BY <1>1, <1>2, <1>3, Job_state_set
<1>7. \A u \in Tasks : task_state'[u] = IF u = t THEN "none" ELSE task_state[u]
  BY <1>1, <1>2
<1>8. Class_types' /\ Job_types' /\ Task_types'
  BY <1>1, <1>2, <1>5 DEF IInv, Class_types, Job_types, Task_types, Task_states
<1>9. Lists_right(requestor_list', waiting_for_process', task_state')
  <2>1. \A u \in Tasks : task_state'[u] = "waiting_for_process" <=> task_state[u] = "waiting_for_process"
    BY <1>2, <1>7
  <2> QED BY <1>5, <2>1, Same_who_wait
<1>10. Processes_right(process_set', task_state')
  <2>1. \A u \in Tasks : task_state'[u] \in {"running", "idle", "ending"}
                           <=> task_state[u] \in {"running", "idle", "ending"}
    BY <1>2, <1>7
  <2> QED BY <1>1, <2>1, Same_processes DEF IInv
<1>11. Calls_right(calls', task_state')
  <2>1. Calls_right(others \cup below, task_state)
    <3>1. <<"below_max_tasks", j>> \in Calls /\ others \subseteq calls
      BY <1>2, Classes_of DEF Calls
    <3> QED BY <1>4, <3>1 DEF IInv, Calls_right
  <2>2. Calls_right(calls', task_state)
    BY <1>6, <2>1, Calls_added, No_calls
  <2>3. <<"task_closed", t>> \notin calls'
    BY <1>4, <1>6 DEF Process_calls
  <2> QED BY <1>7, <2>2, <2>3 DEF Calls_right
<1> QED
  BY <1>8, <1>9, <1>10, <1>11 DEF IInv

LEMMA Cmd_end_keeps ==
  ASSUME IInv, NEW t \in Tasks, cmd_end(t)
  PROVE  IInv'
<1>1. /\ end' = [end EXCEPT ![t] = TRUE] /\ calls' = calls \cup End_calls({t})
      /\ UNCHANGED <<known, max_processes, process_set, requestor_list, orders, job_state,
                     waiting_for_process, try_again, task_state, turn>>
  BY DEF cmd_end, class_vars, job_vars
<1>2. Calls_right(calls', task_state')
  BY <1>1, Calls_added, No_calls DEF IInv
<1> QED
  BY <1>1, <1>2 DEF IInv, Class_types, Job_types, Task_types

LEMMA Init_right ==
  ASSUME Init PROVE IInv
<1>1. max_processes \in [Classes -> Nat] /\ \A c \in Classes : max_processes[c] \in Limits[c]
  <2>1. PICK m \in [Classes -> UNION {Limits[c] : c \in Classes}] :
          max_processes = m /\ \A c \in Classes : m[c] \in Limits[c]
    BY DEF Init
  <2>2. \A c \in Classes : Limits[c] \subseteq Nat
    BY ProcessClassesAssumption
  <2>3. m = [c \in Classes |-> m[c]] /\ \A c \in Classes : m[c] \in Nat
    BY <2>1, <2>2
  <2> QED BY <2>1, <2>3
<1>2. Class_types
  BY <1>1, ProcessClassesAssumption DEF Init, Class_types
<1>3. Job_types /\ Task_types
  <2>1. 0 \in 0 .. Max_orders
    BY ProcessClassesAssumption
  <2> QED BY <2>1 DEF Init, Job_types, Task_types, Job_states, Task_states
<1>4. Lists_right(requestor_list, waiting_for_process, task_state)
  <2>1. <<>> \in Seq(Requestors) /\ DOMAIN <<>> = {} /\ Elements(<<>>) = {} /\ Is_distinct(<<>>)
    BY EmptySeq, Positions DEF Elements, Is_distinct
  <2> QED BY <2>1 DEF Init, Lists_right, List_right
<1>5. Calls_right(calls, task_state) /\ Processes_right(process_set, task_state)
  BY DEF Init, Calls_right, Processes_right
<1> QED
  BY <1>2, <1>3, <1>4, <1>5 DEF IInv

LEMMA Stutter_keeps ==
  ASSUME IInv, UNCHANGED vars PROVE IInv'
BY DEF vars, class_vars, job_vars, task_vars, IInv, Class_types, Job_types, Task_types

LEMMA Next_keeps ==
  ASSUME IInv, [Next]_vars PROVE IInv'
<1>1. ASSUME NEW j \in Jobs, try_start_one_task(j) PROVE IInv'
  BY <1>1, Start_task_keeps, Order_fails_keeps, Wait_for_process_keeps, Start_nothing_keeps
     DEF try_start_one_task
<1>2. CASE Calls_of_main_thread
  BY <1>1, <1>2, Process_orders_keeps, On_job_call_keeps, Do_something_keeps, On_task_closed_keeps
     DEF Calls_of_main_thread
<1>3. ASSUME NEW j \in Jobs, Add_order(j) \/ stop(j) \/ unstop(j) PROVE IInv'
  BY <1>3, Add_order_keeps, Stop_keeps, Unstop_keeps
<1>4. ASSUME NEW t \in Tasks, Step_completed(t) \/ Idle_timeout(t) \/ Task_ends(t) \/ cmd_end(t) PROVE IInv'
  BY <1>4, Step_completed_keeps, Idle_timeout_keeps, Task_ends_keeps, Cmd_end_keeps
<1>5. ASSUME NEW c \in Classes, on_requisite_loaded(c) \/ \E n \in Limits[c] : set_max_processes(c, n)
      PROVE  IInv'
  BY <1>5, On_requisite_loaded_keeps, Set_max_processes_keeps
<1> QED
  BY <1>2, <1>3, <1>4, <1>5, Stutter_keeps DEF Next

THEOREM IInv_always == Spec => []IInv
BY Init_right, Next_keeps, PTL DEF Spec

-----------------------------------------------------------------------------
(* Every variable has a value of its type.                                 *)
THEOREM Type_correct == Spec => []TypeOK
<1>1. ASSUME IInv PROVE TypeOK
  <2>1. \A c \in Classes : Elements(requestor_list[c]) \subseteq Requestors
    BY <1>1, Positions DEF IInv, Lists_right
  <2> QED
    BY <1>1, <2>1 DEF IInv, Class_types, Job_types, Task_types, Calls_right, TypeOK, Calls,
                     Job_states, Task_states
<1> QED
  BY <1>1, IInv_always, PTL

(* No destroyed or satisfied requestor is in a list, none is there twice,  *)
(* and every task that waits for a process is in the list of its class     *)
(* (add_requestor, remove_requestor).                                      *)
THEOREM Requestors_do_not_dangle == Spec => []No_dangling_requestors
<1>1. ASSUME IInv PROVE No_dangling_requestors
  BY <1>1 DEF IInv, Lists_right, List_right, Is_distinct, No_dangling_requestors
<1> QED
  BY <1>1, IInv_always, PTL

(* The processes of a class are those of its tasks that run, are idle or   *)
(* end: a task that ends gives its process back, and no other task has one *)
(* (try_to_get_process, detach_process).                                   *)
THEOREM Processes_belong_to_tasks == Spec => []Processes_right(process_set, task_state)
<1>1. IInv => Processes_right(process_set, task_state)
  BY DEF IInv
<1> QED
  BY <1>1, IInv_always, PTL

-----------------------------------------------------------------------------
(* Who is told that a process is available.                                *)

(* The first requestor of a list, and what is known of it.                 *)
LEMMA First_waits ==
  ASSUME IInv, NEW c \in Classes, requestor_list[c] # <<>>
  PROVE  /\ requestor_list[c][1] \in Elements(requestor_list[c])
         /\ requestor_list[c][1] \in Requestors
         /\ requestor_list[c][1] \in Jobs
              => Job_class[requestor_list[c][1]] = c /\ waiting_for_process[requestor_list[c][1]]
         /\ requestor_list[c][1] \in Tasks
              => Class_of(requestor_list[c][1]) = c /\ task_state[requestor_list[c][1]] = "waiting_for_process"
<1>1. List_right(c, requestor_list[c], waiting_for_process, task_state)
  BY DEF IInv, Lists_right
<1>2. requestor_list[c] \in Seq(Requestors)
  BY <1>1 DEF List_right
<1>3. requestor_list[c][1] \in Elements(requestor_list[c]) /\ Elements(requestor_list[c]) \subseteq Requestors
  BY <1>2, Positions
<1> QED
  BY <1>1, <1>3 DEF List_right

(* A list has only tasks, or only jobs.                                    *)
LEMMA Kinds_apart ==
  ASSUME IInv, Lists_apart, NEW c \in Classes
  PROVE  Elements(requestor_list[c]) \subseteq Tasks \/ Elements(requestor_list[c]) \cap Tasks = {}
<1>1. List_right(c, requestor_list[c], waiting_for_process, task_state)
  BY DEF IInv, Lists_right
<1>2. requestor_list[c] \in Seq(Requestors)
  BY <1>1 DEF List_right
<1>3. Elements(requestor_list[c]) \subseteq Requestors
  BY <1>2, Positions
<1> QED
  BY <1>1, <1>3 DEF List_right, Lists_apart, Requestors

LEMMA First_is_notified ==
  ASSUME IInv, Lists_apart, NEW c \in Classes, requestor_list[c] # <<>>
  PROVE  waiting_requestor(requestor_list[c]) = {requestor_list[c][1]}
<1>1. requestor_list[c] \in Seq(Requestors)
  BY DEF IInv, Lists_right
<1> QED
  BY <1>1, Kinds_apart, Waiting_requestor

(* If the first one leaves, the next one is notified.                      *)
LEMMA Next_is_notified ==
  ASSUME IInv, Lists_apart, NEW c \in Classes, NEW r, Without(requestor_list[c], r) # <<>>
  PROVE  LET list == requestor_list[c]
             rest == Without(list, r)
         IN  /\ rest[1] \in Requestors /\ rest[1] # r
             /\ \/ list # <<>> /\ list[1] = rest[1]
                \/ Notified_by_removal(list, r) = {rest[1]}
<1> DEFINE list == requestor_list[c]
           rest == Without(list, r)
<1>1. list \in Seq(Requestors) /\ Is_distinct(list)
  BY DEF IInv, Lists_right, List_right
<1>2. /\ rest \in Seq(Requestors) /\ Elements(rest) = Elements(list) \ {r}
      /\ list # <<>> /\ list[1] # r => rest[1] = list[1]
  BY <1>1, Removed
<1>3. Elements(list) \subseteq Tasks \/ Elements(list) \cap Tasks = {}
  BY Kinds_apart
<1>4. rest # <<>>
  OBVIOUS
<1> HIDE DEF list, rest
<1>5. rest[1] \in Elements(rest) /\ Head(rest) = rest[1] /\ Elements(rest) \subseteq Requestors
  BY <1>2, <1>4, Positions
<1>6. list # <<>>
  BY <1>1, <1>2, <1>5 DEF Elements
<1>7. Head(list) = list[1]
  BY <1>1, <1>6, Positions
<1>8. CASE list[1] # r
  BY <1>2, <1>5, <1>6, <1>8 DEF list, rest
<1>9. CASE list[1] = r
  <2>1. Elements(rest) \subseteq Tasks \/ Elements(rest) \cap Tasks = {}
    BY <1>2, <1>3
  <2>2. waiting_requestor(rest) = {rest[1]}
    BY <1>2, <1>4, <2>1, Waiting_requestor
  <2>3. rest[1] # r
    BY <1>2, <1>5
  <2>4. Notified_by_removal(list, r) = {rest[1]}
    BY <1>4, <1>5, <1>7, <1>9, <2>2, <2>3 DEF Notified_by_removal, rest
  <2> QED BY <1>2, <1>5, <2>3, <2>4 DEF list, rest
<1> QED
  BY <1>8, <1>9

(* Processes that are taken make no room.                                  *)
LEMMA No_more_room ==
  ASSUME IInv, IInv', known' = known, max_processes' = max_processes,
         \A d \in Classes : process_set[d] \subseteq process_set'[d]
  PROVE  \A d \in Classes : Has_process(d)' => Has_process(d)
<1> SUFFICES ASSUME NEW d \in Classes, Has_process(d)' PROVE Has_process(d)
  OBVIOUS
<1>1. process_set'[d] \subseteq Tasks /\ max_processes[d] \in Nat
  BY DEF IInv, Class_types
<1>2. IsFiniteSet(process_set'[d])
  BY <1>1, ProcessClassesAssumption, FS_Subset
<1>3. /\ IsFiniteSet(process_set[d])
      /\ Cardinality(process_set[d]) <= Cardinality(process_set'[d])
  BY <1>2, FS_Subset
<1>4. Cardinality(process_set[d]) \in Nat /\ Cardinality(process_set'[d]) \in Nat
  BY <1>2, <1>3, FS_CardinalityType
<1> QED
  BY <1>1, <1>3, <1>4 DEF Has_process

(* A job could start a task as long as its state stays, and no task is     *)
(* started.                                                                *)
LEMMA Could_still_start ==
  ASSUME NEW j \in Jobs, Could_start(j), job_state'[j] = job_state[j],
         \A t \in Tasks : Job_of[t] = j /\ task_state[t] = "none" => task_state'[t] = "none"
  PROVE  Could_start(j)'
<1>1. Tasks_of(j)' \subseteq Tasks_of(j) /\ Free_tasks(j) \subseteq Free_tasks(j)'
  BY DEF Tasks_of, Free_tasks
<1>2. IsFiniteSet(Tasks_of(j))
  BY ProcessClassesAssumption, FS_Subset DEF Tasks_of
<1>3. IsFiniteSet(Tasks_of(j)') /\ Cardinality(Tasks_of(j)') <= Cardinality(Tasks_of(j))
  BY <1>1, <1>2, FS_Subset
<1>4. Cardinality(Tasks_of(j)) \in Nat /\ Cardinality(Tasks_of(j)') \in Nat /\ Max_tasks[j] \in Nat
  BY <1>2, <1>3, FS_CardinalityType, ProcessClassesAssumption
<1>5. Cardinality(Tasks_of(j)) < Max_tasks[j] => Cardinality(Tasks_of(j)') < Max_tasks[j]
  BY <1>3, <1>4
<1> QED
  BY <1>1, <1>5 DEF Could_start

(* A step that leaves the lists alone.                                     *)
LEMMA Same_lists ==
  ASSUME IInv, Wake_inv, known \subseteq known',
         UNCHANGED <<requestor_list, waiting_for_process>>,
         \A j \in Jobs : waiting_for_process[j] => job_state'[j] = job_state[j],
         \A t \in Tasks : task_state[t] = "none" => task_state'[t] = "none",
         First_is_told'
  PROVE  Wake_inv'
<1>1. Known_classes \subseteq known'
  BY DEF Wake_inv
<1>2. Waiting_right'
  <2> SUFFICES ASSUME NEW j \in Jobs, waiting_for_process[j]
               PROVE  j \in Elements(requestor_list[Job_class[j]]) /\ Could_start(j)'
    BY DEF Waiting_right
  <2>1. j \in Elements(requestor_list[Job_class[j]]) /\ Could_start(j)
    BY DEF Wake_inv, Waiting_right
  <2> QED BY <2>1, Could_still_start
<1>3. Lists_apart'
  BY DEF Wake_inv, Lists_apart
<1> QED
  BY <1>1, <1>2, <1>3 DEF Wake_inv

(* A step that leaves the lists alone, makes no room and takes no call     *)
(* that a first requestor needs.                                           *)
LEMMA Still_told ==
  ASSUME IInv, Wake_inv, turn = Nobody, requestor_list' = requestor_list,
         \A d \in Classes : requestor_list[d] # <<>> /\ Has_process(d)' =>
            \/ /\ Has_process(d)
               /\ <<"process_available", requestor_list[d][1]>> \in calls =>
                    \/ <<"process_available", requestor_list[d][1]>> \in calls'
                    \/ turn' = requestor_list[d][1] /\ turn' \in Jobs
            \/ Is_told(requestor_list[d][1])',
         \A j \in Jobs : try_again[j] => try_again'[j]
  PROVE  First_is_told'
<1> SUFFICES ASSUME NEW d \in Classes, Has_process(d)', requestor_list[d] # <<>>
             PROVE  Is_told(requestor_list[d][1])'
  BY DEF First_is_told
<1> DEFINE r == requestor_list[d][1]
<1>1. CASE Is_told(r)'
  BY <1>1
<1>2. CASE /\ Has_process(d)
           /\ <<"process_available", r>> \in calls =>
                <<"process_available", r>> \in calls' \/ (turn' = r /\ turn' \in Jobs)
  <2>1. Is_told(r)
    BY <1>2 DEF Wake_inv, First_is_told
  <2>2. <<"process_available", r>> \in calls /\ (r \in Jobs => try_again[r])
    BY <2>1, ProcessClassesAssumption DEF Is_told
  <2>3. r \in Jobs => try_again'[r]
    BY <2>2
  <2> QED BY <1>2, <2>2, <2>3 DEF Is_told
<1> QED
  BY <1>1, <1>2

(* Who is notified is told.                                                *)
LEMMA Notified_are_told ==
  ASSUME NEW R, NEW r \in R, Process_calls(R) \subseteq calls', r \in Jobs => try_again'[r]
  PROVE  Is_told(r)'
BY DEF Process_calls, Is_told

(* The withdrawal of a job, that is in its turn or stopped, leaves no      *)
(* first requestor untold.                                                 *)
LEMMA Withdrawal_tells ==
  ASSUME IInv, Wake_inv, NEW j \in Jobs, turn \in {j, Nobody}, Flags_without(j),
         Process_calls(Notified_without(j)) \subseteq calls',
         \A d \in Classes : requestor_list[d] # <<>> => LET r == requestor_list[d][1]
           IN r # j /\ <<"process_available", r>> \in calls => <<"process_available", r>> \in calls',
         NEW d \in Classes, Has_process(d), Lists_without(j)[d] # <<>>,
         NEW first, first = Lists_without(j)[d][1]
  PROVE  Is_told(first)'
<1> DEFINE c == Job_class[j]
<1>1. /\ requestor_list \in [Classes -> Seq(Requestors)] /\ c \in Classes
      /\ try_again \in [Jobs -> BOOLEAN] /\ Nobody \notin Jobs
  BY ProcessClassesAssumption DEF IInv, Lists_right, Job_types
<1>2. /\ Lists_without(j)[c] = Without(requestor_list[c], j)
      /\ d # c => Lists_without(j)[d] = requestor_list[d]
  BY <1>1 DEF Lists_without
<1>3. \A i \in Jobs : i # j /\ (try_again[i] \/ i \in Notified_without(j)) => try_again'[i]
  BY DEF Flags_without, Notified
<1>4. ASSUME requestor_list[d] # <<>>, requestor_list[d][1] = first, first # j
      PROVE  Is_told(first)'
  <2>1. Is_told(first)
    BY <1>4 DEF Wake_inv, First_is_told
  <2>2. <<"process_available", first>> \in calls /\ (first \in Jobs => try_again[first])
    BY <1>1, <1>4, <2>1 DEF Is_told
  <2>3. <<"process_available", first>> \in calls'
    BY <1>4, <2>2
  <2>4. first \in Jobs => try_again'[first]
    BY <1>3, <1>4, <2>2
  <2> QED BY <2>3, <2>4 DEF Is_told
<1>5. CASE d # c
  <2>1. requestor_list[d] # <<>> /\ requestor_list[d][1] = first
    BY <1>2, <1>5
  <2>2. first # j
    BY <1>5, <2>1, First_waits
  <2> QED BY <1>4, <2>1, <2>2
<1>6. CASE d = c
  <2> DEFINE list == requestor_list[c]
             rest == Without(list, j)
  <2>1. rest[1] = first /\ rest # <<>>
    BY <1>2, <1>6
  <2>2. /\ rest[1] \in Requestors /\ rest[1] # j
        /\ (list # <<>> /\ list[1] = rest[1]) \/ Notified_by_removal(list, j) = {rest[1]}
    BY <1>1, <2>1, Next_is_notified DEF Wake_inv
  <2> HIDE DEF rest
  <2>3. CASE list # <<>> /\ list[1] = rest[1]
    BY <1>4, <1>6, <2>1, <2>2, <2>3
  <2>4. CASE Notified_by_removal(list, j) = {rest[1]}
    <3>1. first \in Notified_without(j)
      BY <2>1, <2>4 DEF Notified_without
    <3>2. first \in Jobs => try_again'[first]
      BY <1>3, <2>1, <2>2, <3>1
    <3> QED BY <3>1, <3>2 DEF Is_told, Process_calls
  <2> QED BY <2>2, <2>3, <2>4
<1> QED
  BY <1>5, <1>6

-----------------------------------------------------------------------------
(* No step leaves the first requestor of a list untold.                    *)

LEMMA Set_max_processes_wakes ==
  ASSUME IInv, Wake_inv, NEW c \in Classes, NEW n \in Limits[c], set_max_processes(c, n)
  PROVE  Wake_inv'
<1> DEFINE R == IF c \in known THEN waiting_requestor(requestor_list[c]) ELSE {}
<1>1. /\ turn = Nobody /\ max_processes' = [max_processes EXCEPT ![c] = n]
      /\ calls' = calls \cup Process_calls(R) /\ try_again' = Notified(R, try_again)
      /\ UNCHANGED <<known, process_set, requestor_list, job_state,
                     waiting_for_process, task_state, turn>>
  BY DEF set_max_processes, task_vars
<1>2. \A i \in Jobs : try_again[i] \/ i \in R => try_again'[i]
  BY <1>1 DEF Notified
<1>3. ASSUME NEW d \in Classes, requestor_list[d] # <<>>, Has_process(d)'
      PROVE  \/ Has_process(d)
             \/ Is_told(requestor_list[d][1])'
  <2>1. CASE d = c
    <3>1. requestor_list[d][1] \in R
      BY <1>1, <1>3, <2>1, First_is_notified DEF Wake_inv, Has_process
    <3> QED BY <1>1, <1>2, <3>1, Notified_are_told
  <2>2. CASE d # c
    <3>1. max_processes'[d] = max_processes[d]
      BY <1>1, <2>2 DEF IInv, Class_types
    <3> QED BY <1>1, <1>3, <3>1 DEF Has_process
  <2> QED BY <2>1, <2>2
<1> HIDE DEF R
<1>4. First_is_told'
  BY <1>1, <1>2, <1>3, Still_told
<1> QED
  BY <1>1, <1>4, Same_lists

(* Steps that only add calls, or take none of a first requestor.           *)
LEMMA Other_step_wakes ==
  ASSUME IInv, IInv', Wake_inv, turn = Nobody, known \subseteq known',
         \A d \in Classes : d \notin known => requestor_list[d] = <<>>,
         UNCHANGED <<max_processes, process_set, requestor_list, job_state, waiting_for_process>>,
         \A d \in Classes : requestor_list[d] # <<>> => LET r == requestor_list[d][1]
           IN <<"process_available", r>> \in calls =>
                <<"process_available", r>> \in calls' \/ (turn' = r /\ turn' \in Jobs),
         \A j \in Jobs : try_again[j] => try_again'[j],
         \A t \in Tasks : task_state[t] = "none" => task_state'[t] = "none"
  PROVE  Wake_inv'
<1>1. \A d \in Classes : requestor_list[d] # <<>> /\ Has_process(d)' => Has_process(d)
  BY DEF Has_process
<1>2. First_is_told'
  BY <1>1, Still_told
<1> QED
  BY <1>2, Same_lists

LEMMA On_requisite_loaded_wakes ==
  ASSUME IInv, IInv', Wake_inv, NEW c \in Classes, on_requisite_loaded(c)
  PROVE  Wake_inv'
<1> DEFINE R == {j \in Jobs : Job_class[j] = c /\ waiting_for_process[j]}
<1>1. /\ turn = Nobody /\ known' = known \cup {c}
      /\ calls' = calls \cup Process_calls(R) /\ try_again' = Notified(R, try_again)
      /\ UNCHANGED <<max_processes, process_set, requestor_list, job_state,
                     waiting_for_process, task_state, turn>>
  BY DEF on_requisite_loaded, task_vars
<1> HIDE DEF R
<1>2. \A i \in Jobs : try_again[i] => try_again'[i]
  BY <1>1 DEF Notified
<1> QED
  BY <1>1, <1>2, Other_step_wakes DEF Wake_inv, Lists_apart

LEMMA Add_order_wakes ==
  ASSUME IInv, IInv', Wake_inv, NEW j \in Jobs, Add_order(j)
  PROVE  Wake_inv'
<1>1. /\ turn = Nobody /\ calls \subseteq calls'
      /\ UNCHANGED <<known, max_processes, process_set, requestor_list, job_state,
                     waiting_for_process, try_again, task_state>>
  BY DEF Add_order, class_vars, task_vars
<1> QED
  BY <1>1, Other_step_wakes DEF Wake_inv, Lists_apart

LEMMA Process_orders_wakes ==
  ASSUME IInv, IInv', Wake_inv, NEW j \in Jobs, process_orders(j)
  PROVE  Wake_inv'
<1>1. /\ turn = Nobody /\ calls' = calls \ {<<"order_possibly_available", j>>}
      /\ UNCHANGED <<known, max_processes, process_set, requestor_list, job_state,
                     waiting_for_process, try_again>>
  BY DEF process_orders, class_vars
<1>2. \A t \in Tasks : task_state[t] = "none" => task_state'[t] = "none"
  BY DEF process_orders
<1>3. \A r : <<"process_available", r>> \in calls => <<"process_available", r>> \in calls'
  BY <1>1
<1> QED
  BY <1>1, <1>2, <1>3, Other_step_wakes DEF Wake_inv, Lists_apart

LEMMA On_job_call_wakes ==
  ASSUME IInv, IInv', Wake_inv, NEW j \in Jobs, NEW name, On_job_call(j, name)
  PROVE  Wake_inv'
<1>1. /\ turn = Nobody /\ calls' = calls \ {<<name, j>>} /\ turn' = j
      /\ UNCHANGED <<known, max_processes, process_set, requestor_list, job_state,
                     waiting_for_process, try_again, task_state>>
  BY DEF On_job_call, class_vars, job_vars, task_vars
<1>2. \A r : <<"process_available", r>> \in calls =>
               <<"process_available", r>> \in calls' \/ (turn' = r /\ turn' \in Jobs)
  BY <1>1
<1> QED
  BY <1>1, <1>2, Other_step_wakes DEF Wake_inv, Lists_apart

LEMMA Step_completed_wakes ==
  ASSUME IInv, IInv', Wake_inv, NEW t \in Tasks, Step_completed(t)
  PROVE  Wake_inv'
<1>1. /\ turn = Nobody /\ task_state[t] = "running" /\ calls \subseteq calls'
      /\ UNCHANGED <<known, max_processes, process_set, requestor_list, job_state,
                     waiting_for_process, try_again>>
  BY DEF Step_completed, class_vars
<1>2. \A u \in Tasks : task_state[u] = "none" => task_state'[u] = "none"
  BY <1>1 DEF Step_completed, IInv, Task_types
<1> QED
  BY <1>1, <1>2, Other_step_wakes DEF Wake_inv, Lists_apart

LEMMA Idle_timeout_wakes ==
  ASSUME IInv, IInv', Wake_inv, NEW t \in Tasks, Idle_timeout(t)
  PROVE  Wake_inv'
<1>1. /\ turn = Nobody /\ task_state[t] = "idle" /\ task_state' = [task_state EXCEPT ![t] = "ending"]
      /\ UNCHANGED <<known, max_processes, process_set, requestor_list, job_state,
                     waiting_for_process, try_again, calls>>
  BY DEF Idle_timeout, class_vars, job_vars
<1>2. \A u \in Tasks : task_state[u] = "none" => task_state'[u] = "none"
  BY <1>1 DEF IInv, Task_types
<1> QED
  BY <1>1, <1>2, Other_step_wakes DEF Wake_inv, Lists_apart

LEMMA Cmd_end_wakes ==
  ASSUME IInv, IInv', Wake_inv, NEW t \in Tasks, cmd_end(t)
  PROVE  Wake_inv'
<1>1. /\ turn = Nobody /\ calls \subseteq calls'
      /\ UNCHANGED <<known, max_processes, process_set, requestor_list, job_state,
                     waiting_for_process, try_again, task_state>>
  BY DEF cmd_end, class_vars, job_vars
<1> QED
  BY <1>1, Other_step_wakes DEF Wake_inv, Lists_apart

LEMMA Task_ends_wakes ==
  ASSUME IInv, Wake_inv, NEW t \in Tasks, Task_ends(t)
  PROVE  Wake_inv'
<1> DEFINE c == Class_of(t)
           R == Notified_by_end(c)
<1>1. /\ turn = Nobody /\ task_state[t] = "ending"
      /\ process_set' = [process_set EXCEPT ![c] = @ \ {t}]
      /\ task_state' = [task_state EXCEPT ![t] = "closed"]
      /\ calls' = calls \cup Process_calls(R) \cup {<<"task_closed", t>>}
      /\ try_again' = Notified(R, try_again)
      /\ UNCHANGED <<known, max_processes, requestor_list, job_state, waiting_for_process, turn>>
  BY DEF Task_ends
<1>2. \A i \in Jobs : try_again[i] \/ i \in R => try_again'[i]
  BY <1>1 DEF Notified
<1>3. ASSUME NEW d \in Classes, requestor_list[d] # <<>>, Has_process(d)'
      PROVE  \/ Has_process(d)
             \/ Is_told(requestor_list[d][1])'
  <2>1. CASE d = c
    <3>1. requestor_list[d][1] \in R
      BY <1>1, <1>3, <2>1, First_is_notified DEF Wake_inv, Has_process, Notified_by_end
    <3>2. Process_calls(R) \subseteq calls' /\ requestor_list' = requestor_list
      BY <1>1
    <3> HIDE DEF R
    <3> QED BY <1>2, <3>1, <3>2, Notified_are_told
  <2>2. CASE d # c
    <3>1. process_set'[d] = process_set[d]
      BY <1>1, <2>2 DEF IInv, Class_types
    <3> QED BY <1>1, <1>3, <3>1 DEF Has_process
  <2> QED BY <2>1, <2>2
<1>4. \A u \in Tasks : task_state[u] = "none" => task_state'[u] = "none"
  BY <1>1 DEF IInv, Task_types
<1> HIDE DEF R
<1>5. First_is_told'
  BY <1>1, <1>2, <1>3, Still_told
<1> QED
  BY <1>1, <1>4, <1>5, Same_lists

(* The lists without j.                                                    *)
LEMMA Lists_withdrawn ==
  ASSUME IInv, NEW j \in Jobs, NEW d \in Classes
  PROVE  /\ Elements(Lists_without(j)[d]) = Elements(requestor_list[d]) \ {j}
         /\ requestor_list[d] = <<>> => Lists_without(j)[d] = <<>>
<1> DEFINE c == Job_class[j]
<1>1. /\ requestor_list \in [Classes -> Seq(Requestors)] /\ c \in Classes
      /\ \A e \in Classes : List_right(e, requestor_list[e], waiting_for_process, task_state)
  BY ProcessClassesAssumption DEF IInv, Lists_right
<1>2. CASE d = c
  <2>1. Lists_without(j)[d] = Without(requestor_list[d], j)
    BY <1>1, <1>2 DEF Lists_without
  <2>2. requestor_list[d] \in Seq(Requestors) /\ Is_distinct(requestor_list[d])
    BY <1>1 DEF List_right
  <2>3. requestor_list[d] = <<>> => j \notin Elements(requestor_list[d])
    BY <2>2, Positions DEF Elements
  <2> QED BY <2>1, <2>2, <2>3, Removed
<1>3. CASE d # c
  <2>1. Lists_without(j)[d] = requestor_list[d]
    BY <1>1, <1>3 DEF Lists_without
  <2>2. j \notin Elements(requestor_list[d])
    BY <1>1, <1>3 DEF List_right
  <2> QED BY <2>1, <2>2
<1> QED
  BY <1>2, <1>3

(* The others wait as before.                                              *)
LEMMA Withdrawal_keeps_others ==
  ASSUME IInv, Wake_inv, NEW j \in Jobs, Flags_without(j),
         \A i \in Jobs \ {j} : job_state'[i] = job_state[i],
         \A t \in Tasks : Job_of[t] # j /\ task_state[t] = "none" => task_state'[t] = "none",
         \A d \in Classes : Elements(Lists_without(j)[d]) \subseteq Elements(requestor_list'[d])
  PROVE  Waiting_right'
<1> SUFFICES ASSUME NEW i \in Jobs, waiting_for_process'[i]
             PROVE  i \in Elements(requestor_list'[Job_class[i]]) /\ Could_start(i)'
  BY DEF Waiting_right
<1>1. i # j /\ waiting_for_process[i]
  BY DEF Flags_without, IInv, Job_types
<1>2. i \in Elements(requestor_list[Job_class[i]]) /\ Could_start(i)
  BY <1>1 DEF Wake_inv, Waiting_right
<1>3. i \in Elements(requestor_list'[Job_class[i]])
  BY <1>1, <1>2, Lists_withdrawn, Classes_of
<1>4. Could_start(i)'
  BY <1>1, <1>2, Could_still_start
<1> QED
  BY <1>3, <1>4

LEMMA Withdrawal_wakes ==
  ASSUME IInv, Wake_inv, known' = known, NEW j \in Jobs, turn \in {j, Nobody},
         requestor_list' = Lists_without(j), Flags_without(j),
         \A d \in Classes : Has_process(d)' => Has_process(d),
         Process_calls(Notified_without(j)) \subseteq calls',
         \A d \in Classes : requestor_list[d] # <<>> => LET r == requestor_list[d][1]
           IN r # j /\ <<"process_available", r>> \in calls => <<"process_available", r>> \in calls',
         \A i \in Jobs \ {j} : job_state'[i] = job_state[i],
         \A t \in Tasks : Job_of[t] # j /\ task_state[t] = "none" => task_state'[t] = "none"
  PROVE  Wake_inv'
<1>1. Waiting_right'
  BY Withdrawal_keeps_others
<1>2. Lists_apart'
  BY Lists_withdrawn DEF Wake_inv, Lists_apart
<1>3. First_is_told'
  <2> SUFFICES ASSUME NEW d \in Classes, Has_process(d)', requestor_list'[d] # <<>>,
                      NEW first, first = requestor_list'[d][1]
               PROVE  Is_told(first)'
    BY DEF First_is_told
  <2> QED BY Withdrawal_tells
<1> QED
  BY <1>1, <1>2, <1>3 DEF Wake_inv

LEMMA Order_fails_wakes ==
  ASSUME IInv, IInv', Wake_inv, NEW j \in Jobs, Order_fails(j)
  PROVE  Wake_inv'
<1>1. /\ turn = j /\ requestor_list' = Lists_without(j) /\ Flags_without(j)
      /\ calls' = calls \cup Process_calls(Notified_without(j))
      /\ UNCHANGED <<known, max_processes, process_set, job_state, task_state>>
  BY DEF Order_fails, task_vars
<1>2. \A d \in Classes : Has_process(d)' => Has_process(d)
  BY <1>1, No_more_room
<1> QED
  BY <1>1, <1>2, Withdrawal_wakes

LEMMA Start_nothing_wakes ==
  ASSUME IInv, IInv', Wake_inv, NEW j \in Jobs, Start_nothing(j)
  PROVE  Wake_inv'
<1>1. turn = j /\ UNCHANGED <<known, max_processes, process_set, job_state, task_state>>
  BY DEF Start_nothing, task_vars
<1>2. \A d \in Classes : Has_process(d)' <=> Has_process(d)
  BY <1>1 DEF Has_process
<1>3. CASE /\ requestor_list' = Lists_without(j) /\ Flags_without(j)
           /\ calls' = calls \cup Process_calls(Notified_without(j))
  BY <1>1, <1>2, <1>3, Withdrawal_wakes
<1>4. CASE /\ ~(May_start_task(j) /\ waiting_for_process[j] /\ process_available(Job_class[j], j))
           /\ UNCHANGED <<requestor_list, waiting_for_process, try_again, calls>>
  <2>1. First_is_told'
    <3> SUFFICES ASSUME NEW d \in Classes, Has_process(d), requestor_list[d] # <<>>,
                        NEW first, first = requestor_list[d][1]
                 PROVE  Is_told(first)'
      BY <1>2, <1>4 DEF First_is_told
    <3>1. Is_told(first)
      BY DEF Wake_inv, First_is_told
    <3>2. CASE turn # first
      BY <1>4, <3>1, <3>2 DEF Is_told
    <3>3. CASE turn = first
      <4>1. Job_class[j] = d /\ waiting_for_process[j] /\ try_again[j]
        BY <1>1, <3>1, <3>3, First_waits DEF Is_told
      <4>2. May_start_task(j)
        BY <4>1 DEF Wake_inv, Waiting_right, Could_start, May_start_task
      <4>3. process_available(d, j)
        <5>1. requestor_list[d] \in Seq(Requestors)
          BY DEF IInv, Lists_right
        <5>2. Head(requestor_list[d]) = j
          BY <1>1, <3>3, <5>1, Positions
        <5> QED BY <5>2 DEF process_available
      <4> QED BY <1>4, <4>1, <4>2, <4>3
    <3> QED BY <3>2, <3>3
  <2> QED BY <1>1, <1>4, <2>1, Same_lists
<1> QED
  BY <1>3, <1>4 DEF Start_nothing

LEMMA Wait_for_process_wakes ==
  ASSUME Classes_are_apart, IInv, IInv', Wake_inv, NEW j \in Jobs, Wait_for_process(j)
  PROVE  Wake_inv'
<1> DEFINE c == Job_class[j]
<1>1. /\ turn = j /\ May_start_task(j) /\ ~process_available(c, j) /\ calls \subseteq calls'
      /\ waiting_for_process' = [waiting_for_process EXCEPT ![j] = TRUE]
      /\ UNCHANGED <<known, max_processes, process_set, job_state, task_state>>
  BY DEF Wait_for_process
<1>2. c \in known /\ c \in Classes /\ j \in Requestors /\ j \notin Tasks
  BY ProcessClassesAssumption, Classes_of DEF Classes_are_apart, Wake_inv
<1>3. /\ requestor_list' = IF ~waiting_for_process[j]
                             THEN [requestor_list EXCEPT ![c] = Append(@, j)] ELSE requestor_list
      /\ try_again' = [try_again EXCEPT ![j] = FALSE]
  BY <1>2 DEF Wait_for_process
<1>4. /\ waiting_for_process \in [Jobs -> BOOLEAN] /\ try_again \in [Jobs -> BOOLEAN]
      /\ requestor_list \in [Classes -> Seq(Requestors)]
      /\ Lists_right(requestor_list, waiting_for_process, task_state)
  BY DEF IInv, Job_types, Lists_right
<1>5. \A d \in Classes \ {c} : requestor_list'[d] = requestor_list[d]
  BY <1>3, <1>4
<1>6. /\ Elements(requestor_list'[c]) = Elements(requestor_list[c]) \cup {j}
      /\ requestor_list[c] # <<>> => requestor_list'[c][1] = requestor_list[c][1]
  <2>1. CASE ~waiting_for_process[j]
    <3>1. requestor_list[c] \in Seq(Requestors) /\ Is_distinct(requestor_list[c])
      BY <1>2 DEF IInv, Lists_right, List_right
    <3>2. j \notin Elements(requestor_list[c])
      BY <1>4, <2>1, Job_entered
    <3>3. requestor_list'[c] = Append(requestor_list[c], j)
      BY <1>2, <1>3, <1>4, <2>1
    <3> QED BY <1>2, <3>1, <3>2, <3>3, Appended
  <2>2. CASE waiting_for_process[j]
    <3>1. j \in Elements(requestor_list[c])
      BY <2>2 DEF Wake_inv, Waiting_right
    <3> QED BY <1>3, <2>2, <3>1
  <2> QED BY <2>1, <2>2
<1>7. Waiting_right'
  <2> SUFFICES ASSUME NEW i \in Jobs, waiting_for_process'[i]
               PROVE  i \in Elements(requestor_list'[Job_class[i]]) /\ Could_start(i)'
    BY DEF Waiting_right
  <2>1. CASE i = j
    <3>1. Could_start(j)
      BY <1>1 DEF May_start_task, Could_start
    <3> QED BY <1>1, <1>6, <2>1, <3>1, Could_still_start
  <2>2. CASE i # j
    <3>1. i \in Elements(requestor_list[Job_class[i]]) /\ Could_start(i)
      BY <1>1, <1>4, <2>2 DEF Wake_inv, Waiting_right
    <3>2. i \in Elements(requestor_list'[Job_class[i]])
      BY <1>5, <1>6, <3>1, Classes_of
    <3> QED BY <1>1, <3>1, <3>2, Could_still_start
  <2> QED BY <2>1, <2>2
<1>8. Lists_apart'
  <2> SUFFICES ASSUME NEW d \in Classes
               PROVE  /\ \A t \in Tasks : t \in Elements(requestor_list'[d]) => \A i \in Jobs : Job_class[i] # d
                      /\ d \notin known => requestor_list'[d] = <<>>
    BY <1>1 DEF Lists_apart
  <2> QED BY <1>2, <1>5, <1>6 DEF Wake_inv, Lists_apart
<1>9. First_is_told'
  <2> SUFFICES ASSUME NEW d \in Classes, Has_process(d)', requestor_list'[d] # <<>>,
                      NEW first, first = requestor_list'[d][1]
               PROVE  Is_told(first)'
    BY DEF First_is_told
  <2>1. Has_process(d)
    BY <1>1 DEF Has_process
  <2>2. requestor_list[d] # <<>> /\ first = requestor_list[d][1] /\ first # j
    <3>1. CASE d = c
      <4>1. requestor_list[c] # <<>> /\ Head(requestor_list[c]) # j
        BY <1>1, <2>1, <3>1 DEF process_available
      <4>2. Head(requestor_list[c]) = requestor_list[c][1]
        BY <1>2, <1>4, <4>1, Positions
      <4> QED BY <1>6, <3>1, <4>1, <4>2
    <3>2. CASE d # c
      BY <1>5, <3>2, First_waits
    <3> QED BY <3>1, <3>2
  <2>3. <<"process_available", first>> \in calls /\ (first \in Jobs => try_again[first])
    <3>1. Is_told(first)
      BY <2>1, <2>2 DEF Wake_inv, First_is_told
    <3> QED BY <1>1, <2>2, <3>1 DEF Is_told
  <2>4. first \in Jobs => try_again'[first]
    BY <1>3, <1>4, <2>2, <2>3
  <2> QED BY <1>1, <2>3, <2>4 DEF Is_told
<1> QED
  BY <1>1, <1>7, <1>8, <1>9 DEF Wake_inv

LEMMA Start_task_wakes ==
  ASSUME Classes_are_apart, IInv, IInv', Wake_inv, NEW j \in Jobs, NEW t \in Tasks, Start_task(j, t)
  PROVE  Wake_inv'
<1> DEFINE k == Class_of(t)
           withdrawal_calls == Process_calls(Notified_without(j))
<1>1. /\ turn = j /\ t \in Free_tasks(j) /\ k \in known /\ Flags_without(j)
      /\ job_state' = [job_state EXCEPT ![j] = "running"]
      /\ Has_process(Job_class[j]) /\ UNCHANGED <<known, max_processes>>
  BY DEF Start_task, process_available, Free_tasks, Class_of
<1>2. k \in Classes /\ Job_of[t] = j
  BY <1>1, Classes_of DEF Free_tasks
<1>3. \A i \in Jobs \ {j} : job_state'[i] = job_state[i]
  BY <1>1 DEF IInv, Job_types
<1>4. CASE /\ Gets_process(t) /\ requestor_list' = Lists_without(j)
           /\ calls' = calls \cup withdrawal_calls
  <2>1. /\ process_set' = [process_set EXCEPT ![k] = @ \cup {t}]
        /\ task_state' = [task_state EXCEPT ![t] = "running"]
    BY <1>4 DEF Gets_process
  <2>2. \A d \in Classes : process_set[d] \subseteq process_set'[d]
    BY <2>1 DEF IInv, Class_types
  <2>3. \A d \in Classes : Has_process(d)' => Has_process(d)
    BY <1>1, <2>2, No_more_room
  <2>4. \A u \in Tasks : Job_of[u] # j /\ task_state[u] = "none" => task_state'[u] = "none"
    BY <1>2, <2>1 DEF IInv, Task_types
  <2>5. withdrawal_calls \subseteq calls' /\ calls \subseteq calls'
    BY <1>4
  <2> HIDE DEF withdrawal_calls
  <2> QED BY <1>1, <1>3, <1>4, <2>3, <2>4, <2>5, Withdrawal_wakes DEF withdrawal_calls
<1>5. CASE Waits_for_process(t, Lists_without(j), withdrawal_calls)
  <2>1. /\ ~Has_process(k) /\ requestor_list' = [Lists_without(j) EXCEPT ![k] = Append(@, t)]
        /\ task_state' = [task_state EXCEPT ![t] = "waiting_for_process"]
        /\ process_set' = process_set /\ calls \cup withdrawal_calls \subseteq calls'
    BY <1>5 DEF Waits_for_process
  <2>2. \A d \in Classes : Has_process(d)' <=> Has_process(d)
    BY <1>1, <2>1 DEF Has_process
  <2>3. \A u \in Tasks : Job_of[u] # j /\ task_state[u] = "none" => task_state'[u] = "none"
    BY <1>2, <2>1 DEF IInv, Task_types
  <2>4. \A i \in Jobs : Job_class[i] # k
    <3>1. k = Task_class[j] /\ Job_class[j] # k
      BY <1>1, <1>2, <2>1 DEF Class_of
    <3> QED BY <3>1 DEF Classes_are_apart
  <2>5. /\ Lists_without(j) \in [Classes -> Seq(Requestors)]
        /\ Lists_without(j)[k] \in Seq(Requestors) /\ Is_distinct(Lists_without(j)[k])
        /\ t \notin Elements(Lists_without(j)[k]) /\ t \in Requestors
    <3>1. Lists_right(Lists_without(j), waiting_for_process', task_state)
      BY <1>1, Withdrawal
    <3>2. task_state[t] = "none"
      BY <1>1 DEF Free_tasks
    <3> QED BY <1>2, <3>1, <3>2, Classes_of DEF Lists_right, List_right
  <2>6. /\ \A d \in Classes \ {k} : requestor_list'[d] = Lists_without(j)[d]
        /\ Elements(requestor_list'[k]) = Elements(Lists_without(j)[k]) \cup {t}
    <3>1. /\ requestor_list'[k] = Append(Lists_without(j)[k], t)
          /\ \A d \in Classes \ {k} : requestor_list'[d] = Lists_without(j)[d]
      BY <1>2, <2>1, <2>5
    <3> QED BY <2>5, <3>1, Appended
  <2>7. Waiting_right'
    <3>1. \A d \in Classes : Elements(Lists_without(j)[d]) \subseteq Elements(requestor_list'[d])
      BY <2>6
    <3> QED BY <1>1, <1>3, <2>3, <3>1, Withdrawal_keeps_others
  <2>8. Lists_apart'
    <3> SUFFICES ASSUME NEW d \in Classes
                 PROVE  /\ \A u \in Tasks : u \in Elements(requestor_list'[d]) => \A i \in Jobs : Job_class[i] # d
                        /\ d \notin known => requestor_list'[d] = <<>>
      BY <1>1 DEF Lists_apart
    <3> QED BY <1>1, <2>4, <2>6, Lists_withdrawn DEF Wake_inv, Lists_apart
  <2>9. First_is_told'
    <3> SUFFICES ASSUME NEW d \in Classes, Has_process(d)', requestor_list'[d] # <<>>,
                        NEW first, first = requestor_list'[d][1]
                 PROVE  Is_told(first)'
      BY DEF First_is_told
    <3>1. Has_process(d) /\ requestor_list'[d] = Lists_without(j)[d]
      BY <2>1, <2>2, <2>6
    <3> QED BY <1>1, <2>1, <3>1, Withdrawal_tells
  <2> QED BY <1>1, <2>7, <2>8, <2>9 DEF Wake_inv
<1> QED
  BY <1>4, <1>5 DEF Start_task

(* set_state of a job, outside of its turn.                                *)
LEMMA Set_job_state_wakes ==
  ASSUME IInv, Wake_inv, NEW j \in Jobs, NEW state, NEW more_calls, Set_job_state(j, state, more_calls),
         turn = Nobody, UNCHANGED <<known, max_processes, process_set>>,
         \A d \in Classes : requestor_list[d] # <<>> => LET r == requestor_list[d][1]
           IN <<"process_available", r>> \in calls => <<"process_available", r>> \in more_calls,
         \A t \in Tasks : task_state[t] = "none" => task_state'[t] = "none"
  PROVE  Wake_inv'
<1>1. \A i \in Jobs : job_state'[i] = IF i = j THEN state ELSE job_state[i]
  BY DEF Set_job_state, IInv, Job_types
<1>2. \A d \in Classes : Has_process(d)' <=> Has_process(d)
  BY DEF Has_process
<1>3. CASE state # job_state[j] /\ waiting_for_process[j]
  <2>1. /\ requestor_list' = Lists_without(j) /\ Flags_without(j)
        /\ calls' = more_calls \cup Process_calls(Notified_without(j))
    BY <1>3 DEF Set_job_state
  <2> QED BY <1>1, <1>2, <2>1, Withdrawal_wakes
<1>4. CASE ~(state # job_state[j] /\ waiting_for_process[j])
  <2>1. calls' = more_calls /\ UNCHANGED <<requestor_list, waiting_for_process, try_again>>
    BY <1>4 DEF Set_job_state
  <2>2. First_is_told'
    BY <1>2, <2>1, Still_told
  <2>3. \A i \in Jobs : waiting_for_process[i] => job_state'[i] = job_state[i]
    BY <1>1, <1>4
  <2> QED BY <2>1, <2>2, <2>3, Same_lists
<1> QED
  BY <1>3, <1>4

LEMMA Stop_wakes ==
  ASSUME IInv, Wake_inv, NEW j \in Jobs, stop(j)
  PROVE  Wake_inv'
<1> DEFINE E == {t \in Tasks_of(j) : task_state[t] \in {"waiting_for_process", "running", "idle"} /\ ~end[t]}
           state == IF Tasks_of(j) = {} THEN "stopped" ELSE "stopping"
<1>1. /\ Set_job_state(j, state, calls \cup End_calls(E)) /\ turn = Nobody
      /\ UNCHANGED <<known, max_processes, process_set, task_state>>
  BY DEF stop
<1> HIDE DEF E, state
<1> QED
  BY <1>1, Set_job_state_wakes

LEMMA Unstop_wakes ==
  ASSUME IInv, Wake_inv, NEW j \in Jobs, unstop(j)
  PROVE  Wake_inv'
<1>1. /\ Set_job_state(j, "pending", calls) /\ turn = Nobody
      /\ UNCHANGED <<known, max_processes, process_set, task_state>>
  BY DEF unstop, task_vars
<1> QED
  BY <1>1, Set_job_state_wakes

LEMMA On_task_closed_wakes ==
  ASSUME IInv, Wake_inv, NEW t \in Tasks, On_task_closed(t)
  PROVE  Wake_inv'
<1> DEFINE others == {call \in calls : call[2] # t}
<1>1. PICK state, below : Set_job_state(Job_of[t], state, others \cup below)
  BY DEF On_task_closed
<1>2. /\ <<"task_closed", t>> \in calls /\ turn = Nobody
      /\ task_state' = [task_state EXCEPT ![t] = "none"]
      /\ UNCHANGED <<known, max_processes, process_set>>
  BY DEF On_task_closed
<1>3. Job_of[t] \in Jobs /\ task_state[t] = "closed" /\ task_state \in [Tasks -> Task_states]
  BY <1>2, Classes_of DEF IInv, Calls_right, Task_types
<1>4. \A d \in Classes : requestor_list[d] # <<>> => LET r == requestor_list[d][1]
        IN <<"process_available", r>> \in calls => <<"process_available", r>> \in others \cup below
  <2>1. \A d \in Classes : requestor_list[d] # <<>> => requestor_list[d][1] # t
    BY <1>3, First_waits
  <2> QED BY <2>1
<1>5. \A u \in Tasks : task_state[u] = "none" => task_state'[u] = "none"
  BY <1>2, <1>3
<1> HIDE DEF others
<1> QED
  BY <1>1, <1>2, <1>3, <1>4, <1>5, Set_job_state_wakes

(* A task that waits leaves the list.                                      *)
LEMMA Task_leaves_wakes ==
  ASSUME IInv, Wake_inv, NEW t \in Tasks, NEW name, task_state[t] = "waiting_for_process",
         requestor_list' = Lists_without_task(t),
         try_again' = Notified(Notified_by_removal(requestor_list[Class_of(t)], t), try_again),
         (calls \ {<<name, t>>}) \cup Process_calls(Notified_by_removal(requestor_list[Class_of(t)], t))
           \subseteq calls',
         turn = Nobody, UNCHANGED <<known, job_state, waiting_for_process>>,
         \A d \in Classes : Has_process(d)' => Has_process(d),
         \A u \in Tasks : task_state[u] = "none" => task_state'[u] = "none"
  PROVE  Wake_inv'
<1> DEFINE c == Class_of(t)
           R == Notified_by_removal(requestor_list[c], t)
<1>1. /\ requestor_list \in [Classes -> Seq(Requestors)] /\ c \in Classes /\ t \notin Jobs
      /\ \A d \in Classes : List_right(d, requestor_list[d], waiting_for_process, task_state)
  BY Classes_of DEF IInv, Lists_right
<1>2. \A d \in Classes : requestor_list'[d] = IF d = c THEN Without(requestor_list[c], t) ELSE requestor_list[d]
  BY <1>1 DEF Lists_without_task
<1>3. requestor_list[c] \in Seq(Requestors) /\ Is_distinct(requestor_list[c]) /\ t \in Elements(requestor_list[c])
  BY <1>1 DEF List_right
<1>4. Elements(requestor_list'[c]) = Elements(requestor_list[c]) \ {t}
  BY <1>1, <1>2, <1>3, Removed
<1>5. c \in known
  <2>1. requestor_list[c] # <<>>
    BY <1>3, Positions DEF Elements
  <2> QED BY <1>1, <2>1 DEF Wake_inv, Lists_apart
<1>6. Waiting_right'
  <2> SUFFICES ASSUME NEW i \in Jobs, waiting_for_process[i]
               PROVE  i \in Elements(requestor_list'[Job_class[i]]) /\ Could_start(i)'
    BY DEF Waiting_right
  <2>1. i \in Elements(requestor_list[Job_class[i]]) /\ Could_start(i)
    BY DEF Wake_inv, Waiting_right
  <2>2. i \in Elements(requestor_list'[Job_class[i]])
    BY <1>1, <1>2, <1>4, <2>1, Classes_of
  <2> QED BY <2>1, <2>2, Could_still_start
<1>7. Lists_apart'
  <2> SUFFICES ASSUME NEW d \in Classes
               PROVE  /\ \A u \in Tasks : u \in Elements(requestor_list'[d]) => \A i \in Jobs : Job_class[i] # d
                      /\ d \notin known => requestor_list'[d] = <<>>
    BY DEF Lists_apart
  <2> QED BY <1>2, <1>4, <1>5 DEF Wake_inv, Lists_apart
<1>8. First_is_told'
  <2> SUFFICES ASSUME NEW d \in Classes, Has_process(d)', requestor_list'[d] # <<>>,
                      NEW first, first = requestor_list'[d][1]
               PROVE  Is_told(first)'
    BY DEF First_is_told
  <2>1. \A i \in Jobs : try_again[i] \/ i \in R => try_again'[i]
    BY DEF Notified
  <2>2. ASSUME requestor_list[d] # <<>>, requestor_list[d][1] = first, first # t
        PROVE  Is_told(first)'
    <3>1. Is_told(first)
      BY <2>2 DEF Wake_inv, First_is_told
    <3>2. <<"process_available", first>> \in calls /\ (first \in Jobs => try_again[first])
      BY <3>1, ProcessClassesAssumption DEF Is_told
    <3>3. <<"process_available", first>> \in calls'
      BY <2>2, <3>2
    <3> QED BY <2>1, <3>2, <3>3 DEF Is_told
  <2>3. CASE d # c
    <3>1. requestor_list[d] # <<>> /\ requestor_list[d][1] = first
      BY <1>2, <2>3
    <3>2. first # t
      BY <2>3, <3>1, First_waits
    <3> QED BY <2>2, <3>1, <3>2
  <2>4. CASE d = c
    <3>1. Without(requestor_list[c], t) # <<>> /\ Without(requestor_list[c], t)[1] = first
      BY <1>1, <1>2, <2>4
    <3>2. /\ first # t
          /\ (requestor_list[c] # <<>> /\ requestor_list[c][1] = first) \/ R = {first}
      BY <1>1, <3>1, Next_is_notified DEF Wake_inv
    <3>3. CASE R = {first}
      BY <2>1, <3>3 DEF Is_told, Process_calls
    <3> QED BY <2>2, <2>4, <3>2, <3>3
  <2> QED BY <2>3, <2>4
<1> QED
  BY <1>6, <1>7, <1>8 DEF Wake_inv

LEMMA Do_something_wakes ==
  ASSUME IInv, IInv', Wake_inv, NEW t \in Tasks, NEW name, Do_something(t, name)
  PROVE  Wake_inv'
<1> DEFINE c == Class_of(t)
           R == Notified_by_removal(requestor_list[c], t)
           other_calls == calls \ {<<name, t>>}
<1>1. turn = Nobody /\ UNCHANGED <<known, max_processes, job_state, waiting_for_process, turn>>
  BY DEF Do_something
<1>2. task_state \in [Tasks -> Task_states]
  BY DEF IInv, Task_types
<1>3. CASE /\ task_state[t] = "waiting_for_process"
           /\ \/ task_state' = [task_state EXCEPT ![t] = "closed"] /\ UNCHANGED process_set
              \/ Gets_process(t)
           /\ requestor_list' = Lists_without_task(t) /\ try_again' = Notified(R, try_again)
           /\ other_calls \cup Process_calls(R) \subseteq calls'
  <2>1. \A u \in Tasks : task_state[u] = "none" => task_state'[u] = "none"
    BY <1>2, <1>3 DEF Gets_process
  <2>2. \A d \in Classes : process_set[d] \subseteq process_set'[d]
    BY <1>3 DEF Gets_process, IInv, Class_types
  <2>3. \A d \in Classes : Has_process(d)' => Has_process(d)
    BY <1>1, <2>2, No_more_room
  <2> QED BY <1>1, <1>3, <2>1, <2>3, Task_leaves_wakes
<1>4. CASE /\ \/ task_state[t] = "idle" /\ task_state' = [task_state EXCEPT ![t] = "ending"]
              \/ /\ \/ task_state[t] = "waiting_for_process" /\ ~Has_process(c)
                    \/ task_state[t] \in {"running", "ending", "closed"}
                 /\ UNCHANGED task_state
           /\ calls' = other_calls /\ UNCHANGED <<process_set, requestor_list, try_again>>
  <2>1. \A u \in Tasks : task_state[u] = "none" => task_state'[u] = "none"
    BY <1>2, <1>4
  <2>2. \A d \in Classes : Has_process(d)' <=> Has_process(d)
    BY <1>1, <1>4 DEF Has_process
  <2>3. \A d \in Classes : requestor_list[d] # <<>> /\ Has_process(d) => requestor_list[d][1] # t
    <3>1. \A d \in Classes : requestor_list[d] # <<>> /\ requestor_list[d][1] = t
                              => task_state[t] = "waiting_for_process" /\ c = d
      BY First_waits
    <3> QED BY <1>4, <3>1
  <2>4. First_is_told'
    BY <1>1, <1>4, <2>2, <2>3, Still_told
  <2> QED BY <1>1, <1>4, <2>1, <2>4, Same_lists
<1>5. \/ /\ task_state[t] = "waiting_for_process"
         /\ \/ task_state' = [task_state EXCEPT ![t] = "closed"] /\ UNCHANGED process_set
            \/ Gets_process(t)
         /\ requestor_list' = Lists_without_task(t) /\ try_again' = Notified(R, try_again)
         /\ other_calls \cup Process_calls(R) \subseteq calls'
      \/ /\ \/ task_state[t] = "idle" /\ task_state' = [task_state EXCEPT ![t] = "ending"]
            \/ /\ \/ task_state[t] = "waiting_for_process" /\ ~Has_process(c)
                  \/ task_state[t] \in {"running", "ending", "closed"}
               /\ UNCHANGED task_state
         /\ calls' = other_calls /\ UNCHANGED <<process_set, requestor_list, try_again>>
  BY DEF Do_something
<1> QED
  BY <1>3, <1>4, <1>5

LEMMA Init_wakes ==
  ASSUME Init PROVE Wake_inv
<1>1. \A c \in Classes : requestor_list[c] = <<>> /\ Elements(requestor_list[c]) = {}
  BY DEF Init, Elements
<1> QED
  BY <1>1 DEF Init, Wake_inv, Waiting_right, Lists_apart, First_is_told

LEMMA Stutter_wakes ==
  ASSUME Wake_inv, UNCHANGED vars PROVE Wake_inv'
<1>1. UNCHANGED <<known, max_processes, process_set, requestor_list, job_state, waiting_for_process,
                  try_again, task_state, calls, turn>>
  BY DEF vars, class_vars, job_vars, task_vars
<1>2. Waiting_right'
  BY <1>1 DEF Wake_inv, Waiting_right, Could_start, Tasks_of, Free_tasks
<1>3. Lists_apart'
  BY <1>1 DEF Wake_inv, Lists_apart
<1>4. First_is_told'
  BY <1>1 DEF Wake_inv, First_is_told, Is_told, Has_process
<1> QED
  BY <1>1, <1>2, <1>3, <1>4 DEF Wake_inv

LEMMA Next_wakes ==
  ASSUME Classes_are_apart, IInv, IInv', Wake_inv, [Next]_vars PROVE Wake_inv'
<1>1. ASSUME NEW j \in Jobs, try_start_one_task(j) PROVE Wake_inv'
  BY <1>1, Start_task_wakes, Order_fails_wakes, Wait_for_process_wakes, Start_nothing_wakes
     DEF try_start_one_task
<1>2. CASE Calls_of_main_thread
  BY <1>1, <1>2, Process_orders_wakes, On_job_call_wakes, Do_something_wakes, On_task_closed_wakes
     DEF Calls_of_main_thread
<1>3. ASSUME NEW j \in Jobs, Add_order(j) \/ stop(j) \/ unstop(j) PROVE Wake_inv'
  BY <1>3, Add_order_wakes, Stop_wakes, Unstop_wakes
<1>4. ASSUME NEW t \in Tasks, Step_completed(t) \/ Idle_timeout(t) \/ Task_ends(t) \/ cmd_end(t) PROVE Wake_inv'
  BY <1>4, Step_completed_wakes, Idle_timeout_wakes, Task_ends_wakes, Cmd_end_wakes
<1>5. ASSUME NEW c \in Classes, on_requisite_loaded(c) \/ \E n \in Limits[c] : set_max_processes(c, n)
      PROVE  Wake_inv'
  BY <1>5, On_requisite_loaded_wakes, Set_max_processes_wakes
<1> QED
  BY <1>2, <1>3, <1>4, <1>5, Stutter_wakes DEF Next

(* Whoever is the first of a list, while its class has a process, is going *)
(* to look for it: the notification is neither lost nor given away.        *)
THEOREM First_requestor_is_told ==
  ASSUME Classes_are_apart PROVE Spec => []First_is_told
<1>1. Wake_inv => First_is_told
  BY DEF Wake_inv
<1> QED
  BY <1>1, IInv_always, Init_wakes, Next_wakes, PTL DEF Spec

(* When the main thread has nothing to do, nobody waits for a process of a *)
(* class that has one.                                                     *)
THEOREM Nobody_waits_without_reason ==
  ASSUME Classes_are_apart PROVE Spec => []Waiting_only_without_process
<1>1. ASSUME IInv, Wake_inv PROVE Waiting_only_without_process
  <2> SUFFICES ASSUME Is_quiet, NEW c \in Classes, Has_process(c), NEW r \in Waits_for(c)
               PROVE  FALSE
    BY DEF Waiting_only_without_process
  <2>1. r \in Elements(requestor_list[c])
    BY <1>1 DEF Waits_for, IInv, Lists_right, List_right, Wake_inv, Waiting_right
  <2>2. requestor_list[c] # <<>>
    BY <2>1 DEF Elements
  <2>3. Is_told(requestor_list[c][1])
    BY <1>1, <2>2 DEF Wake_inv, First_is_told
  <2> QED BY <2>3, ProcessClassesAssumption DEF Is_told, Is_quiet
<1> QED
  BY <1>1, IInv_always, Init_wakes, Next_wakes, PTL DEF Spec
================================================================================

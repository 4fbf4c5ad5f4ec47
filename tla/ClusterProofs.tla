----------------------------- MODULE ClusterProofs -----------------------------
(***************************************************************************)
(* Proofs about Cluster for any set of members, any precedences and any    *)
(* periods and timeouts: type correctness, the integrity of the database,  *)
(* and that an exclusive member has the exclusive row.                     *)
(***************************************************************************)
EXTENDS Cluster, TLAPS

Views  == [Members -> [Members -> Ages \cup {Unseen}]]
Tables == [Members -> Rows \cup {No_row}]

-----------------------------------------------------------------------------
(* Types.                                                                  *)

(* The watchdog thread aborts before the other members see a dead member   *)
(* (subsystem_activate's check of the two timeouts).                       *)
LEMMA Abort_comes_first ==
  /\ Abort_age \in Nat /\ Dead_age \in Nat /\ Abort_age < Dead_age
  /\ 0 \in Ages /\ Dead_age \in Ages /\ Ages \subseteq Nat /\ Unseen \notin Ages
BY ClusterAssumption DEF Abort_age, Dead_age, Ages

(* The age of a time stamp grows up to Dead_age; that of an unseen         *)
(* heartbeat stays unseen.                                                 *)
LEMMA Older_type ==
  /\ Older(Unseen) = Unseen
  /\ \A age \in Ages : Older(age) \in Ages /\ age <= Older(age)
  /\ \A age, other \in Ages : age <= other => Older(age) <= Older(other)
  /\ Older(Dead_age) = Dead_age
BY ClusterAssumption, Abort_comes_first DEF Older, Ages

(* What is left when m has forgotten all heartbeats (its process has       *)
(* ended).                                                                 *)
LEMMA Forgotten_type ==
  ASSUME detected \in Views, NEW m \in Members
  PROVE  Forgotten(m) \in Views
BY DEF Views, Forgotten

(* ... and when all have to detect m's heartbeat again.                    *)
LEMMA Unseen_by_all_type ==
  ASSUME NEW views \in Views, NEW m \in Members
  PROVE  Unseen_by_all(m, views) \in Views
BY DEF Views, Unseen_by_all

(* check_schedulers_heart_beat yields an age, or nothing, for each member. *)
LEMMA Seen_type ==
  ASSUME detected \in Views, NEW m \in Members, NEW rows, NEW read
  PROVE  Seen(m, rows, read) \in [Members -> Ages \cup {Unseen}]
BY Abort_comes_first DEF Views, Seen

(* _exclusive_scheduler is a member with an exclusive row, the empty row   *)
(* when this is exclusive, or nobody.                                      *)
LEMMA Exclusive_scheduler_type ==
  ASSUME NEW read
  PROVE  /\ Exclusive_scheduler(read) \in Members \cup {Empty, Nobody}
         /\ Exclusive_scheduler(read) \in Members => Is_exclusive_row(Exclusive_scheduler(read))
BY ClusterAssumption DEF Exclusive_scheduler, Holder

(* A failed read is one of at most Max_faults.                             *)
LEMMA Reads_type ==
  ASSUME TypeOK, NEW read, Reads(read)
  PROVE  faults' \in 0 .. Max_faults
BY ClusterAssumption DEF Reads, TypeOK

(* The row that mark_as_inactive leaves behind is that of a dead member,   *)
(* or none.                                                                *)
LEMMA Rows_left_type ==
  ASSUME NEW m \in Members, NEW left \in Rows_left(m)
  PROVE  /\ left \in Rows \cup {No_row}
         /\ left # No_row => ~left.exclusive /\ ~left.active
BY DEF Rows_left, Dead_rows, Rows

(* mark_as_inactive keeps the types of the table, the empty row and the    *)
(* views.                                                                  *)
LEMMA mark_as_inactive_type ==
  ASSUME TypeOK, NEW m \in Members, NEW known \in BOOLEAN, NEW left \in Rows \cup {No_row},
         NEW continuation, mark_as_inactive(m, known, left, continuation)
  PROVE  row' \in Tables /\ empty_row' \in {"missing", "exclusive", "plain"} /\ detected' \in Views
<1>1. row \in Tables /\ detected \in Views
  BY DEF TypeOK, Tables, Views
<1>2. Forgotten(m) \in Views /\ Unseen_by_all(m, Forgotten(m)) \in Views
  BY <1>1, Forgotten_type, Unseen_by_all_type
<1> QED
  BY <1>1, <1>2 DEF mark_as_inactive, TypeOK, Tables

(* The end of a process keeps the types of its memory.                     *)
LEMMA Process_ends_type ==
  ASSUME TypeOK, NEW m \in Members, Process_ends(m),
         row' \in Tables, empty_row' \in {"missing", "exclusive", "plain"}, detected' \in Views
  PROVE  TypeOK'
BY Abort_comes_first DEF TypeOK, Process_ends, Places, Tables, Views

(* The transaction that takes the exclusiveness keeps the types of the     *)
(* table and of the history.                                               *)
LEMMA Takes_type ==
  ASSUME TypeOK, NEW m \in Members, Takes(m)
  PROVE  /\ row' \in Tables /\ empty_row' \in {"missing", "exclusive", "plain"}
         /\ deprived' \subseteq Members
<1> DEFINE taken == [row EXCEPT ![m].exclusive = TRUE, ![m].active = TRUE]
<1>1. row \in Tables /\ row[m] \in Rows
  BY DEF Takes, Target_is_unchanged, Has_row, TypeOK, Tables
<1>2. [[row[m] EXCEPT !.exclusive = TRUE] EXCEPT !.active = TRUE] \in Rows
  BY <1>1 DEF Rows
<1>3. taken \in Tables
  BY <1>1, <1>2 DEF Tables
<1>4. deprived' \subseteq Members
  BY DEF Takes, TypeOK
<1>5. CASE target[m] = Empty
  BY <1>3, <1>4, <1>5 DEF Takes, Exclusive_rows
<1>6. CASE target[m] # Empty
  <2>1. target[m] \in Members => taken[target[m]] \in Rows
    BY <1>1, <1>2, <1>6 DEF Takes, Target_is_unchanged, Is_exclusive_row, Has_row, Tables
  <2>2. target[m] \in Members =>
          [[taken[target[m]] EXCEPT !.exclusive = FALSE] EXCEPT !.dead = TRUE] \in Rows
    BY <2>1 DEF Rows
  <2>3. [taken EXCEPT ![target[m]].exclusive = FALSE, ![target[m]].dead = TRUE] \in Tables
    BY <1>3, <2>1, <2>2 DEF Tables
  <2> QED
    BY <1>4, <1>6, <2>3 DEF Takes, Exclusive_rows, TypeOK
<1> QED
  BY <1>5, <1>6

(* A new time stamp is as old as the time the member has last written, or  *)
(* younger.                                                                *)
LEMMA Stamp_type ==
  ASSUME TypeOK, NEW m \in Members, NEW stamp \in 0 .. heart_beat[m]
  PROVE  stamp \in Ages /\ heart_beat[m] \in Ages /\ stamp <= heart_beat[m]
BY Abort_comes_first DEF TypeOK, Ages

(* Every operation of the start keeps the types.                           *)
LEMMA Starts_type ==
  ASSUME TypeOK, NEW m \in Members, Starts(m)
  PROVE  TypeOK'
<1> USE DEF TypeOK, Places
<1>1. CASE Start(m)
  BY <1>1, Reads_type DEF Start
<1>2. CASE Clean(m)
  <2>1. PICK known \in BOOLEAN : mark_as_inactive(m, known, No_row, "any")
    BY <1>2 DEF Clean
  <2>2. row' \in Tables /\ empty_row' \in {"missing", "exclusive", "plain"} /\ detected' \in Views
    BY <2>1, mark_as_inactive_type
  <2> QED
    BY <1>2, <2>2 DEF Clean, Tables, Views
<1>3. CASE Prepare(m)
  BY <1>3 DEF Prepare, check_empty_member_record
<1>4. CASE Insert(m)
  <2>1. CASE Has_row(m)
    BY <1>4, <2>1 DEF Insert
  <2>2. ASSUME NEW read, Reads(read), row' = [row EXCEPT ![m] = New_row],
               heart_beat' = [heart_beat EXCEPT ![m] = 0],
               pc' = [pc EXCEPT ![m] = IF m \in read THEN "idle" ELSE "error"],
               detected' = [Unseen_by_all(m, detected) EXCEPT ![m] = Seen(m, row', read)],
               UNCHANGED <<empty_row, has_exclusiveness, target, waits, deprived>>
        PROVE  TypeOK'
    <3>1. New_row \in Rows /\ 0 \in Ages
      BY Abort_comes_first DEF New_row, Rows
    <3>2. Unseen_by_all(m, detected) \in Views /\ Seen(m, row', read) \in [Members -> Ages \cup {Unseen}]
      BY Unseen_by_all_type, Seen_type DEF Views
    <3>3. detected' \in Views
      BY <2>2, <3>2 DEF Views
    <3>4. row' \in [Members -> Rows \cup {No_row}]
      BY <2>2, <3>1
    <3>5. pc' \in [Members -> Places] /\ heart_beat' \in [Members -> Ages]
      BY <2>2, <3>1
    <3>6. faults' \in 0 .. Max_faults
      BY <2>2, Reads_type
    <3>7. \A o \in Members : pc'[o] \in {"taking", "taking_again"} => target'[o] # Nobody
      BY <2>2
    <3> QED
      BY <2>2, <3>3, <3>4, <3>5, <3>6, <3>7 DEF Views
  <2> QED
    BY <1>4, <2>1, <2>2 DEF Insert
<1> QED
  BY <1>1, <1>2, <1>3, <1>4 DEF Starts

(* The exclusive watchdog keeps the types, whether m takes the             *)
(* exclusiveness or only looks at the table.                               *)
LEMMA Check_type ==
  ASSUME TypeOK, NEW m \in Members, NEW is_over \in BOOLEAN, Check(m, is_over)
  PROVE  TypeOK'
<1>1. PICK read, allowed :
        /\ Reads(read)
        /\ detected' = [detected EXCEPT ![m] = Seen(m, row, read)]
        /\ try_to_become_exclusive(m, Exclusive_scheduler(read), allowed, is_over)
        /\ UNCHANGED <<row, empty_row, has_exclusiveness, heart_beat, deprived>>
  BY DEF Check
<1>2. Seen(m, row, read) \in [Members -> Ages \cup {Unseen}]
  BY Seen_type DEF TypeOK, Views
<1>3. detected' \in Views
  BY <1>1, <1>2 DEF TypeOK, Views
<1>4. pc' \in [Members -> Places]
  BY <1>1 DEF try_to_become_exclusive, TypeOK, Places
<1>5. target' \in [Members -> Members \cup {Empty, Nobody}]
  BY <1>1, Exclusive_scheduler_type DEF try_to_become_exclusive, TypeOK
<1>6. waits' \in [Members -> {"starting", "for_start", "for_precedence", "none"}]
  BY <1>1 DEF try_to_become_exclusive, TypeOK
<1>7. faults' \in 0 .. Max_faults
  BY <1>1, Reads_type
<1>8. \A o \in Members : pc'[o] \in {"taking", "taking_again"} => target'[o] # Nobody
  BY <1>1 DEF try_to_become_exclusive, TypeOK, Check
<1> QED
  BY <1>1, <1>3, <1>4, <1>5, <1>6, <1>7, <1>8 DEF TypeOK, Views

(* The transaction of mark_as_exclusive and the steps before it.           *)
LEMMA Takes_over_type ==
  ASSUME TypeOK, NEW m \in Members, Takes_over(m)
  PROVE  TypeOK'
<1>1. CASE Add_empty_row(m)
  BY <1>1 DEF Add_empty_row, check_empty_member_record, TypeOK, Places
<1>2. CASE Look_again(m)
  <2>1. PICK read \in SUBSET All_rows :
          /\ Reads(read)
          /\ detected' = [detected EXCEPT ![m] = Seen(m, row, read)]
          /\ target' = [target EXCEPT ![m] = Exclusive_scheduler(read)]
          /\ pc' = [pc EXCEPT ![m] = IF Exclusive_scheduler(read) = Nobody THEN "idle" ELSE "taking_again"]
          /\ UNCHANGED <<row, empty_row, has_exclusiveness, heart_beat, waits, deprived>>
    BY <1>2 DEF Look_again
  <2>2. Seen(m, row, read) \in [Members -> Ages \cup {Unseen}]
    BY Seen_type DEF TypeOK, Views
  <2>3. faults' \in 0 .. Max_faults
    BY <2>1, Reads_type
  <2>4. \A o \in Members : pc'[o] \in {"taking", "taking_again"} => target'[o] # Nobody
    BY <2>1 DEF TypeOK
  <2> QED
    BY <2>1, <2>2, <2>3, <2>4, Exclusive_scheduler_type DEF TypeOK, Places
<1>3. CASE Take(m)
  <2>1. /\ target' \in [Members -> Members \cup {Empty, Nobody}] /\ UNCHANGED waits
        /\ \A o \in Members : pc'[o] \in {"taking", "taking_again"} => target'[o] # Nobody
    BY <1>3 DEF Take, TypeOK
  <2>2. Forgotten(m) \in Views /\ Unseen_by_all(m, Forgotten(m)) \in Views
        /\ Unseen_by_all(m, detected) \in Views
    BY Forgotten_type, Unseen_by_all_type DEF TypeOK, Views
  <2>3. ASSUME Takes(m), NEW stamp \in 0 .. heart_beat[m],
               heart_beat' = [heart_beat EXCEPT ![m] = stamp],
               detected' \in Views,
               has_exclusiveness' = [has_exclusiveness EXCEPT ![m] = TRUE],
               pc' = [pc EXCEPT ![m] = "confirming"], UNCHANGED faults
        PROVE  TypeOK'
    <3>1. stamp \in Ages
      BY <2>3, Stamp_type
    <3>2. row' \in Tables /\ empty_row' \in {"missing", "exclusive", "plain"} /\ deprived' \subseteq Members
      BY <2>3, Takes_type
    <3> QED
      BY <2>1, <2>3, <3>1, <3>2 DEF TypeOK, Tables, Views, Places
  <2>4. ASSUME Takes(m), faults < Max_faults, detected' = Unseen_by_all(m, detected),
               pc' = [pc EXCEPT ![m] = "idle"], faults' = faults + 1,
               UNCHANGED <<heart_beat, has_exclusiveness>>
        PROVE  TypeOK'
    <3>1. row' \in Tables /\ empty_row' \in {"missing", "exclusive", "plain"} /\ deprived' \subseteq Members
      BY <2>4, Takes_type
    <3>2. faults' \in 0 .. Max_faults
      BY <2>4, ClusterAssumption DEF TypeOK
    <3> QED
      BY <2>1, <2>2, <2>4, <3>1, <3>2 DEF TypeOK, Tables, Views, Places
  <2>5. ASSUME pc' = [pc EXCEPT ![m] = "idle"],
               UNCHANGED <<row, empty_row, heart_beat, detected, has_exclusiveness, deprived, faults>>
        PROVE  TypeOK'
    BY <2>1, <2>5 DEF TypeOK, Places
  <2> QED
    BY <1>3, <2>2, <2>3, <2>4, <2>5 DEF Take
<1> QED
  BY <1>1, <1>2, <1>3 DEF Takes_over

(* do_a_heart_beat keeps the types.                                        *)
LEMMA Heart_beat_type ==
  ASSUME TypeOK, NEW m \in Members, Heart_beat(m)
  PROVE  TypeOK'
<1>1. Unseen_by_all(m, detected) \in Views /\ detected \in Views
  BY Unseen_by_all_type DEF TypeOK, Views
<1>2. heart_beat' \in [Members -> Ages]
  BY Stamp_type DEF Heart_beat, TypeOK
<1>3. detected' \in Views
  BY <1>1 DEF Heart_beat
<1>4. pc' \in [Members -> Places]
  BY DEF Heart_beat, TypeOK, Places
<1>5. has_exclusiveness' \in [Members -> BOOLEAN] /\ deprived' \subseteq Members
  BY DEF Heart_beat, TypeOK
<1>6. faults' \in 0 .. Max_faults
  BY ClusterAssumption DEF Heart_beat, TypeOK
<1> QED
  BY <1>2, <1>3, <1>4, <1>5, <1>6 DEF Heart_beat, TypeOK, Views

(* So do the ends of a process, planned or not.                            *)
LEMMA Ends_type ==
  ASSUME TypeOK, NEW m \in Members, Ends(m)
  PROVE  TypeOK'
<1>1. Process_ends(m)
  BY DEF Ends, Close, End_after_error, Crash, Abort
<1>2. CASE detected' = Forgotten(m) /\ UNCHANGED <<row, empty_row>>
  BY <1>1, <1>2, Process_ends_type, Forgotten_type DEF TypeOK, Tables, Views
<1>3. ASSUME NEW known \in BOOLEAN, NEW left \in Rows_left(m), NEW continuation,
             mark_as_inactive(m, known, left, continuation)
      PROVE  TypeOK'
  BY <1>1, <1>3, Process_ends_type, mark_as_inactive_type, Rows_left_type
<1>4. CASE \E continuation \in Continuations : Close(m, continuation)
  <2>1. PICK continuation \in Continuations : Close(m, continuation)
    BY <1>4
  <2>2. PICK known \in {has_exclusiveness[m], Is_exclusive_row(m)}, left \in Rows_left(m) :
          mark_as_inactive(m, known, left, continuation)
    BY <2>1 DEF Close
  <2>3. row[m] # No_row => row[m].exclusive \in BOOLEAN
    BY DEF TypeOK, Rows
  <2>4. known \in BOOLEAN
    BY <2>2, <2>3 DEF TypeOK, Is_exclusive_row, Has_row
  <2> QED
    BY <1>3, <2>2, <2>4
<1> QED
  BY <1>2, <1>3, <1>4 DEF Ends, End_after_error, Crash, Abort

(* The command that deletes a dead member's row, and a second that passes. *)
LEMMA delete_dead_record_type ==
  ASSUME TypeOK, NEW m \in Members, delete_dead_record(m)
  PROVE  TypeOK'
BY Unseen_by_all_type DEF delete_dead_record, TypeOK, Views

LEMMA Tick_type ==
  ASSUME TypeOK, Tick
  PROVE  TypeOK'
<1>1. detected' \in Views
  BY Older_type DEF Tick, TypeOK, Views
<1> QED
  BY <1>1, Older_type DEF Tick, TypeOK, Views

-----------------------------------------------------------------------------
(* Every variable has a value of its type in every state.                  *)
THEOREM Type_correct == Spec => []TypeOK
<1>1. Init => TypeOK
  BY ClusterAssumption, Abort_comes_first DEF Init, TypeOK, Places
<1>2. TypeOK /\ [Next]_vars => TypeOK'
  <2> SUFFICES ASSUME TypeOK, [Next]_vars
               PROVE  TypeOK'
    OBVIOUS
  <2>1. CASE UNCHANGED vars
    BY <2>1 DEF vars, TypeOK
  <2> QED
    BY <2>1, Starts_type, Takes_over_type, Ends_type, Check_type, Heart_beat_type,
       delete_dead_record_type, Tick_type DEF Next
<1> QED
  BY <1>1, <1>2, PTL DEF Spec

-----------------------------------------------------------------------------
(* The invariant.                                                          *)

(* Where a member is a member of the cluster: after it has inserted its    *)
(* row, until an error.                                                    *)
Member_places == {"idle", "adding", "looking_again", "taking", "taking_again", "confirming"}

(* An exclusive row is active and not marked as dead.  So is the row of a   *)
(* running member, unless another has taken the exclusiveness from it: its *)
(* row is still active, so that it cannot take the exclusiveness again.    *)
Dead_rows_are_not_taken ==
  \A m \in Members : Has_row(m) =>
    /\ row[m].exclusive => row[m].active /\ ~row[m].dead
    /\ pc[m] \in Member_places /\ row[m].dead => row[m].active

(* Only a member that is idle or confirms its exclusiveness can be         *)
(* exclusive.                                                              *)
Exclusive_members_do_not_take ==
  \A m \in Members : has_exclusiveness[m] => pc[m] \in {"idle", "confirming"}

(* A heartbeat has been detected at the earliest when it was written.      *)
Detected_after_written ==
  \A m, o \in Members : detected[m][o] # Unseen => detected[m][o] <= heart_beat[o]

(* From a member that it has found dead a member takes the exclusiveness    *)
(* only if this heartbeat is still the last one.                           *)
Targets_are_late ==
  \A m \in Members :
    pc[m] = "taking" /\ target[m] \in Members => detected[m][target[m]] \in {Dead_age, Unseen}

IInv == /\ TypeOK
        /\ Database_integrity
        /\ Dead_rows_are_not_taken
        /\ Exclusive_members_do_not_take
        /\ Detected_after_written
        /\ Targets_are_late
        /\ Exclusive_members_have_the_row

(* What an operation does that only forgets heartbeats.                    *)
Only_forgets == \A m, o \in Members : detected'[m][o] \in {detected[m][o], Unseen}

(* Forgetting what m knows, or what the others know of m, only forgets.    *)
LEMMA Views_forget ==
  ASSUME TypeOK, NEW m \in Members,
         detected' \in {detected, Forgotten(m), Unseen_by_all(m, detected),
                        Unseen_by_all(m, Forgotten(m))}
  PROVE  Only_forgets
<1>1. \A o, p \in Members : Forgotten(m)[o][p] \in {detected[o][p], Unseen}
  BY DEF Forgotten, TypeOK
<1>2. ASSUME NEW views \in Views
      PROVE  \A o, p \in Members : Unseen_by_all(m, views)[o][p] \in {views[o][p], Unseen}
  BY DEF Unseen_by_all, Views
<1>3. detected \in Views /\ Forgotten(m) \in Views
  BY Forgotten_type DEF TypeOK, Views
<1> QED
  BY <1>1, <1>2, <1>3 DEF Only_forgets

(* mark_as_inactive leaves the exclusiveness with the empty row, or with   *)
(* nobody when this is deleted as well; it does not touch the others' rows. *)
LEMMA mark_as_inactive_keeps_integrity ==
  ASSUME TypeOK, Database_integrity, Dead_rows_are_not_taken, NEW m \in Members,
         NEW known \in BOOLEAN, NEW left \in Rows_left(m) \cup {No_row},
         NEW continuation, mark_as_inactive(m, known, left, continuation)
  PROVE  /\ Database_integrity'
         /\ \A o \in Members \ {m} : row'[o] = row[o]
         /\ row'[m] \in {row[m], left}
         /\ Only_forgets
<1>1. Only_forgets
  BY Views_forget DEF mark_as_inactive
<1>2. left \in Rows \cup {No_row} /\ (left # No_row => ~left.exclusive)
  BY Rows_left_type
<1>3. CASE Has_row(m) /\ row[m].exclusive = known
  <2>1. row' = [row EXCEPT ![m] = left]
    BY <1>3 DEF mark_as_inactive
  <2>2. \A o \in Members : Is_exclusive_row(o)' <=> o # m /\ Is_exclusive_row(o)
    BY <1>2, <2>1 DEF Is_exclusive_row, Has_row, TypeOK
  <2>3. CASE known
    <3>1. Is_exclusive_row(m)
      BY <1>3, <2>3 DEF Is_exclusive_row
    <3>2. \A o \in Members : ~Is_exclusive_row(o)'
      BY <2>2, <3>1 DEF Database_integrity
    <3>3. empty_row' \in {"missing", "exclusive"}
      BY <1>3, <2>3 DEF mark_as_inactive
    <3> QED
      BY <1>1, <2>1, <3>2, <3>3 DEF Database_integrity, TypeOK
  <2>4. CASE ~known
    <3>1. ~Is_exclusive_row(m) /\ empty_row' = empty_row
      BY <1>3, <2>4 DEF Is_exclusive_row, mark_as_inactive
    <3>2. \A o \in Members : Is_exclusive_row(o)' <=> Is_exclusive_row(o)
      BY <2>2, <3>1
    <3> QED
      BY <1>1, <2>1, <3>1, <3>2 DEF Database_integrity, TypeOK
  <2> QED
    BY <2>3, <2>4
<1>4. CASE ~(Has_row(m) /\ row[m].exclusive = known)
  BY <1>1, <1>4 DEF mark_as_inactive, Database_integrity, Is_exclusive_row, Has_row
<1> QED
  BY <1>3, <1>4

(* When a process ends, whatever becomes of its row, the other members'     *)
(* exclusiveness and what they know of heartbeats is not touched.          *)
LEMMA Process_ends_keeps_IInv ==
  ASSUME IInv, TypeOK', NEW m \in Members, Process_ends(m), Database_integrity',
         \A o \in Members \ {m} : row'[o] = row[o],
         row'[m] = row[m] \/ (row'[m] # No_row => ~row'[m].exclusive),
         Only_forgets
  PROVE  IInv'
<1> USE DEF IInv
<1>1. /\ pc' = [pc EXCEPT ![m] = "off"]
      /\ has_exclusiveness' = [has_exclusiveness EXCEPT ![m] = FALSE]
      /\ heart_beat' = [heart_beat EXCEPT ![m] = Dead_age]
      /\ target' = [target EXCEPT ![m] = Nobody]
      /\ deprived' = deprived \ {m}
  BY DEF Process_ends
<1>2. Dead_rows_are_not_taken'
  BY <1>1 DEF Dead_rows_are_not_taken, Has_row, TypeOK, Member_places
<1>3. Exclusive_members_do_not_take'
  BY <1>1 DEF Exclusive_members_do_not_take, TypeOK
<1>4. Detected_after_written'
  <2> SUFFICES ASSUME NEW o \in Members, NEW p \in Members, detected'[o][p] # Unseen
               PROVE  detected'[o][p] <= heart_beat'[p]
    BY DEF Detected_after_written
  <2>1. detected'[o][p] = detected[o][p] /\ detected[o][p] \in Ages /\ heart_beat[p] \in Ages
    BY DEF Only_forgets, TypeOK
  <2>2. heart_beat'[p] \in {heart_beat[p], Dead_age}
    BY <1>1 DEF TypeOK
  <2>3. detected[o][p] <= heart_beat[p] /\ detected[o][p] <= Dead_age
    BY <2>1 DEF Detected_after_written, Ages
  <2> QED
    BY <2>1, <2>2, <2>3
<1>5. Targets_are_late'
  BY <1>1 DEF Targets_are_late, TypeOK, Only_forgets
<1>6. Exclusive_members_have_the_row'
  <2> SUFFICES ASSUME NEW o \in Members, Is_exclusive(o)', o \notin deprived'
               PROVE  Is_exclusive_row(o)'
    BY DEF Exclusive_members_have_the_row
  <2>1. o # m
    BY <1>1 DEF Is_exclusive, TypeOK
  <2>2. Is_exclusive(o) /\ o \notin deprived
    BY <1>1, <2>1 DEF Is_exclusive, Watchdog_is_due, TypeOK
  <2> QED
    BY <2>1, <2>2 DEF Exclusive_members_have_the_row, Is_exclusive_row, Has_row
<1> QED
  BY <1>2, <1>3, <1>4, <1>5, <1>6

(* The planned and the unplanned ends keep the invariant.                  *)
LEMMA Ends_keeps_IInv ==
  ASSUME IInv, NEW m \in Members, Ends(m)
  PROVE  IInv'
<1>1. TypeOK' /\ TypeOK
  BY Ends_type DEF IInv
<1>2. Process_ends(m)
  BY DEF Ends, Close, End_after_error, Crash, Abort
<1>3. CASE detected' = Forgotten(m) /\ UNCHANGED <<row, empty_row>>
  <2>1. Database_integrity'
    BY <1>3 DEF IInv, Database_integrity, Is_exclusive_row, Has_row
  <2> QED
    BY <1>1, <1>2, <1>3, <2>1, Views_forget, Process_ends_keeps_IInv
<1>4. ASSUME NEW known \in BOOLEAN, NEW left \in Rows_left(m), NEW continuation,
             mark_as_inactive(m, known, left, continuation)
      PROVE  IInv'
  <2>1. /\ Database_integrity'
        /\ \A o \in Members \ {m} : row'[o] = row[o]
        /\ row'[m] \in {row[m], left}
        /\ Only_forgets
    BY <1>1, <1>4, mark_as_inactive_keeps_integrity DEF IInv
  <2>2. left # No_row => ~left.exclusive
    BY Rows_left_type
  <2> QED
    BY <1>1, <1>2, <2>1, <2>2, Process_ends_keeps_IInv
<1>5. CASE \E continuation \in Continuations : Close(m, continuation)
  <2>1. PICK continuation \in Continuations : Close(m, continuation)
    BY <1>5
  <2>2. PICK known \in {has_exclusiveness[m], Is_exclusive_row(m)}, left \in Rows_left(m) :
          mark_as_inactive(m, known, left, continuation)
    BY <2>1 DEF Close
  <2>3. row[m] # No_row => row[m].exclusive \in BOOLEAN
    BY <1>1 DEF TypeOK, Rows
  <2>4. known \in BOOLEAN
    BY <1>1, <2>2, <2>3 DEF TypeOK, Is_exclusive_row, Has_row
  <2> QED
    BY <1>4, <2>2, <2>4
<1> QED
  BY <1>3, <1>4, <1>5 DEF Ends, End_after_error, Crash, Abort

(* Nobody who starts is exclusive or takes the exclusiveness: it is enough  *)
(* that the database and the others' rows stay in order.                   *)
LEMMA Starts_keeps_IInv ==
  ASSUME IInv, NEW m \in Members, Starts(m)
  PROVE  IInv'
<1> USE DEF IInv
<1>1. TypeOK'
  BY Starts_type
<1>2. /\ pc[m] \in {"off", "cleaning", "cleaning_exclusive", "preparing", "inserting"}
      /\ \A o \in Members : o # m => pc'[o] = pc[o]
      /\ pc'[m] \in {"cleaning", "cleaning_exclusive", "preparing", "inserting", "idle", "error"}
      /\ UNCHANGED <<has_exclusiveness, target, waits, deprived>>
  BY DEF Starts, Start, Clean, Prepare, Insert, TypeOK
<1>3. ~has_exclusiveness[m]
  BY <1>2 DEF Exclusive_members_do_not_take
<1>4. Exclusive_members_do_not_take'
  BY <1>2, <1>3 DEF Exclusive_members_do_not_take
<1>5. ASSUME UNCHANGED heart_beat, Only_forgets,
             \A o \in Members \ {m} : row'[o] = row[o],
             row'[m] \in {row[m], No_row},
             Database_integrity', pc'[m] # "idle"
      PROVE  IInv'
  <2>1. Dead_rows_are_not_taken'
    BY <1>2, <1>5 DEF Dead_rows_are_not_taken, Has_row, Member_places
  <2>2. Detected_after_written'
    BY <1>5 DEF Detected_after_written, Only_forgets
  <2>3. Targets_are_late'
    BY <1>2, <1>5 DEF Targets_are_late, Only_forgets
  <2>4. Exclusive_members_have_the_row'
    BY <1>2, <1>3, <1>5 DEF Exclusive_members_have_the_row, Is_exclusive, Watchdog_is_due,
       Is_exclusive_row, Has_row
  <2> QED
    BY <1>1, <1>4, <1>5, <2>1, <2>2, <2>3, <2>4
<1>6. CASE Start(m)
  <2>1. Database_integrity'
    BY <1>6 DEF Start, Database_integrity, Is_exclusive_row, Has_row
  <2> QED
    BY <1>5, <1>6, <2>1 DEF Start, Only_forgets, TypeOK
<1>7. CASE Clean(m)
  <2>1. PICK known \in BOOLEAN : mark_as_inactive(m, known, No_row, "any")
    BY <1>7 DEF Clean
  <2>2. /\ Database_integrity'
        /\ \A o \in Members \ {m} : row'[o] = row[o]
        /\ row'[m] \in {row[m], No_row}
        /\ Only_forgets
    BY <2>1, mark_as_inactive_keeps_integrity
  <2> QED
    BY <1>5, <1>7, <2>2 DEF Clean, TypeOK
<1>8. CASE Prepare(m)
  <2>1. Database_integrity'
    BY <1>8 DEF Prepare, check_empty_member_record, Database_integrity, Is_exclusive_row, Has_row
  <2> QED
    BY <1>5, <1>8, <2>1 DEF Prepare, Only_forgets, TypeOK
<1>9. CASE Insert(m) /\ Has_row(m)
  <2>1. Database_integrity'
    BY <1>9 DEF Insert, Database_integrity, Is_exclusive_row, Has_row
  <2> QED
    BY <1>5, <1>9, <2>1 DEF Insert, Only_forgets, TypeOK
<1>10. CASE Insert(m) /\ ~Has_row(m)
  <2>1. PICK read \in SUBSET All_rows :
          /\ row' = [row EXCEPT ![m] = New_row]
          /\ heart_beat' = [heart_beat EXCEPT ![m] = 0]
          /\ detected' = [Unseen_by_all(m, detected) EXCEPT ![m] = Seen(m, row', read)]
          /\ pc' = [pc EXCEPT ![m] = IF m \in read THEN "idle" ELSE "error"]
          /\ UNCHANGED empty_row
    BY <1>10 DEF Insert
  <2>2. New_row # No_row /\ ~New_row.exclusive /\ ~New_row.dead
    <3>1. New_row \in Rows
      BY DEF New_row, Rows
    <3>2. No_row \notin Rows
      BY ClusterAssumption DEF Rows
    <3> QED
      BY <3>1, <3>2 DEF New_row
  <2>3. \A o \in Members : Is_exclusive_row(o)' <=> Is_exclusive_row(o)
    BY <1>10, <2>1, <2>2 DEF Is_exclusive_row, Has_row, TypeOK
  <2>4. Database_integrity'
    BY <2>1, <2>3 DEF Database_integrity
  <2>5. Dead_rows_are_not_taken'
    BY <1>2, <2>1, <2>2 DEF Dead_rows_are_not_taken, Has_row, TypeOK
  <2>6. \A o \in Members : o # m =>
          \A p \in Members : detected'[o][p] = IF p = m THEN Unseen ELSE detected[o][p]
    BY <2>1 DEF Unseen_by_all, TypeOK
  <2>7. \A p \in Members : detected'[m][p] \in {Unseen, 0, IF p = m THEN Unseen ELSE detected[m][p]}
    BY <2>1 DEF Unseen_by_all, Seen, TypeOK
  <2>8. Detected_after_written'
    <3> SUFFICES ASSUME NEW o \in Members, NEW p \in Members, detected'[o][p] # Unseen
                 PROVE  detected'[o][p] <= heart_beat'[p]
      BY DEF Detected_after_written
    <3>1. heart_beat'[p] \in Nat /\ 0 <= heart_beat'[p]
      BY <1>1, Abort_comes_first DEF TypeOK, Ages
    <3>2. detected'[o][p] = 0 \/ (p # m /\ detected'[o][p] = detected[o][p])
      BY <2>6, <2>7
    <3> QED
      BY <2>1, <3>1, <3>2 DEF Detected_after_written, TypeOK
  <2>9. Targets_are_late'
    BY <1>2, <2>1, <2>6 DEF Targets_are_late, TypeOK
  <2>10. Exclusive_members_have_the_row'
    BY <1>2, <1>3, <2>1, <2>3 DEF Exclusive_members_have_the_row, Is_exclusive, Watchdog_is_due, TypeOK
  <2> QED
    BY <1>1, <1>4, <2>4, <2>5, <2>8, <2>9, <2>10
<1> QED
  BY <1>6, <1>7, <1>8, <1>9, <1>10 DEF Starts

(* What m has just detected is not older than the heartbeat.               *)
LEMMA Seen_after_written ==
  ASSUME TypeOK, Detected_after_written, NEW m \in Members, NEW read
  PROVE  \A o \in Members : Seen(m, row, read)[o] # Unseen => Seen(m, row, read)[o] <= heart_beat[o]
<1> SUFFICES ASSUME NEW o \in Members, Seen(m, row, read)[o] # Unseen
             PROVE  Seen(m, row, read)[o] <= heart_beat[o]
  OBVIOUS
<1>1. Seen(m, row, read)[o] \in {0, detected[m][o]}
  BY DEF Seen
<1>2. heart_beat[o] \in Nat /\ 0 <= heart_beat[o]
  BY Abort_comes_first DEF TypeOK, Ages
<1> QED
  BY <1>1, <1>2 DEF Detected_after_written

(* A look at the table keeps the invariant: a member with an exclusive row *)
(* becomes a target only if its heartbeat was detected long ago.           *)
LEMMA Check_keeps_IInv ==
  ASSUME IInv, NEW m \in Members, NEW is_over \in BOOLEAN, Check(m, is_over)
  PROVE  IInv'
<1> USE DEF IInv
<1>1. TypeOK'
  BY Check_type
<1>2. PICK read, allowed :
        /\ pc[m] = "idle" /\ ~has_exclusiveness[m]
        /\ detected' = [detected EXCEPT ![m] = Seen(m, row, read)]
        /\ try_to_become_exclusive(m, Exclusive_scheduler(read), allowed, is_over)
        /\ UNCHANGED <<row, empty_row, has_exclusiveness, heart_beat, deprived>>
  BY DEF Check
<1>3. \A o \in Members \ {m} : pc'[o] = pc[o] /\ target'[o] = target[o] /\ detected'[o] = detected[o]
  BY <1>2 DEF try_to_become_exclusive, TypeOK
<1>4. \/ pc'[m] = "idle"
      \/ pc'[m] = "adding"
      \/ /\ pc'[m] = "taking" /\ target'[m] = Exclusive_scheduler(read)
         /\ Exclusive_scheduler(read) \in Members => Is_dead(m, Exclusive_scheduler(read))
  BY <1>2 DEF try_to_become_exclusive, TypeOK
<1>5. Database_integrity'
  BY <1>2 DEF Database_integrity, Is_exclusive_row, Has_row
<1>6. Dead_rows_are_not_taken'
  BY <1>2, <1>3, <1>4 DEF Dead_rows_are_not_taken, Has_row, Member_places
<1>7. Exclusive_members_do_not_take'
  BY <1>2, <1>3, <1>4 DEF Exclusive_members_do_not_take
<1>8. Detected_after_written'
  BY <1>2, <1>3, Seen_after_written DEF Detected_after_written, TypeOK
<1>9. Targets_are_late'
  <2>1. ASSUME pc'[m] = "taking", target'[m] \in Members
        PROVE  detected'[m][target'[m]] \in {Dead_age, Unseen}
    <3>1. target'[m] = Exclusive_scheduler(read) /\ Is_exclusive_row(target'[m]) /\ Is_dead(m, target'[m])
      BY <1>4, <2>1, Exclusive_scheduler_type
    <3>2. ~row[target'[m]].dead
      BY <2>1, <3>1 DEF Dead_rows_are_not_taken, Is_exclusive_row
    <3>3. detected[m][target'[m]] = Dead_age
      BY <3>1, <3>2 DEF Is_dead
    <3> QED
      BY <1>2, <2>1, <3>3, Abort_comes_first DEF Seen, TypeOK
  <2> QED
    BY <1>3, <2>1 DEF Targets_are_late
<1>10. Exclusive_members_have_the_row'
  BY <1>2 DEF Exclusive_members_have_the_row, Is_exclusive, Watchdog_is_due, Is_exclusive_row, Has_row
<1> QED
  BY <1>1, <1>5, <1>6, <1>7, <1>8, <1>9, <1>10

(* The empty row is inserted, with the exclusiveness if nobody else has it; *)
(* m looks at the table again and takes from whoever has it by then.       *)
LEMMA Look_again_keeps_IInv ==
  ASSUME IInv, NEW m \in Members, Add_empty_row(m) \/ Look_again(m)
  PROVE  IInv'
<1> USE DEF IInv
<1>1. TypeOK'
  BY Takes_over_type DEF Takes_over
<1>2. /\ pc[m] \in {"adding", "looking_again"}
      /\ UNCHANGED <<row, has_exclusiveness, heart_beat, deprived>>
      /\ \A o \in Members \ {m} : pc'[o] = pc[o] /\ target'[o] = target[o] /\ detected'[o] = detected[o]
      /\ detected' = detected \/ \E read : detected' = [detected EXCEPT ![m] = Seen(m, row, read)]
      /\ pc'[m] \in {"looking_again", "idle", "taking_again"}
  BY ClusterAssumption DEF Add_empty_row, Look_again, TypeOK
<1>3. ~has_exclusiveness[m]
  BY <1>2 DEF Exclusive_members_do_not_take
<1>4. Database_integrity'
  BY DEF Add_empty_row, Look_again, check_empty_member_record, Database_integrity, Is_exclusive_row,
     Has_row
<1>5. Dead_rows_are_not_taken'
  BY <1>2 DEF Dead_rows_are_not_taken, Has_row, Member_places
<1>6. Exclusive_members_do_not_take'
  BY <1>2, <1>3 DEF Exclusive_members_do_not_take
<1>7. Detected_after_written'
  BY <1>2, Seen_after_written DEF Detected_after_written, TypeOK
<1>8. Targets_are_late'
  BY <1>2 DEF Targets_are_late
<1>9. Exclusive_members_have_the_row'
  BY <1>2 DEF Exclusive_members_have_the_row, Is_exclusive, Watchdog_is_due, Is_exclusive_row, Has_row
<1> QED
  BY <1>1, <1>4, <1>5, <1>6, <1>7, <1>8, <1>9

(* The rows after the transaction: m's is exclusive, the target's is no    *)
(* longer, and the others are as before.                                   *)
LEMMA Takes_rows ==
  ASSUME TypeOK, NEW m \in Members, Takes(m)
  PROVE  /\ row' \in Tables
         /\ Has_row(m)' /\ row'[m].exclusive /\ row'[m].active /\ row'[m].dead = row[m].dead
         /\ target[m] # Empty =>
              /\ Has_row(target[m]) /\ row[target[m]].exclusive /\ target[m] # m
              /\ target[m] \in Members =>
                   /\ ~row'[target[m]].exclusive
                   /\ row'[target[m]].active = row[target[m]].active
              /\ UNCHANGED empty_row
         /\ target[m] = Empty => empty_row = "exclusive" /\ empty_row' = "plain"
         /\ \A o \in Members : o # m /\ o # target[m] => row'[o] = row[o]
<1> DEFINE taken == [row EXCEPT ![m].exclusive = TRUE, ![m].active = TRUE]
<1>1. row' \in Tables
  BY Takes_type
<1>2. row \in Tables /\ row[m] \in Rows /\ ~row[m].exclusive
  BY DEF Takes, Target_is_unchanged, Has_row, TypeOK, Tables
<1>3. [[row[m] EXCEPT !.exclusive = TRUE] EXCEPT !.active = TRUE] \in Rows
  BY <1>2 DEF Rows
<1>4. /\ taken[m] \in Rows /\ taken[m].exclusive /\ taken[m].active /\ taken[m].dead = row[m].dead
      /\ \A o \in Members \ {m} : taken[o] = row[o]
      /\ DOMAIN taken = Members
  BY <1>2, <1>3 DEF Tables, Rows
<1>5. No_row \notin Rows
  BY ClusterAssumption DEF Rows
<1>6. CASE target[m] = Empty
  <2>1. row' = taken /\ empty_row' = "plain" /\ empty_row = "exclusive"
    BY <1>6 DEF Takes, Exclusive_rows, Target_is_unchanged
  <2> HIDE DEF taken
  <2> QED
    BY <1>1, <1>4, <1>5, <1>6, <2>1 DEF Has_row
<1>7. CASE target[m] # Empty
  <2>1. /\ row' = [taken EXCEPT ![target[m]].exclusive = FALSE, ![target[m]].dead = TRUE]
        /\ UNCHANGED empty_row
        /\ Has_row(target[m]) /\ row[target[m]].exclusive
    BY <1>7 DEF Takes, Exclusive_rows, Target_is_unchanged, Is_exclusive_row
  <2>2. target[m] # m
    BY <1>2, <2>1
  <2> HIDE DEF taken
  <2>3. CASE target[m] \in Members
    <3>1. taken[target[m]] = row[target[m]] /\ row[target[m]] \in Rows
      BY <1>2, <1>4, <2>1, <2>2, <2>3 DEF Tables, Has_row
    <3>2. row'[target[m]] = [[taken[target[m]] EXCEPT !.exclusive = FALSE] EXCEPT !.dead = TRUE]
      BY <1>4, <2>1, <2>3
    <3>3. /\ row'[target[m]] \in Rows /\ ~row'[target[m]].exclusive
          /\ row'[target[m]].active = row[target[m]].active
      BY <3>1, <3>2 DEF Rows
    <3>4. \A o \in Members : o # target[m] => row'[o] = taken[o]
      BY <1>4, <2>1, <2>3
    <3> QED
      BY <1>1, <1>4, <1>5, <1>7, <2>1, <2>2, <2>3, <3>3, <3>4 DEF Has_row
  <2>4. CASE target[m] \notin Members
    <3>1. \A o \in Members : row'[o] = taken[o]
      BY <1>4, <2>1, <2>4
    <3> QED
      BY <1>1, <1>4, <1>5, <1>7, <2>1, <2>2, <2>4, <3>1 DEF Has_row
  <2> QED
    BY <2>3, <2>4
<1> QED
  BY <1>6, <1>7

(* The exclusiveness goes from the empty row or from the target to m; only *)
(* a target that has not written a heartbeat for too long, or one that m   *)
(* has found after it has inserted the empty row, loses it.                *)
LEMMA Takes_keeps_exclusive_rows ==
  ASSUME IInv, NEW m \in Members, pc[m] \in {"taking", "taking_again"}, Takes(m)
  PROVE  /\ Database_integrity' /\ Is_exclusive_row(m)' /\ ~row'[m].dead
         /\ \A o \in Members \ {m} :
              Is_exclusive(o) /\ o \notin deprived' => Is_exclusive_row(o)' /\ o \notin deprived
<1> USE DEF IInv
<1>1. /\ row' \in Tables
      /\ Has_row(m)' /\ row'[m].exclusive /\ row'[m].active /\ row'[m].dead = row[m].dead
      /\ \A o \in Members : o # m /\ o # target[m] => row'[o] = row[o]
  BY Takes_rows
<1>2. ~row[m].exclusive /\ ~row[m].active /\ Has_row(m)
  BY DEF Takes, Target_is_unchanged
<1>3. ~row'[m].dead
  BY <1>1, <1>2 DEF Dead_rows_are_not_taken, Member_places
<1>4. target[m] \in Members \cup {Empty}
  BY DEF TypeOK, Exclusive_members_do_not_take
<1>5. Is_exclusive_row(m)'
  BY <1>1 DEF Is_exclusive_row
<1>6. CASE target[m] = Empty
  <2>1. empty_row = "exclusive" /\ empty_row' = "plain" /\ \A o \in Members : ~Is_exclusive_row(o)
    BY <1>6, Takes_rows DEF Database_integrity
  <2>2. \A o \in Members \ {m} : row'[o] = row[o]
    BY <1>1, <1>6, ClusterAssumption
  <2>3. \A o \in Members : Is_exclusive_row(o)' <=> o = m
    BY <1>5, <2>1, <2>2 DEF Is_exclusive_row, Has_row
  <2>4. Database_integrity'
    BY <2>1, <2>3 DEF Database_integrity
  <2>5. \A o \in Members \ {m} : Is_exclusive(o) => o \in deprived
    BY <2>1 DEF Exclusive_members_have_the_row
  <2>6. deprived \subseteq deprived'
    BY DEF Takes
  <2> QED
    BY <1>3, <1>5, <2>4, <2>5, <2>6
<1>7. CASE target[m] \in Members
  <2>1. /\ Is_exclusive_row(target[m]) /\ ~row'[target[m]].exclusive /\ target[m] # m
        /\ UNCHANGED empty_row
    BY <1>7, Takes_rows, ClusterAssumption DEF Is_exclusive_row
  <2>2. \A o \in Members : Is_exclusive_row(o) => o = target[m]
    BY <1>7, <2>1 DEF Database_integrity
  <2>3. \A o \in Members : Is_exclusive_row(o)' <=> o = m
    BY <1>1, <1>5, <2>1, <2>2 DEF Is_exclusive_row, Has_row
  <2>4. Database_integrity'
    BY <1>7, <2>1, <2>3 DEF Database_integrity, TypeOK
  <2>5. deprived \subseteq deprived'
    BY DEF Takes
  <2>6. Is_exclusive(target[m]) => target[m] \in deprived'
    <3>1. CASE pc[m] = "taking_again"
      BY <1>7, <3>1 DEF Takes
    <3>2. CASE pc[m] = "taking"
      <4>1. detected[m][target[m]] = Dead_age
        BY <1>7, <3>2, ClusterAssumption DEF Takes, Target_is_unchanged, Targets_are_late
      <4>2. Dead_age <= heart_beat[target[m]] /\ heart_beat[target[m]] \in Nat
        BY <1>7, <4>1, Abort_comes_first DEF Detected_after_written, TypeOK
      <4> QED
        BY <4>2, Abort_comes_first DEF Is_exclusive, Watchdog_is_due
    <3> QED
      BY <3>1, <3>2
  <2>7. \A o \in Members \ {m} : Is_exclusive(o) => o \in deprived'
    BY <2>2, <2>5, <2>6 DEF Exclusive_members_have_the_row
  <2> QED
    BY <1>3, <1>5, <2>4, <2>7
<1> QED
  BY <1>4, <1>6, <1>7

(* A new heartbeat of m has to be detected by all, or it is the old one.   *)
LEMMA Heartbeat_written ==
  ASSUME TypeOK, Detected_after_written, NEW m \in Members, NEW stamp \in 0 .. heart_beat[m],
         heart_beat' = [heart_beat EXCEPT ![m] = stamp], Only_forgets,
         stamp = heart_beat[m] \/ \A o \in Members : detected'[o][m] = Unseen
  PROVE  Detected_after_written'
BY DEF Detected_after_written, Only_forgets, TypeOK

(* All have to detect m's heartbeat again.                                 *)
LEMMA Nobody_has_seen ==
  ASSUME NEW m \in Members, NEW views \in Views, detected' = Unseen_by_all(m, views)
  PROVE  \A o \in Members : detected'[o][m] = Unseen
BY DEF Unseen_by_all, Views

(* The transaction of mark_as_exclusive keeps the invariant, also when its *)
(* commit is not answered or it finds the target changed.                  *)
LEMMA Take_keeps_IInv ==
  ASSUME IInv, NEW m \in Members, Take(m)
  PROVE  IInv'
<1> USE DEF IInv
<1>1. TypeOK'
  BY Takes_over_type DEF Takes_over
<1>2. /\ pc[m] \in {"taking", "taking_again"} /\ ~has_exclusiveness[m]
      /\ \A o \in Members \ {m} : pc'[o] = pc[o] /\ target'[o] = target[o]
                                  /\ has_exclusiveness'[o] = has_exclusiveness[o]
                                  /\ heart_beat'[o] = heart_beat[o]
      /\ pc'[m] \in {"idle", "confirming"}
  BY DEF Take, TypeOK, Exclusive_members_do_not_take
<1>3. Exclusive_members_do_not_take'
  BY <1>2 DEF Exclusive_members_do_not_take
<1>4. Forgotten(m) \in Views /\ detected \in Views
  BY Forgotten_type DEF TypeOK, Views
<1>5. Only_forgets
  BY Views_forget DEF Take
<1>6. Targets_are_late'
  BY <1>2, <1>5 DEF Targets_are_late, Only_forgets
<1>7. Detected_after_written'
  <2>1. CASE UNCHANGED heart_beat
    BY <1>5, <2>1 DEF Detected_after_written, Only_forgets
  <2>2. ASSUME NEW stamp \in 0 .. heart_beat[m], heart_beat' = [heart_beat EXCEPT ![m] = stamp],
               detected' = LET forgotten == Forgotten(m)
                           IN  IF stamp = heart_beat[m] THEN forgotten ELSE Unseen_by_all(m, forgotten)
        PROVE  Detected_after_written'
    BY <1>4, <1>5, <2>2, Heartbeat_written, Nobody_has_seen
  <2> QED
    BY <2>1, <2>2 DEF Take
<1>8. CASE Takes(m)
  <2>1. /\ Database_integrity' /\ Is_exclusive_row(m)' /\ ~row'[m].dead
        /\ \A o \in Members \ {m} :
             Is_exclusive(o) /\ o \notin deprived' => Is_exclusive_row(o)' /\ o \notin deprived
    BY <1>2, <1>8, Takes_keeps_exclusive_rows
  <2>2. Exclusive_members_have_the_row'
    BY <1>2, <2>1 DEF Exclusive_members_have_the_row, Is_exclusive, Watchdog_is_due
  <2>3. Dead_rows_are_not_taken'
    <3>1. /\ \A o \in Members : o # m /\ o # target[m] => row'[o] = row[o]
          /\ row'[m].active
          /\ target[m] \in Members => /\ row[target[m]].exclusive /\ Has_row(target[m])
                                      /\ ~row'[target[m]].exclusive
                                      /\ row'[target[m]].active = row[target[m]].active
      BY <1>8, Takes_rows, ClusterAssumption
    <3> QED
      BY <1>2, <2>1, <3>1 DEF Dead_rows_are_not_taken, Has_row
  <2> QED
    BY <1>1, <1>3, <1>6, <1>7, <2>1, <2>2, <2>3
<1>9. CASE ~Takes(m)
  <2>1. UNCHANGED <<row, empty_row, heart_beat, has_exclusiveness, deprived>>
    BY <1>9 DEF Take
  <2>2. Database_integrity'
    BY <2>1 DEF Database_integrity, Is_exclusive_row, Has_row
  <2>3. Dead_rows_are_not_taken'
    BY <1>2, <2>1 DEF Dead_rows_are_not_taken, Has_row, Member_places
  <2>4. Exclusive_members_have_the_row'
    BY <2>1 DEF Exclusive_members_have_the_row, Is_exclusive, Watchdog_is_due, Is_exclusive_row, Has_row
  <2> QED
    BY <1>1, <1>3, <1>6, <1>7, <2>2, <2>3, <2>4
<1> QED
  BY <1>8, <1>9

(* A heartbeat is written only while the row is as m believes it to be:    *)
(* an exclusive member that has lost it ends instead.                      *)
LEMMA Heart_beat_keeps_IInv ==
  ASSUME IInv, NEW m \in Members, Heart_beat(m)
  PROVE  IInv'
<1> USE DEF IInv
<1>1. TypeOK'
  BY Heart_beat_type
<1>2. /\ pc[m] \in {"idle", "confirming"}
      /\ UNCHANGED <<row, empty_row, target, waits>>
      /\ pc'[m] \in {"idle", "error"}
      /\ pc'[m] = "error" => ~has_exclusiveness'[m] /\ UNCHANGED heart_beat
      /\ pc'[m] = "idle" => Row_is_as_known(m) /\ UNCHANGED has_exclusiveness
      /\ deprived \ {m} \subseteq deprived'
      /\ \A o \in Members \ {m} : pc'[o] = pc[o] /\ has_exclusiveness'[o] = has_exclusiveness[o]
                                  /\ heart_beat'[o] = heart_beat[o]
  BY DEF Heart_beat, TypeOK
<1>3. Only_forgets
  BY Views_forget DEF Heart_beat
<1>4. Database_integrity'
  BY <1>2 DEF Database_integrity, Is_exclusive_row, Has_row
<1>5. Dead_rows_are_not_taken'
  BY <1>2 DEF Dead_rows_are_not_taken, Has_row, Member_places
<1>6. Exclusive_members_do_not_take'
  BY <1>2 DEF Exclusive_members_do_not_take
<1>7. Detected_after_written'
  <2>1. CASE UNCHANGED heart_beat
    BY <1>3, <2>1 DEF Detected_after_written, Only_forgets
  <2>2. ASSUME NEW stamp \in 0 .. heart_beat[m], heart_beat' = [heart_beat EXCEPT ![m] = stamp],
               detected' = IF stamp = heart_beat[m] THEN detected ELSE Unseen_by_all(m, detected)
        PROVE  Detected_after_written'
    <3>1. detected \in Views
      BY DEF TypeOK, Views
    <3> QED
      BY <1>3, <2>2, <3>1, Heartbeat_written, Nobody_has_seen
  <2> QED
    BY <2>1, <2>2 DEF Heart_beat
<1>8. Targets_are_late'
  BY <1>2, <1>3 DEF Targets_are_late, Only_forgets
<1>9. Exclusive_members_have_the_row'
  <2>1. has_exclusiveness'[m] => Is_exclusive_row(m)
    BY <1>2 DEF Row_is_as_known, Is_exclusive_row
  <2> QED
    BY <1>2, <2>1 DEF Exclusive_members_have_the_row, Is_exclusive, Watchdog_is_due, Is_exclusive_row,
       Has_row
<1> QED
  BY <1>1, <1>4, <1>5, <1>6, <1>7, <1>8, <1>9

(* Only rows without the exclusiveness are deleted as dead.                *)
LEMMA delete_dead_record_keeps_IInv ==
  ASSUME IInv, NEW m \in Members, delete_dead_record(m)
  PROVE  IInv'
<1> USE DEF IInv
<1>1. TypeOK'
  BY delete_dead_record_type
<1>2. /\ row' = [row EXCEPT ![m] = No_row] /\ row[m].dead /\ Has_row(m)
      /\ UNCHANGED <<empty_row, pc, has_exclusiveness, heart_beat, target, waits, deprived, faults>>
  BY DEF delete_dead_record
<1>3. Only_forgets
  BY Views_forget DEF delete_dead_record
<1>4. ~Is_exclusive_row(m)
  BY <1>2 DEF Dead_rows_are_not_taken, Is_exclusive_row
<1>5. \A o \in Members : Is_exclusive_row(o)' <=> Is_exclusive_row(o)
  BY <1>2, <1>4 DEF Is_exclusive_row, Has_row, TypeOK
<1>6. Database_integrity'
  BY <1>2, <1>5 DEF Database_integrity
<1>7. Dead_rows_are_not_taken'
  BY <1>2 DEF Dead_rows_are_not_taken, Has_row, TypeOK
<1>8. Exclusive_members_do_not_take'
  BY <1>2 DEF Exclusive_members_do_not_take
<1>9. Detected_after_written' /\ Targets_are_late'
  BY <1>2, <1>3 DEF Detected_after_written, Targets_are_late, Only_forgets
<1>10. Exclusive_members_have_the_row'
  BY <1>2, <1>5 DEF Exclusive_members_have_the_row, Is_exclusive, Watchdog_is_due
<1> QED
  BY <1>1, <1>6, <1>7, <1>8, <1>9, <1>10

(* Time passes for a heartbeat and for what is known of it alike.          *)
LEMMA Tick_keeps_IInv ==
  ASSUME IInv, Tick
  PROVE  IInv'
<1> USE DEF IInv
<1>1. TypeOK'
  BY Tick_type
<1>2. /\ UNCHANGED <<row, empty_row, pc, has_exclusiveness, target, waits, deprived, faults>>
      /\ \A m \in Members : heart_beat'[m] = Older(heart_beat[m])
      /\ \A m, o \in Members : detected'[m][o] = Older(detected[m][o])
  BY DEF Tick
<1>3. Database_integrity' /\ Dead_rows_are_not_taken' /\ Exclusive_members_do_not_take'
  BY <1>2 DEF Database_integrity, Dead_rows_are_not_taken, Exclusive_members_do_not_take, Is_exclusive_row, Has_row
<1>4. Detected_after_written'
  BY <1>2, Older_type DEF Detected_after_written, TypeOK
<1>5. Targets_are_late'
  BY <1>2, Older_type DEF Targets_are_late
<1>6. Exclusive_members_have_the_row'
  <2> SUFFICES ASSUME NEW m \in Members, Is_exclusive(m)', m \notin deprived'
               PROVE  Is_exclusive_row(m)'
    BY DEF Exclusive_members_have_the_row
  <2>1. ~Watchdog_is_due(m)
    BY DEF Tick
  <2>2. Is_exclusive(m) /\ m \notin deprived
    BY <1>2, <2>1 DEF Is_exclusive
  <2> QED
    BY <1>2, <2>2 DEF Exclusive_members_have_the_row, Is_exclusive_row, Has_row
<1> QED
  BY <1>1, <1>3, <1>4, <1>5, <1>6

(* The invariant holds initially, and every step keeps it.                 *)
LEMMA Next_keeps_IInv ==
  /\ Init => IInv
  /\ IInv /\ [Next]_vars => IInv'
<1>1. Init => IInv
  <2> SUFFICES ASSUME Init
               PROVE  IInv
    OBVIOUS
  <2>1. TypeOK
    BY ClusterAssumption, Abort_comes_first DEF Init, TypeOK, Places
  <2>2. \A m \in Members : row[m] = No_row /\ ~has_exclusiveness[m] /\ pc[m] = "off"
                           /\ \A o \in Members : detected[m][o] = Unseen
    BY DEF Init
  <2> QED
    BY <2>1, <2>2 DEF Init, IInv, Database_integrity, Dead_rows_are_not_taken, Exclusive_members_do_not_take,
       Detected_after_written, Targets_are_late, Exclusive_members_have_the_row, Is_exclusive,
       Is_exclusive_row, Has_row
<1>2. IInv /\ [Next]_vars => IInv'
  <2> SUFFICES ASSUME IInv, [Next]_vars
               PROVE  IInv'
    OBVIOUS
  <2>1. CASE UNCHANGED vars
    BY <2>1 DEF vars, IInv, TypeOK, Database_integrity, Dead_rows_are_not_taken, Exclusive_members_do_not_take,
       Detected_after_written, Targets_are_late, Exclusive_members_have_the_row, Is_exclusive,
       Watchdog_is_due, Is_exclusive_row, Has_row
  <2>2. ASSUME NEW m \in Members, Takes_over(m)
        PROVE  IInv'
    BY <2>2, Look_again_keeps_IInv, Take_keeps_IInv DEF Takes_over
  <2> QED
    BY <2>1, <2>2, Starts_keeps_IInv, Ends_keeps_IInv, Check_keeps_IInv, Heart_beat_keeps_IInv,
       delete_dead_record_keeps_IInv, Tick_keeps_IInv DEF Next
<1> QED
  BY <1>1, <1>2

LEMMA Invariant == Spec => []IInv
BY Next_keeps_IInv, PTL DEF Spec

-----------------------------------------------------------------------------
(* assert_database_integrity (cluster.cxx:2134): as long as there is the   *)
(* empty row exactly one row has the exclusiveness, for any number of      *)
(* members and of unanswered commits.                                      *)
THEOREM Database_keeps_integrity == Spec => []Database_integrity
<1>1. IInv => Database_integrity
  BY DEF IInv
<1> QED
  BY <1>1, Invariant, PTL

(* A member that acts as the exclusive one has the exclusive row, for any  *)
(* timeouts of which the own one is the shorter (cluster.cxx:450, 543,     *)
(* 2044), unless it has lost it to a member that has looked again after    *)
(* it has inserted the empty row (cluster.cxx:2003-2013).                  *)
THEOREM Exclusive_members_keep_the_row == Spec => []Exclusive_members_have_the_row
<1>1. IInv => Exclusive_members_have_the_row
  BY DEF IInv
<1> QED
  BY <1>1, Invariant, PTL

(* There are never two members that act as the exclusive one, but for      *)
(* those that have lost the exclusiveness in that way.                     *)
At_most_one_is_exclusive ==
  \A m, o \in Members \ deprived : Is_exclusive(m) /\ Is_exclusive(o) => m = o

THEOREM One_member_is_exclusive == Spec => []At_most_one_is_exclusive
<1>1. IInv => At_most_one_is_exclusive
  BY DEF IInv, Exclusive_members_have_the_row, Database_integrity, At_most_one_is_exclusive
<1> QED
  BY <1>1, Invariant, PTL

(* A backup, as any member, becomes exclusive only while the empty row is  *)
(* there (cluster.cxx:758, 2592): it takes the exclusiveness from the      *)
(* empty row or from a member that has it.                                 *)
THEOREM Exclusiveness_needs_the_empty_row == Spec => Backups_need_the_empty_row
<1>1. ASSUME IInv, [Next]_vars, NEW m \in Members, ~has_exclusiveness[m], has_exclusiveness'[m]
      PROVE  empty_row # "missing"
  <2>1. Take(m)
    <3>1. has_exclusiveness' # has_exclusiveness
      BY <1>1
    <3>2. \A o \in Members : ~Starts(o) /\ ~Heart_beat(o) /\ ~Ends(o)
      BY <1>1 DEF Starts, Start, Clean, Prepare, Insert, Heart_beat, Ends, Close, End_after_error,
         Crash, Abort, Process_ends, IInv, TypeOK
    <3> QED
      BY <1>1, <3>1, <3>2 DEF Next, vars, Takes_over, Add_empty_row, Look_again, Take, Check,
         try_to_become_exclusive, delete_dead_record, Tick, IInv, TypeOK
  <2>2. Takes(m) /\ pc[m] \in {"taking", "taking_again"}
    BY <1>1, <2>1 DEF Take
  <2>3. target[m] = Empty \/ (target[m] \in Members /\ Is_exclusive_row(target[m]))
    BY <1>1, <2>2 DEF IInv, TypeOK, Exclusive_members_do_not_take, Takes, Target_is_unchanged
  <2> QED
    BY <1>1, <2>2, <2>3 DEF Takes, Target_is_unchanged, IInv, Database_integrity
<1>2. IInv /\ [Next]_vars =>
        [\A m \in Backups : ~has_exclusiveness[m] /\ has_exclusiveness'[m] => empty_row # "missing"]_vars
  BY <1>1, ClusterAssumption
<1> QED
  BY <1>2, Invariant, PTL DEF Spec, Backups_need_the_empty_row
================================================================================

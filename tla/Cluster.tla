------------------------------- MODULE Cluster -------------------------------
(***************************************************************************)
(* A cluster of schedulers of which one is exclusive (cluster.cxx).        *)
(*                                                                         *)
(* The members share a database table with a row for each member and the   *)
(* empty row, which holds the exclusiveness while no member does.  The     *)
(* exclusive member updates the heartbeat in its row.  The others look at  *)
(* the table from time to time.  A member that has seen no new heartbeat   *)
(* of the exclusive member for too long takes the exclusiveness.  Before   *)
(* that, a thread of the exclusive member aborts its process: its own      *)
(* timeout is shorter.                                                     *)
(*                                                                         *)
(* Each action is a transaction, or the end of a process.  Time stamps are *)
(* kept as ages, in seconds.  What a member knows of another's heartbeat    *)
(* is the time since it has detected it, or Unseen when the row has another *)
(* heartbeat by now: the code compares time stamps for equality only.      *)
(***************************************************************************)
EXTENDS Naturals, FiniteSets

CONSTANTS Members,
          Backups,             \* started with -backup
          Backup_precedence,   \* [m]: smaller numbers have precedence
          Heart_beat_period, Heart_beat_timeout, Heart_beat_own_timeout,
          Continuations,       \* what a terminating member may ask for: "any", "non_backup"
          Max_faults,          \* bound: commits with unknown result and failed reads
          Empty, Nobody, No_row, Unseen

(* subsystem_activate requires that the own timeout is the shorter one, or *)
(* "never" (cluster.cxx:1396).  Without a watchdog thread (own timeout     *)
(* "never", or the thread suppressed) nothing ends a member that is late,  *)
(* and the guarantee is given up: these configurations are left out.       *)
ASSUME ClusterAssumption ==
  /\ Backups \subseteq Members /\ Backup_precedence \in [Members -> Nat]
  /\ {Heart_beat_period, Heart_beat_timeout, Heart_beat_own_timeout} \subseteq Nat
  /\ Heart_beat_own_timeout < Heart_beat_timeout
  /\ Continuations \subseteq {"any", "non_backup"}
  /\ Max_faults \in Nat
  /\ Empty \notin Members /\ Nobody \notin Members \cup {Empty}
  /\ Unseen \notin Nat
  /\ No_row \notin [active: BOOLEAN, exclusive: BOOLEAN, dead: BOOLEAN]

(* The ages at which the watchdog thread aborts its process, and at which  *)
(* the heartbeat that a member has detected makes another member dead.     *)
Abort_age == Heart_beat_period + Heart_beat_own_timeout + 2
Dead_age  == Heart_beat_period + Heart_beat_timeout + 2
Ages      == 0 .. Dead_age          \* an age of Dead_age stands for all greater ones
Older(age) == IF age \in Nat /\ age < Dead_age THEN age + 1 ELSE age

VARIABLES
  row,                 \* [m]: the row of the member
  empty_row,           \* "missing", "exclusive" or "plain"
  pc,                  \* [m]: where the member's main thread is
  has_exclusiveness,   \* [m]: _has_exclusiveness (and _is_active)
  heart_beat,          \* [m]: age of _db_last_heart_beat
  detected,            \* [m][o]: age of o's heartbeat since m has detected it
  target,              \* [m]: _exclusive_scheduler, from which m takes
  waits,               \* [m]: which of its waits the exclusive watchdog is in
  deprived,            \* history: who lost the exclusiveness after a second look
  faults

vars == <<row, empty_row, pc, has_exclusiveness, heart_beat, detected, target, waits,
          deprived, faults>>

Rows      == [active: BOOLEAN, exclusive: BOOLEAN, dead: BOOLEAN]
Dead_rows == {r \in Rows : r.dead /\ ~r.exclusive}
New_row   == [active |-> FALSE, exclusive |-> FALSE, dead |-> FALSE]
Has_row(m) == row[m] # No_row
Is_exclusive_row(m) == Has_row(m) /\ row[m].exclusive
Is_running(m) == pc[m] \notin {"off", "error"}

Init ==
  /\ row = [m \in Members |-> No_row]
  /\ empty_row = "missing"
  /\ pc = [m \in Members |-> "off"]
  /\ has_exclusiveness = [m \in Members |-> FALSE]
  /\ heart_beat = [m \in Members |-> Dead_age]
  /\ detected = [m \in Members |-> [o \in Members |-> Unseen]]
  /\ target = [m \in Members |-> Nobody]
  /\ waits = [m \in Members |-> "starting"]
  /\ deprived = {}
  /\ faults = 0

(* The process of m ends; its memory is lost.                              *)
Process_ends(m) ==
  /\ pc' = [pc EXCEPT ![m] = "off"]
  /\ has_exclusiveness' = [has_exclusiveness EXCEPT ![m] = FALSE]
  /\ heart_beat' = [heart_beat EXCEPT ![m] = Dead_age]
  /\ target' = [target EXCEPT ![m] = Nobody]
  /\ waits' = [waits EXCEPT ![m] = "starting"]
  /\ deprived' = deprived \ {m}
  /\ UNCHANGED faults

(* The rows that check_schedulers_heart_beat has read.  An error ends the   *)
(* reading (cluster.cxx:1971): some rows are read then, and m goes on as   *)
(* if there were no others.                                                *)
All_rows == Members \cup {Empty}

Reads(read) ==
  \/ read = All_rows /\ UNCHANGED faults
  \/ read # All_rows /\ faults < Max_faults /\ faults' = faults + 1

Forgotten(m) == [detected EXCEPT ![m] = [o \in Members |-> Unseen]]

(* Row of m is gone, or has a new heartbeat: nobody has seen it yet.       *)
Unseen_by_all(m, views) == [o \in Members |-> [views[o] EXCEPT ![m] = Unseen]]

-----------------------------------------------------------------------------
\* Mutant: the row goes, and the exclusiveness with it.
mark_as_inactive_without_empty_row(m, known, left, continuation) ==
  IF Has_row(m) /\ row[m].exclusive = known
    THEN /\ row' = [row EXCEPT ![m] = left]
         /\ detected' = Unseen_by_all(m, Forgotten(m))
         /\ UNCHANGED empty_row
    ELSE /\ UNCHANGED <<row, empty_row>>
         /\ detected' = Forgotten(m)

(* mark_as_inactive of the own row, when it is as exclusive as m knows:    *)
(* the row is deleted, or left for the member that has marked it as dead.  *)
(* An exclusive member gives the exclusiveness to the empty row, or deletes *)
(* this as well so that no backup continues.                               *)
mark_as_inactive(m, known, left, continuation) ==
  IF Has_row(m) /\ row[m].exclusive = known
    THEN /\ row' = [row EXCEPT ![m] = left]
         /\ empty_row' = IF ~known THEN empty_row
                         ELSE IF continuation = "non_backup" THEN "missing" ELSE "exclusive"
         /\ detected' = Unseen_by_all(m, Forgotten(m))
    ELSE /\ UNCHANGED <<row, empty_row>>
         /\ detected' = Forgotten(m)

Rows_left(m) == {No_row} \cup {[r EXCEPT !.active = FALSE] : r \in {row[m]} \cap Dead_rows}

(* subsystem_activate, in four transactions.  The member reads the table ...*)
Start(m) ==
  /\ pc[m] = "off"
  /\ \E read \in SUBSET All_rows :
       /\ Reads(read)
       /\ pc' = [pc EXCEPT ![m] = IF m \notin read \/ ~Has_row(m) THEN "preparing"
                                  ELSE IF row[m].exclusive THEN "cleaning_exclusive" ELSE "cleaning"]
  /\ UNCHANGED <<row, empty_row, has_exclusiveness, heart_beat, detected, target, waits, deprived>>

(* ... deletes the row that an earlier process has left,                   *)
Clean(m) ==
  /\ pc[m] \in {"cleaning", "cleaning_exclusive"}
  /\ mark_as_inactive(m, pc[m] = "cleaning_exclusive", No_row, "any")
  /\ pc' = [pc EXCEPT ![m] = "preparing"]
  /\ UNCHANGED <<has_exclusiveness, heart_beat, target, waits, deprived, faults>>

(* check_empty_member_record: only a member that is not a backup inserts   *)
(* the empty row.                                                          *)
check_empty_member_record(m) ==
  empty_row' = IF empty_row # "missing" \/ m \in Backups THEN empty_row
               ELSE IF \E o \in Members : Is_exclusive_row(o) THEN "plain" ELSE "exclusive"

Prepare(m) ==
  /\ pc[m] = "preparing"
  /\ check_empty_member_record(m)
  /\ pc' = [pc EXCEPT ![m] = "inserting"]
  /\ UNCHANGED <<row, has_exclusiveness, heart_beat, detected, target, waits, deprived, faults>>

(* What m knows after check_schedulers_heart_beat.                         *)
Seen(m, rows, read) ==
  [o \in Members |-> IF o = m \/ rows[o] = No_row THEN Unseen
                     ELSE IF o \notin read THEN detected[m][o]
                     ELSE IF detected[m][o] = Unseen THEN 0 ELSE detected[m][o]]

(* ... and inserts its row and reads the table again.  A row that is still *)
(* there makes the start fail, and so does an own row that is not read.     *)
Insert(m) ==
  /\ pc[m] = "inserting"
  /\ \/ /\ Has_row(m)
        /\ pc' = [pc EXCEPT ![m] = "error"]
        /\ UNCHANGED <<row, heart_beat, detected, faults>>
     \/ /\ ~Has_row(m)
        /\ row' = [row EXCEPT ![m] = New_row]
        /\ heart_beat' = [heart_beat EXCEPT ![m] = 0]
        /\ \E read \in SUBSET All_rows :
             /\ Reads(read)
             /\ pc' = [pc EXCEPT ![m] = IF m \in read THEN "idle" ELSE "error"]
             /\ detected' = [Unseen_by_all(m, detected) EXCEPT ![m] = Seen(m, row', read)]
  /\ UNCHANGED <<empty_row, has_exclusiveness, target, waits, deprived>>

-----------------------------------------------------------------------------
(* The exclusive watchdog, try_to_become_exclusive.                        *)

(* Whose row has the exclusiveness.                                        *)
Holder ==
  IF empty_row = "exclusive" THEN Empty
  ELSE IF \E o \in Members : Is_exclusive_row(o)
    THEN CHOOSE o \in Members : Is_exclusive_row(o)
    ELSE Nobody

(* _exclusive_scheduler after check_schedulers_heart_beat.                 *)
Exclusive_scheduler(read) == IF Holder \in read THEN Holder ELSE Nobody

is_member_allowed_to_start(m) == empty_row # "missing" \/ m \notin Backups

(* What m takes is_member_allowed_to_start for.  When it has not read the  *)
(* whole table, the empty row may still be one that it has read before, or *)
(* be unknown.                                                             *)
Believes_to_be_allowed(m, read) ==
  IF read = All_rows \/ (Empty \in read /\ empty_row # "missing")
    THEN {is_member_allowed_to_start(m)} ELSE {TRUE, m \notin Backups}

\* Mutant: only a row that is marked as dead is a dead member's.
Is_dead_if_marked(m, o) == o # m /\ row[o].dead

(* Whether check_heart_beat declares o dead.                               *)
Is_dead(m, o) ==
  o # m /\ (row[o].dead \/ detected[m][o] = Dead_age)

(* check_has_backup_precedence: another member that waits like m may have  *)
(* precedence, if its heartbeat is recent.                                 *)
Another_has_precedence(m) ==
  \E o \in Members : row[o] = New_row /\ Backup_precedence[o] < Backup_precedence[m]

(* try_to_become_exclusive with what the member has read.  A backup that    *)
(* has just started waits for the others to start, and any member waits    *)
(* once if another member has precedence; is_over: this wait is over.      *)
try_to_become_exclusive(m, exclusive, allowed, is_over) ==
  LET is_member == exclusive \in Members
      waits_for_start ==
        \/ waits[m] = "starting" /\ ~is_member /\ m \in Backups /\ allowed
        \/ waits[m] = "for_start" /\ ~is_member /\ ~is_over
      May_take == is_member => Is_dead(m, exclusive)
      proceeds ==
        /\ May_take /\ allowed
        /\ waits[m] = "for_precedence" => is_over
      wait_after == IF waits_for_start THEN "for_start"
                    ELSE IF waits[m] = "for_precedence" /\ ~proceeds /\ May_take
                      THEN "for_precedence" ELSE "none"
  IN  \/ /\ ~waits_for_start /\ proceeds
         /\ pc' = [pc EXCEPT ![m] = IF exclusive = Nobody THEN "adding" ELSE "taking"]
         /\ target' = [target EXCEPT ![m] = exclusive]
         /\ waits' = [waits EXCEPT ![m] = "none"]
      \/ /\ ~waits_for_start /\ proceeds
         /\ waits[m] # "for_precedence" /\ Another_has_precedence(m)
         /\ waits' = [waits EXCEPT ![m] = "for_precedence"]
         /\ UNCHANGED <<pc, target>>
      \/ /\ waits_for_start \/ ~proceeds
         /\ waits' = [waits EXCEPT ![m] = wait_after]
         /\ UNCHANGED <<pc, target>>

(* A member looks at the table.                                            *)
Check(m, is_over) ==
  /\ pc[m] = "idle" /\ ~has_exclusiveness[m]
  /\ \E read \in SUBSET All_rows :
       /\ Reads(read)
       /\ detected' = [detected EXCEPT ![m] = Seen(m, row, read)]
       /\ \E allowed \in Believes_to_be_allowed(m, read) :
            try_to_become_exclusive(m, Exclusive_scheduler(read), allowed, is_over)
  /\ UNCHANGED <<row, empty_row, has_exclusiveness, heart_beat, deprived>>

(* mark_as_exclusive.  When there was nobody to take the exclusiveness     *)
(* from, not even the empty row, this is inserted ...                      *)
Add_empty_row(m) ==
  /\ pc[m] = "adding"
  /\ check_empty_member_record(m)
  /\ pc' = [pc EXCEPT ![m] = "looking_again"]
  /\ UNCHANGED <<row, has_exclusiveness, heart_beat, detected, target, waits, deprived, faults>>

(* ... and the table is read again.                                        *)
Look_again(m) ==
  /\ pc[m] = "looking_again"
  /\ \E read \in SUBSET All_rows :
       /\ Reads(read)
       /\ detected' = [detected EXCEPT ![m] = Seen(m, row, read)]
       /\ target' = [target EXCEPT ![m] = Exclusive_scheduler(read)]
       /\ pc' = [pc EXCEPT ![m] = IF Exclusive_scheduler(read) = Nobody THEN "idle" ELSE "taking_again"]
  /\ UNCHANGED <<row, empty_row, has_exclusiveness, heart_beat, waits, deprived>>

\* Mutant: the heartbeat is not compared again in the transaction.
Target_is_exclusive(m) ==
  /\ IF target[m] = Empty THEN empty_row = "exclusive" ELSE Is_exclusive_row(target[m])
  /\ Has_row(m) /\ ~row[m].exclusive /\ ~row[m].active

\* Mutant: the empty row is inserted when it is no longer there.
Target_is_unchanged_or_missing(m) ==
  /\ IF target[m] = Empty THEN empty_row # "plain"
     ELSE Is_exclusive_row(target[m]) /\ detected[m][target[m]] # Unseen
  /\ Has_row(m) /\ ~row[m].exclusive /\ ~row[m].active

(* The target still holds the exclusiveness and has the heartbeat that m   *)
(* has detected, and the own row is not exclusive.                         *)
Target_is_unchanged(m) ==
  /\ IF target[m] = Empty THEN empty_row = "exclusive"
     ELSE Is_exclusive_row(target[m]) /\ detected[m][target[m]] # Unseen
  /\ Has_row(m) /\ ~row[m].exclusive /\ ~row[m].active

(* The transaction: the target loses the exclusiveness, m has it.          *)
Exclusive_rows(m) ==
  LET taken == [row EXCEPT ![m].exclusive = TRUE, ![m].active = TRUE]
  IN  IF target[m] = Empty THEN row' = taken /\ empty_row' = "plain"
      ELSE /\ row' = [taken EXCEPT ![target[m]].exclusive = FALSE, ![target[m]].dead = TRUE]
           /\ UNCHANGED empty_row

Takes(m) ==
  /\ Target_is_unchanged(m)
  /\ Exclusive_rows(m)
  /\ deprived' = IF pc[m] = "taking_again" THEN deprived \cup ({target[m]} \cap Members) ELSE deprived

Take(m) ==
  /\ pc[m] \in {"taking", "taking_again"}
  /\ \/ /\ Takes(m)
        /\ \E stamp \in 0 .. heart_beat[m] :
             /\ heart_beat' = [heart_beat EXCEPT ![m] = stamp]
             /\ detected' = LET forgotten == Forgotten(m)
                            IN  IF stamp = heart_beat[m] THEN forgotten ELSE Unseen_by_all(m, forgotten)
        /\ has_exclusiveness' = [has_exclusiveness EXCEPT ![m] = TRUE]
        /\ pc' = [pc EXCEPT ![m] = "confirming"]
        /\ UNCHANGED faults
     \/ \* the connection breaks after the commit: m does not know of it
        /\ Takes(m) /\ faults < Max_faults
        /\ detected' = Unseen_by_all(m, detected)
        /\ pc' = [pc EXCEPT ![m] = "idle"]
        /\ faults' = faults + 1
        /\ UNCHANGED <<heart_beat, has_exclusiveness>>
     \/ /\ ~Target_is_unchanged(m)
        /\ pc' = [pc EXCEPT ![m] = "idle"]
        /\ UNCHANGED <<row, empty_row, heart_beat, detected, has_exclusiveness, deprived, faults>>
  /\ target' = [target EXCEPT ![m] = Nobody]
  /\ UNCHANGED waits

-----------------------------------------------------------------------------
(* do_a_heart_beat.  The row must be as m believes it to be.  Its time was *)
(* read before the transaction.  m has lost its membership when the update *)
(* fails, also when it fails because its first commit did succeed.         *)
Row_is_as_known(m) ==
  Has_row(m) /\ row[m].exclusive = has_exclusiveness[m] /\ row[m].active = has_exclusiveness[m]

Heart_beat(m) ==
  /\ pc[m] \in {"idle", "confirming"}
  /\ \/ /\ Row_is_as_known(m)
        /\ \E stamp \in 0 .. heart_beat[m] :
             /\ heart_beat' = [heart_beat EXCEPT ![m] = stamp]
             /\ detected' = IF stamp = heart_beat[m] THEN detected ELSE Unseen_by_all(m, detected)
        /\ pc' = [pc EXCEPT ![m] = "idle"]
        /\ UNCHANGED <<has_exclusiveness, deprived, faults>>
     \/ /\ ~Row_is_as_known(m) \/ faults < Max_faults
        /\ faults' = IF Row_is_as_known(m) THEN faults + 1 ELSE faults
        /\ detected' = IF Row_is_as_known(m) THEN Unseen_by_all(m, detected) ELSE detected
        /\ pc' = [pc EXCEPT ![m] = "error"]
        /\ has_exclusiveness' = [has_exclusiveness EXCEPT ![m] = FALSE]
        /\ deprived' = deprived \ {m}
        /\ UNCHANGED heart_beat
  /\ UNCHANGED <<row, empty_row, target, waits>>

(* Cluster::close.  A member knows that its row is exclusive when it has   *)
(* taken the exclusiveness or when it has read the row.                    *)
Close(m, continuation) ==
  /\ pc[m] = "idle"
  /\ \E known \in {has_exclusiveness[m], Is_exclusive_row(m)}, left \in Rows_left(m) :
       mark_as_inactive(m, known, left, continuation)
  /\ Process_ends(m)

(* After an error the scheduler ends as in a crash, or (check_is_active)   *)
(* is terminated.                                                          *)
End_after_error(m) ==
  /\ pc[m] = "error"
  /\ \/ detected' = Forgotten(m) /\ UNCHANGED <<row, empty_row>>
     \/ \E known \in BOOLEAN, left \in Rows_left(m) : mark_as_inactive(m, known, left, "any")
  /\ Process_ends(m)

Crash(m) ==
  /\ pc[m] # "off"
  /\ Process_ends(m)
  /\ detected' = Forgotten(m)
  /\ UNCHANGED <<row, empty_row>>

(* Heart_beat_watchdog_thread: an active member without a heartbeat is     *)
(* killed.                                                                 *)
Watchdog_is_due(m) == has_exclusiveness[m] /\ heart_beat[m] >= Abort_age

Abort(m) ==
  /\ Watchdog_is_due(m)
  /\ Process_ends(m)
  /\ detected' = Forgotten(m)
  /\ UNCHANGED <<row, empty_row>>

(* The command to delete the row of a dead member.                         *)
delete_dead_record(m) ==
  /\ Has_row(m) /\ row[m].dead
  /\ row' = [row EXCEPT ![m] = No_row]
  /\ detected' = Unseen_by_all(m, detected)
  /\ UNCHANGED <<empty_row, pc, has_exclusiveness, heart_beat, target, waits, deprived, faults>>

(* A second passes.  A main thread may be late by any time, the watchdog    *)
(* thread is punctual.                                                     *)
Tick ==
  /\ ~ \E m \in Members : Watchdog_is_due(m)
  /\ heart_beat' = [m \in Members |-> Older(heart_beat[m])]
  /\ detected' = [m \in Members |-> [o \in Members |-> Older(detected[m][o])]]
  /\ UNCHANGED <<row, empty_row, pc, has_exclusiveness, target, waits, deprived, faults>>

-----------------------------------------------------------------------------
Starts(m)     == Start(m) \/ Clean(m) \/ Prepare(m) \/ Insert(m)
Ends(m)       == \/ \E continuation \in Continuations : Close(m, continuation)
                 \/ End_after_error(m) \/ Crash(m) \/ Abort(m)
Takes_over(m) == Add_empty_row(m) \/ Look_again(m) \/ Take(m)

Next ==
  \/ \E m \in Members :
       \/ Starts(m) \/ Takes_over(m) \/ Ends(m)
       \/ \E is_over \in BOOLEAN : Check(m, is_over)
       \/ Heart_beat(m) \/ delete_dead_record(m)
  \/ Tick

Spec == Init /\ [][Next]_vars

(* Time passes, the watchdog thread runs, and the main thread of a running *)
(* member goes on: it looks at the table, also when a wait is over, and     *)
(* updates its heartbeat.  Nobody has to start or end a process.           *)
Fairness ==
  /\ WF_vars(Tick)
  /\ \A m \in Members :
       /\ WF_vars(Abort(m))
       /\ WF_vars(Clean(m) \/ Prepare(m) \/ Insert(m))
       /\ WF_vars(Takes_over(m))
       /\ WF_vars(Check(m, TRUE))
       /\ SF_vars(Heart_beat(m))

FairSpec == Spec /\ Fairness
-----------------------------------------------------------------------------
Places == {"off", "cleaning", "cleaning_exclusive", "preparing", "inserting", "idle", "adding",
           "looking_again", "taking", "taking_again", "confirming", "error"}

(* Every variable has a value of its type.  A member that takes the        *)
(* exclusiveness has somebody to take it from: mark_as_exclusive uses      *)
(* _exclusive_scheduler without asking again (cluster.cxx:2022).           *)
TypeOK ==
  /\ row \in [Members -> Rows \cup {No_row}]
  /\ empty_row \in {"missing", "exclusive", "plain"}
  /\ pc \in [Members -> Places]
  /\ has_exclusiveness \in [Members -> BOOLEAN]
  /\ heart_beat \in [Members -> Ages]
  /\ detected \in [Members -> [Members -> Ages \cup {Unseen}]]
  /\ target \in [Members -> Members \cup {Empty, Nobody}]
  /\ \A m \in Members : pc[m] \in {"taking", "taking_again"} => target[m] # Nobody
  /\ waits \in [Members -> {"starting", "for_start", "for_precedence", "none"}]
  /\ deprived \subseteq Members
  /\ faults \in 0 .. Max_faults

(* assert_database_integrity (cluster.cxx:2134): as long as there is the   *)
(* empty row, exactly one row has the exclusiveness, whoever starts, ends, *)
(* crashes or takes over in whatever order.                                *)
Database_integrity ==
  /\ \A m, o \in Members : Is_exclusive_row(m) /\ Is_exclusive_row(o) => m = o
  /\ empty_row = "exclusive" => \A m \in Members : ~Is_exclusive_row(m)
  /\ empty_row = "plain" => \E m \in Members : Is_exclusive_row(m)
  /\ empty_row = "missing" => \A m \in Members : ~Is_exclusive_row(m)

(* A member acts as the exclusive one until it loses its process.  The     *)
(* instant at which the watchdog thread kills it does not count.           *)
Is_exclusive(m) == has_exclusiveness[m] /\ ~Watchdog_is_due(m)

(* An exclusive member has the exclusive row: nobody takes the             *)
(* exclusiveness from a member that is alive, however late main threads     *)
(* are, whoever crashes and whichever commits are not answered             *)
(* (cluster.cxx:450, 543, 2044).  Excepted are members that lose it to one  *)
(* that has found nobody exclusive, has inserted the empty row and looked  *)
(* again: it takes from whoever has the exclusiveness by then, dead or     *)
(* alive (cluster.cxx:2003-2013).                                          *)
Exclusive_members_have_the_row ==
  \A m \in Members : Is_exclusive(m) /\ m \notin deprived => Is_exclusive_row(m)

(* A backup becomes exclusive only while the empty row is there: after a   *)
(* termination that no backup is to continue it has to wait for a member    *)
(* that is not a backup, even if it has looked at the table before         *)
(* (cluster.cxx:758, 2592).                                                *)
Backups_need_the_empty_row ==
  [][\A m \in Backups : ~has_exclusiveness[m] /\ has_exclusiveness'[m] => empty_row # "missing"]_vars

(* As long as a member runs that is allowed to become exclusive, the       *)
(* cluster is not left without an exclusive member.                        *)
The_cluster_continues ==
  \A m \in Members :
    <>[](Is_running(m) /\ is_member_allowed_to_start(m)) => []<>(\E o \in Members : has_exclusiveness[o])
=============================================================================

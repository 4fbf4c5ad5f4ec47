------------------------- MODULE ReadersWriterLock -------------------------
(***************************************************************************)
(* What the lock subsystem promises to the jobs of the scheduler, without  *)
(* uses, requestors, queues or tasks: every lock is a readers/writer lock  *)
(* with a limit on the number of readers.  A holder may have any number of *)
(* locks, may upgrade and downgrade, and may change its access to several  *)
(* locks in one step (a task that ends gives all of them back).            *)
(***************************************************************************)
EXTENDS Naturals, FiniteSets

CONSTANTS Locks,     \* the locks
          Holders,   \* whoever may hold a lock
          Limits     \* the values the limit of readers may have

VARIABLES access,    \* access[l][h]: what h may do with lock l
          limit      \* limit[l]: how many readers lock l admits

vars == <<access, limit>>

Access == {"none", "shared", "exclusive"}

Readers(l) == {h \in Holders : access[l][h] = "shared"}

Init == /\ access = [l \in Locks |-> [h \in Holders |-> "none"]]
        /\ limit \in [Locks -> Limits]

(* Lock l can give h the access a while the others keep theirs.            *)
Compatible(l, h, a) ==
  /\ a = "exclusive" => \A g \in Holders \ {h} : access[l][g] = "none"
  /\ a = "shared" => \A g \in Holders \ {h} : access[l][g] # "exclusive"
  /\ a = "shared" /\ access[l][h] = "none" => Cardinality(Readers(l)) < limit[l]

(* One holder changes its access to some locks; nobody else's changes.     *)
ChangeAccess(h) ==
  /\ \E a \in [Locks -> Access] :
       /\ \A l \in Locks : a[l] # access[l][h] => Compatible(l, h, a[l])
       /\ access' = [l \in Locks |-> [access[l] EXCEPT ![h] = a[l]]]
  /\ UNCHANGED limit

(* The limit of a lock is configured anew.  It may drop below the number   *)
(* of readers the lock has; they keep it.                                  *)
ChangeLimit(l) == /\ \E n \in Limits : limit' = [limit EXCEPT ![l] = n]
                  /\ UNCHANGED access

Next == \/ \E h \in Holders : ChangeAccess(h)
        \/ \E l \in Locks : ChangeLimit(l)

Spec == Init /\ [][Next]_vars
=============================================================================

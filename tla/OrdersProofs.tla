----------------------------- MODULE OrdersProofs -----------------------------
(***************************************************************************)
(* Proofs about Orders for chains of any length, with any jobs, tasks,     *)
(* orders and limits: whatever is done to an order, it stays in the queue  *)
(* of its node, and with the task that has it; and no more orders begin    *)
(* than max_orders allows.                                                 *)
(***************************************************************************)
EXTENDS Orders, SequenceTheorems, FiniteSetTheorems, WellFoundedInduction, TLAPS

Times   == Zero..Never
Actions == {"process", "stop", "next_state"}
Places  == Nodes \cup {Out, End}

Order_objects ==
    [node : Places, initial : Nodes, setback : Times, setback_count : Nat,
     setback_called : BOOLEAN, suspended : BOOLEAN, blacklisted : BOOLEAN, touched : BOOLEAN,
     moved : BOOLEAN, task : Tasks \cup {None}, replacement_for : Orders \cup {None}]

Task_objects ==
    [state : {"none", "running", "next_step", "waiting_for_order", "ending"},
     order : Orders \cup {None}, next_step : Register_entries]

\* The values of State.
States ==
    [order : [Orders -> Order_objects], queue : [Nodes -> Seq(Orders)],
     action : [Nodes -> Actions], stopped : BOOLEAN, timed : [Jobs -> Times],
     calculated : [Jobs -> Register_entries], available : [Jobs -> BOOLEAN],
     closed : [Jobs -> BOOLEAN], task : [Tasks -> Task_objects]]

-----------------------------------------------------------------------------
(* The inductive invariant.                                                *)

Is_distinct(list) == \A i, k \in DOMAIN list : list[i] = list[k] => i = k

\* The order stands in the queue of its node, and in no other.
Is_placed(s, o) == \A n \in Nodes : o \in Range(s.queue[n]) <=> s.order[o].node = n

Queues_right(s) ==
    /\ \A n \in Nodes : Is_distinct(s.queue[n])
    /\ \A o \in Orders : Is_placed(s, o)

\* Who is waited for has been removed, and a task has it.
Replacements_right(s) ==
    \A o \in Orders : LET old == s.order[o].replacement_for IN
        old # None => s.order[old].task # None /\ s.order[old].node = Out

\* An order leaves the queues while a task has it only when it is moved.
Occupied_right(s) ==
    \A o \in Orders : s.order[o].task # None /\ ~s.order[o].moved => s.order[o].node \in Nodes

\* The order is set back more than MaxSetbacks times only after commands, and then waits for one.
Count_right(x, c) ==
    x.setback_count <= MaxSetbacks + c + (IF x.setback = Never /\ x.task = None THEN 1 ELSE 0)

\* What holds between the orders and their queues, after c commands.
Orders_right(s, c) ==
    /\ s \in States
    /\ Queues_right(s) /\ Replacements_right(s) /\ Occupied_right(s)
    /\ \A o \in Orders : Count_right(s.order[o], c)

Tasks_right(s) ==
    /\ \A o \in Orders, t \in Tasks : s.order[o].task = t <=> s.task[t].order = o
    /\ \A o \in Orders : s.order[o].moved => s.order[o].task # None
    /\ \A t \in Tasks : /\ s.task[t].order # None <=> s.task[t].state = "running"
                        /\ s.task[t].state # "none" => \E j \in Jobs : t \in TasksOf[j]

Right(s, c) == Orders_right(s, c) /\ Tasks_right(s)

IInv ==
    /\ Right(State, commands)
    /\ config \in Configurations /\ commands \in 0..MaxCommands

-----------------------------------------------------------------------------
(* Lists.                                                                  *)

LEMMA First_position ==
  ASSUME NEW I, I \subseteq Nat, I # {}
  PROVE  \E i \in I : \A k \in I : i <= k
<1>1. PICK i \in I : \A k \in I : <<k, i>> \notin OpToRel(<, Nat)
  BY WFMin, NatLessThanWellFounded
<1>2. \A k \in I : ~(k < i)
  BY <1>1 DEF OpToRel
<1> QED
  BY <1>2

LEMMA Positions ==
  ASSUME NEW S, NEW list \in Seq(S)
  PROVE  /\ Len(list) \in Nat /\ DOMAIN list = 1 .. Len(list)
         /\ \A i \in 1 .. Len(list) : list[i] \in S
         /\ Range(list) \subseteq S
<1>1. Len(list) \in Nat /\ DOMAIN list = 1 .. Len(list)
  BY LenProperties
<1>2. \A i \in 1 .. Len(list) : list[i] \in S
  BY <1>1, ElementOfSeq
<1> QED
  BY <1>1, <1>2 DEF Range

\* The part of a list in front of a position, and the one from a position on.
LEMMA Front_part ==
  ASSUME NEW S, NEW list \in Seq(S), NEW k \in 1 .. Len(list) + 1
  PROVE  /\ SubSeq(list, 1, k - 1) \in Seq(S) /\ Len(SubSeq(list, 1, k - 1)) = k - 1
         /\ \A i \in 1 .. k - 1 : SubSeq(list, 1, k - 1)[i] = list[i]
<1>1. Len(list) \in Nat /\ k \in Int /\ k >= 1 /\ k <= Len(list) + 1
  BY Positions
<1>2. \A i \in 1 .. k - 1 : list[i] \in S
  BY <1>1, Positions
<1>3. /\ SubSeq(list, 1, k - 1) \in Seq(S)
      /\ Len(SubSeq(list, 1, k - 1)) = (IF 1 <= k - 1 THEN k - 1 - 1 + 1 ELSE 0)
      /\ \A i \in 1 .. k - 1 - 1 + 1 : SubSeq(list, 1, k - 1)[i] = list[1 + i - 1]
  BY <1>1, <1>2, SubSeqProperties
<1>4. (IF 1 <= k - 1 THEN k - 1 - 1 + 1 ELSE 0) = k - 1 /\ k - 1 - 1 + 1 = k - 1
  BY <1>1
<1>5. \A i \in 1 .. k - 1 : 1 + i - 1 = i
  BY <1>1
<1> QED
  BY <1>3, <1>4, <1>5

LEMMA Back_part ==
  ASSUME NEW S, NEW list \in Seq(S), NEW k \in 1 .. Len(list) + 1
  PROVE  /\ SubSeq(list, k, Len(list)) \in Seq(S)
         /\ Len(SubSeq(list, k, Len(list))) = Len(list) - k + 1
         /\ \A i \in 1 .. Len(list) - k + 1 : SubSeq(list, k, Len(list))[i] = list[k + i - 1]
<1>1. Len(list) \in Nat /\ k \in Int /\ k >= 1 /\ k <= Len(list) + 1
  BY Positions
<1>2. \A i \in k .. Len(list) : list[i] \in S
  BY <1>1, Positions
<1>3. /\ SubSeq(list, k, Len(list)) \in Seq(S)
      /\ Len(SubSeq(list, k, Len(list))) = (IF k <= Len(list) THEN Len(list) - k + 1 ELSE 0)
      /\ \A i \in 1 .. Len(list) - k + 1 : SubSeq(list, k, Len(list))[i] = list[k + i - 1]
  BY <1>1, <1>2, SubSeqProperties
<1>4. (IF k <= Len(list) THEN Len(list) - k + 1 ELSE 0) = Len(list) - k + 1
  BY <1>1
<1> QED
  BY <1>3, <1>4

\* An element in front of a position of a list it is not in.
LEMMA Inserted ==
  ASSUME NEW S, NEW list \in Seq(S), NEW e \in S, e \notin Range(list), Is_distinct(list),
         NEW p \in 1 .. Len(list) + 1
  PROVE  /\ InsertAt(list, p, e) \in Seq(S) /\ Is_distinct(InsertAt(list, p, e))
         /\ Range(InsertAt(list, p, e)) = Range(list) \cup {e}
<1> DEFINE n == Len(list)
           a == SubSeq(list, 1, p - 1)
           b == SubSeq(list, p, n)
           ae == a \o <<e>>
           q == ae \o b
<1>1. n \in Nat /\ DOMAIN list = 1 .. n /\ p \in Nat /\ p >= 1 /\ p <= n + 1
  BY Positions
<1>2. a \in Seq(S) /\ Len(a) = p - 1 /\ \A i \in 1 .. p - 1 : a[i] = list[i]
  BY Front_part
<1>3. b \in Seq(S) /\ Len(b) = n - p + 1 /\ \A i \in 1 .. n - p + 1 : b[i] = list[p + i - 1]
  BY Back_part
<1>4. InsertAt(list, p, e) = q
  BY DEF InsertAt
<1> HIDE DEF n, a, b
<1>5. /\ ae \in Seq(S) /\ Len(ae) = p
      /\ \A i \in 1 .. p : ae[i] = IF i <= p - 1 THEN list[i] ELSE e
  <2>1. <<e>> \in Seq(S) /\ Len(<<e>>) = 1 /\ <<e>>[1] = e
    OBVIOUS
  <2>2. /\ ae \in Seq(S) /\ Len(ae) = Len(a) + 1
        /\ \A i \in 1 .. Len(a) + 1 : ae[i] = IF i <= Len(a) THEN a[i] ELSE <<e>>[i - Len(a)]
    BY <1>2, <2>1, ConcatProperties
  <2> HIDE DEF ae
  <2>3. Len(a) + 1 = p
    BY <1>1, <1>2
  <2>4. ASSUME NEW i \in 1 .. p PROVE ae[i] = IF i <= p - 1 THEN list[i] ELSE e
    <3>1. ae[i] = IF i <= p - 1 THEN a[i] ELSE <<e>>[i - (p - 1)]
      BY <1>2, <2>2, <2>3
    <3>2. ~(i <= p - 1) => i - (p - 1) = 1
      BY <1>1
    <3>3. i <= p - 1 => i \in 1 .. p - 1
      BY <1>1
    <3> QED BY <1>2, <2>1, <3>1, <3>2, <3>3
  <2> QED BY <2>2, <2>3, <2>4
<1> HIDE DEF ae
<1>6. /\ q \in Seq(S) /\ Len(q) = Len(ae) + Len(b)
      /\ \A i \in 1 .. Len(ae) + Len(b) : q[i] = IF i <= Len(ae) THEN ae[i] ELSE b[i - Len(ae)]
  BY <1>3, <1>5, ConcatProperties
<1> HIDE DEF q
<1>7. Len(ae) + Len(b) = n + 1
  BY <1>1, <1>3, <1>5
<1>8. q \in Seq(S) /\ DOMAIN q = 1 .. n + 1
  BY <1>6, <1>7, Positions
<1>9. ASSUME NEW i \in 1 .. n + 1
      PROVE  q[i] = IF i < p THEN list[i] ELSE IF i = p THEN e ELSE list[i - 1]
  <2>1. q[i] = IF i <= p THEN ae[i] ELSE b[i - p]
    BY <1>5, <1>6, <1>7
  <2>2. i <= p => i \in 1 .. p /\ (i <= p - 1 <=> i < p) /\ (~(i < p) => i = p)
    BY <1>1
  <2>3. ~(i <= p) => i - p \in 1 .. n - p + 1 /\ p + (i - p) - 1 = i - 1 /\ ~(i < p) /\ i # p
    BY <1>1
  <2>4. CASE i <= p
    <3>1. i \in 1 .. p /\ ae[i] = IF i <= p - 1 THEN list[i] ELSE e
      BY <1>5, <2>2, <2>4
    <3> QED BY <2>1, <2>2, <2>4, <3>1
  <2>5. CASE ~(i <= p)
    <3>1. b[i - p] = list[p + (i - p) - 1]
      BY <1>3, <2>3, <2>5
    <3> QED BY <2>1, <2>3, <2>5, <3>1
  <2> QED BY <2>4, <2>5
<1>10. \A i \in 1 .. n : list[i] # e
  BY <1>1 DEF Range
<1>11. Is_distinct(q)
  <2> SUFFICES ASSUME NEW i \in 1 .. n + 1, NEW k \in 1 .. n + 1, q[i] = q[k]
               PROVE  i = k
    BY <1>8 DEF Is_distinct
  <2> DEFINE f(m) == IF m < p THEN m ELSE m - 1
  <2>1. \A m \in 1 .. n + 1 : m # p => f(m) \in 1 .. n /\ q[m] = list[f(m)]
    BY <1>1, <1>9
  <2>2. q[p] = e /\ p \in 1 .. n + 1
    BY <1>1, <1>9
  <2>3. i # p /\ k # p => f(i) = f(k)
    BY <1>1, <2>1 DEF Is_distinct
  <2>4. i # p /\ k # p => i = k
    BY <1>1, <2>3
  <2> HIDE DEF f
  <2> QED BY <1>10, <2>1, <2>2, <2>4
<1>12. Range(q) = Range(list) \cup {e}
  <2>1. \A m \in 1 .. n + 1 : q[m] \in Range(list) \cup {e}
    <3> SUFFICES ASSUME NEW m \in 1 .. n + 1 PROVE q[m] \in Range(list) \cup {e}
      OBVIOUS
    <3>1. m < p => m \in 1 .. n
      BY <1>1
    <3>2. ~(m < p) /\ m # p => m - 1 \in 1 .. n
      BY <1>1
    <3> QED BY <1>1, <1>9, <3>1, <3>2 DEF Range
  <2>2. q[p] = e /\ p \in 1 .. n + 1
    BY <1>1, <1>9
  <2>3. ASSUME NEW m \in 1 .. n PROVE \E i \in 1 .. n + 1 : q[i] = list[m]
    <3>1. CASE m < p
      <4>1. m \in 1 .. n + 1
        BY <1>1
      <4> QED BY <1>9, <3>1, <4>1
    <3>2. CASE ~(m < p)
      <4>1. m + 1 \in 1 .. n + 1 /\ ~(m + 1 < p) /\ m + 1 # p /\ m + 1 - 1 = m
        BY <1>1, <3>2
      <4>2. q[m + 1] = list[m + 1 - 1]
        BY <1>9, <4>1
      <4> QED BY <4>1, <4>2
    <3> QED BY <3>1, <3>2
  <2> QED BY <1>1, <1>8, <2>1, <2>2, <2>3 DEF Range
<1> QED
  BY <1>4, <1>8, <1>11, <1>12

\* list::erase of the first position of an element.
LEMMA Removed ==
  ASSUME NEW S, NEW list \in Seq(S), NEW e, Is_distinct(list)
  PROVE  /\ RemoveFirst(list, e) \in Seq(S) /\ Is_distinct(RemoveFirst(list, e))
         /\ Range(RemoveFirst(list, e)) = Range(list) \ {e}
<1> DEFINE n == Len(list)
<1>1. n \in Nat /\ DOMAIN list = 1 .. n
  BY Positions
<1>2. CASE ~ \E i \in 1 .. n : list[i] = e
  <2>1. RemoveFirst(list, e) = list
    BY <1>2 DEF RemoveFirst
  <2>2. e \notin Range(list)
    BY <1>1, <1>2 DEF Range
  <2> QED BY <2>1, <2>2
<1>3. CASE \E i \in 1 .. n : list[i] = e
  <2> DEFINE I == {i \in 1 .. n : list[i] = e}
             p == CHOOSE x \in I : \A y \in I : x =< y
             a == SubSeq(list, 1, p - 1)
             b == SubSeq(list, p + 1, n)
             q == a \o b
  <2>1. RemoveFirst(list, e) = q
    <3>1. SelectInSeq(list, LAMBDA v : v = e) = p
      BY <1>3 DEF SelectInSeq, Min
    <3> HIDE DEF p
    <3> QED BY <1>3, <3>1 DEF RemoveFirst, RemoveAt
  <2>2. p \in 1 .. n /\ list[p] = e
    <3>1. I \subseteq Nat /\ I # {}
      BY <1>3
    <3>2. \E i \in I : \A k \in I : i <= k
      <4> HIDE DEF I
      <4> QED BY <3>1, First_position
    <3>3. p \in I
      <4> HIDE DEF I
      <4> QED BY <3>2
    <3> QED BY <3>3
  <2> HIDE DEF p, n
  <2>3. p + 1 \in 1 .. n + 1 /\ p \in 1 .. n + 1 /\ p \in Nat
    BY <1>1, <2>2
  <2>4. a \in Seq(S) /\ Len(a) = p - 1 /\ \A i \in 1 .. p - 1 : a[i] = list[i]
    BY <2>3, Front_part DEF n
  <2>5. b \in Seq(S) /\ Len(b) = n - p /\ \A i \in 1 .. n - p : b[i] = list[p + i]
    <3>1. /\ b \in Seq(S) /\ Len(b) = n - (p + 1) + 1
          /\ \A i \in 1 .. n - (p + 1) + 1 : b[i] = list[p + 1 + i - 1]
      BY <2>3, Back_part DEF n
    <3>2. n - (p + 1) + 1 = n - p /\ \A i \in 1 .. n - p : p + 1 + i - 1 = p + i
      BY <1>1, <2>3
    <3> QED BY <3>1, <3>2
  <2> HIDE DEF a, b
  <2>6. /\ q \in Seq(S) /\ Len(q) = Len(a) + Len(b)
        /\ \A i \in 1 .. Len(a) + Len(b) : q[i] = IF i <= Len(a) THEN a[i] ELSE b[i - Len(a)]
    BY <2>4, <2>5, ConcatProperties
  <2> HIDE DEF q
  <2>7. Len(a) + Len(b) = n - 1
    BY <1>1, <2>3, <2>4, <2>5
  <2>8. DOMAIN q = 1 .. n - 1
    BY <2>6, <2>7, Positions
  <2> DEFINE f(i) == IF i < p THEN i ELSE i + 1
  <2>9. ASSUME NEW i \in 1 .. n - 1
        PROVE  f(i) \in 1 .. n /\ f(i) # p /\ q[i] = list[f(i)]
    <3>1. q[i] = IF i <= p - 1 THEN a[i] ELSE b[i - (p - 1)]
      BY <2>4, <2>6, <2>7
    <3>2. CASE i < p
      <4>1. i \in 1 .. p - 1 /\ i <= p - 1 /\ i \in 1 .. n
        BY <1>1, <2>3, <3>2
      <4> QED BY <2>4, <3>1, <3>2, <4>1
    <3>3. CASE ~(i < p)
      <4>1. /\ ~(i <= p - 1) /\ i - (p - 1) \in 1 .. n - p /\ p + (i - (p - 1)) = i + 1
            /\ i + 1 \in 1 .. n /\ i + 1 # p
        BY <1>1, <2>2, <2>3, <3>3
      <4>2. b[i - (p - 1)] = list[p + (i - (p - 1))]
        BY <2>5, <4>1
      <4> QED BY <3>1, <3>3, <4>1, <4>2
    <3> QED BY <3>2, <3>3
  <2>10. \A i, k \in 1 .. n - 1 : f(i) = f(k) => i = k
    BY <2>3
  <2>11. \A m \in 1 .. n : m # p => \E i \in 1 .. n - 1 : f(i) = m
    <3> SUFFICES ASSUME NEW m \in 1 .. n, m # p PROVE \E i \in 1 .. n - 1 : f(i) = m
      OBVIOUS
    <3>1. CASE m < p
      <4>1. m \in 1 .. n - 1 /\ f(m) = m
        BY <1>1, <2>2, <2>3, <3>1
      <4> QED BY <4>1
    <3>2. CASE m > p
      <4>1. m - 1 \in 1 .. n - 1 /\ f(m - 1) = m
        BY <1>1, <2>2, <2>3, <3>2
      <4> QED BY <4>1
    <3> QED BY <2>3, <3>1, <3>2
  <2> HIDE DEF f
  <2>12. Is_distinct(q)
    <3> SUFFICES ASSUME NEW i \in 1 .. n - 1, NEW k \in 1 .. n - 1, q[i] = q[k]
                 PROVE  i = k
      BY <2>8 DEF Is_distinct
    <3>1. f(i) = f(k)
      BY <1>1, <2>9 DEF Is_distinct
    <3> QED BY <2>10, <3>1
  <2>13. \A m \in 1 .. n : list[m] = e <=> m = p
    BY <1>1, <2>2 DEF Is_distinct
  <2>14. Range(q) \subseteq Range(list) \ {e}
    BY <1>1, <2>8, <2>9, <2>13 DEF Range
  <2>15. Range(list) \ {e} \subseteq Range(q)
    <3> SUFFICES ASSUME NEW m \in 1 .. n, list[m] # e PROVE list[m] \in Range(q)
      BY <1>1 DEF Range
    <3>1. PICK i \in 1 .. n - 1 : f(i) = m
      BY <2>11, <2>13
    <3> QED BY <2>8, <2>9, <3>1 DEF Range
  <2> QED BY <2>1, <2>6, <2>12, <2>14, <2>15
<1> QED
  BY <1>2, <1>3

-----------------------------------------------------------------------------
(* Folds over a finite set: the function that a fold defines exists if     *)
(* every step stays in a set of values, and then has its values there.     *)

LEMMA Subset_sizes ==
  ASSUME NEW S, IsFiniteSet(S)
  PROVE  /\ Cardinality(S) \in Nat
         /\ \A u \in SUBSET S :
              /\ IsFiniteSet(u) /\ Cardinality(u) \in Nat /\ Cardinality(u) <= Cardinality(S)
              /\ Cardinality(u) = 0 <=> u = {}
              /\ \A x \in u : Cardinality(u \ {x}) = Cardinality(u) - 1
<1>1. Cardinality(S) \in Nat
  BY FS_CardinalityType
<1>2. ASSUME NEW u \in SUBSET S
      PROVE  /\ IsFiniteSet(u) /\ Cardinality(u) \in Nat /\ Cardinality(u) <= Cardinality(S)
             /\ Cardinality(u) = 0 <=> u = {}
             /\ \A x \in u : Cardinality(u \ {x}) = Cardinality(u) - 1
  <2>1. IsFiniteSet(u) /\ Cardinality(u) <= Cardinality(S)
    BY FS_Subset
  <2>2. Cardinality(u) \in Nat
    BY <2>1, FS_CardinalityType
  <2>3. Cardinality(u) = 0 <=> u = {}
    BY <2>1, FS_EmptySet
  <2>4. \A x \in u : Cardinality(u \ {x}) = Cardinality(u) - 1
    BY <2>1, FS_RemoveElement
  <2> QED BY <2>1, <2>2, <2>3, <2>4
<1> QED
  BY <1>1, <1>2

LEMMA Subsets_reached ==
  ASSUME NEW S, IsFiniteSet(S), NEW Reached, {} \in Reached,
         \A u \in SUBSET S : u # {} => \E x \in u : u \ {x} \in Reached => u \in Reached
  PROVE  SUBSET S \subseteq Reached
<1> DEFINE I == {Cardinality(u) : u \in (SUBSET S) \ Reached}
<1>1. SUFFICES ASSUME ~(SUBSET S \subseteq Reached) PROVE FALSE
  OBVIOUS
<1>2. I \subseteq Nat /\ I # {}
  BY <1>1, Subset_sizes
<1>3. PICK i \in I : \A k \in I : i <= k
  <2> HIDE DEF I
  <2> QED BY <1>2, First_position
<1>4. PICK u \in (SUBSET S) \ Reached : i = Cardinality(u)
  BY <1>3
<1>5. PICK x \in u : u \ {x} \in Reached => u \in Reached
  BY <1>4
<1>6. u \ {x} \in (SUBSET S) \ Reached
  BY <1>4, <1>5
<1>7. Cardinality(u \ {x}) = Cardinality(u) - 1 /\ Cardinality(u) \in Nat
  BY <1>4, <1>5, Subset_sizes
<1>8. Cardinality(u \ {x}) \in I
  BY <1>6
<1> HIDE DEF I
<1>9. i <= Cardinality(u \ {x})
  BY <1>3, <1>8
<1> QED
  BY <1>4, <1>7, <1>9

Is_fold(iter, S, base, op, pick) ==
  \A u \in SUBSET S :
    iter[u] = IF u = {} THEN base ELSE op[<<pick[u], iter[u \ {pick[u]}]>>]

LEMMA Fold_exists ==
  ASSUME NEW S, IsFiniteSet(S), NEW X, NEW base \in X, NEW op \in [S \X X -> X], NEW pick,
         \A u \in SUBSET S : u # {} => pick[u] \in u
  PROVE  \E iter \in [SUBSET S -> X] : Is_fold(iter, S, base, op, pick)
<1> DEFINE Up_to(k) == {u \in SUBSET S : Cardinality(u) <= k}
           Next_of(it, u) == IF u = {} THEN base ELSE op[<<pick[u], it[u \ {pick[u]}]>>]
           Good == {k \in Nat : \E it \in [SUBSET S -> X] :
                                  \A u \in Up_to(k) : it[u] = Next_of(it, u)}
<1>1. 0 \in Good
  <2>1. \A u \in Up_to(0) : u = {}
    BY Subset_sizes
  <2>2. [u \in SUBSET S |-> base] \in [SUBSET S -> X]
    OBVIOUS
  <2>3. \A u \in Up_to(0) : [v \in SUBSET S |-> base][u] = Next_of([v \in SUBSET S |-> base], u)
    BY <2>1
  <2> QED BY <2>2, <2>3
<1>2. ASSUME NEW k \in Good PROVE k + 1 \in Good
  <2>1. PICK it \in [SUBSET S -> X] : \A u \in Up_to(k) : it[u] = Next_of(it, u)
    OBVIOUS
  <2> DEFINE jt == [u \in SUBSET S |-> Next_of(it, u)]
  <2>2. ASSUME NEW u \in SUBSET S PROVE Next_of(it, u) \in X
    <3>1. u # {} => pick[u] \in S /\ u \ {pick[u]} \in SUBSET S
      OBVIOUS
    <3>2. u # {} => it[u \ {pick[u]}] \in X
      BY <2>1, <3>1
    <3> QED BY <3>1, <3>2
  <2>3. jt \in [SUBSET S -> X]
    BY <2>2
  <2>4. ASSUME NEW u \in Up_to(k + 1) PROVE jt[u] = Next_of(jt, u)
    <3>1. CASE u = {}
      BY <3>1
    <3>2. CASE u # {}
      <4>1. pick[u] \in u /\ u \in SUBSET S
        BY <3>2
      <4>2. Cardinality(u \ {pick[u]}) = Cardinality(u) - 1 /\ Cardinality(u) \in Nat
        BY <4>1, Subset_sizes
      <4>3. u \ {pick[u]} \in Up_to(k) /\ u \ {pick[u]} \in SUBSET S
        BY <4>1, <4>2
      <4>4. jt[u \ {pick[u]}] = it[u \ {pick[u]}]
        BY <2>1, <4>3
      <4> QED BY <3>2, <4>1, <4>4
    <3> QED BY <3>1, <3>2
  <2> HIDE DEF jt, Next_of
  <2> QED BY <2>3, <2>4
<1>3. Nat \subseteq Good
  <2> DEFINE I == Nat \ Good
  <2>1. SUFFICES ASSUME I # {} PROVE FALSE
    OBVIOUS
  <2>2. PICK i \in I : \A k \in I : i <= k
    <3>1. I \subseteq Nat
      OBVIOUS
    <3> HIDE DEF I
    <3> QED BY <2>1, <3>1, First_position
  <2> HIDE DEF Good
  <2>3. i \in Nat /\ i # 0
    BY <1>1, <2>2
  <2>4. i - 1 \in Nat /\ i - 1 \notin I
    BY <2>2, <2>3
  <2>5. i - 1 + 1 \in Good
    BY <1>2, <2>4
  <2> QED BY <2>2, <2>3, <2>5
<1>4. Cardinality(S) \in Nat /\ Up_to(Cardinality(S)) = SUBSET S
  BY Subset_sizes
<1>5. PICK it \in [SUBSET S -> X] : \A u \in SUBSET S : it[u] = Next_of(it, u)
  <2> HIDE DEF Next_of
  <2>1. Cardinality(S) \in Good
    BY <1>3, <1>4
  <2> QED BY <1>4, <2>1
<1> QED
  BY <1>5 DEF Is_fold

-----------------------------------------------------------------------------
(* What may be processed.                                                  *)

\* The first position an element of a list passes a test at.
LEMMA Referenced_node ==
  ASSUME NEW s, NEW n \in Nodes \cup {End}
  PROVE  /\ Referenced(s, n) \in n..End /\ Referenced(s, n) \in Nodes \cup {End}
         /\ Referenced(s, n) # End => s.action[Referenced(s, n)] # "next_state"
<1> DEFINE P(m) == /\ m # End => s.action[m] # "next_state"
                   /\ \A k \in n..(m - 1) : s.action[k] = "next_state"
           I == {m \in n..End : m # End => s.action[m] # "next_state"}
<1>1. N \in Nat /\ n \in Nat /\ n <= End /\ n >= 1 /\ End \in Nat
  BY OrdersAssumption DEF Nodes, End
<1>2. End \in I /\ I \subseteq Nat
  BY <1>1
<1>3. PICK m \in I : \A k \in I : m <= k
  <2> HIDE DEF I
  <2> QED BY <1>2, First_position
<1>4. m \in n..End /\ P(m)
  <2>1. m \in n..End /\ (m # End => s.action[m] # "next_state")
    BY <1>3
  <2>2. ASSUME NEW k \in n..(m - 1) PROVE s.action[k] = "next_state"
    <3>1. k \in n..End /\ k < m /\ k # End
      BY <1>1, <2>1, <2>2
    <3>2. k \notin I
      BY <1>1, <1>3, <2>1, <3>1
    <3> QED BY <3>1, <3>2
  <2> QED BY <2>1, <2>2
<1>5. Referenced(s, n) \in n..End /\ P(Referenced(s, n))
  <2>1. Referenced(s, n) = CHOOSE i \in n..End : P(i)
    BY DEF Referenced
  <2> HIDE DEF P
  <2> QED BY <1>4, <2>1
<1>6. \A i \in n..End : i \in Nodes \cup {End}
  BY <1>1 DEF Nodes, End
<1> QED
  BY <1>5, <1>6

LEMMA First_selected ==
  ASSUME NEW S, NEW list \in Seq(S), NEW I, I \subseteq 1 .. Len(list), NEW k,
         k = IF I # {} THEN Min(I) ELSE 0
  PROVE  k = 0 \/ k \in I
<1>1. CASE I # {}
  <2>1. I \subseteq Nat
    BY Positions
  <2>2. \E i \in I : \A m \in I : i =< m
    BY <1>1, <2>1, First_position
  <2> QED BY <1>1, <2>2 DEF Min
<1> QED
  BY <1>1

LEMMA Numbers ==
  /\ N \in Nat /\ N >= 1 /\ End = N + 1 /\ Out = 0 /\ Nodes = 1 .. N
  /\ Zero = 0 /\ Past = 1 /\ Future = 2 /\ Never = 3 /\ Times = 0 .. 3
  /\ End \notin Nodes /\ Out \notin Nodes /\ Out # End
BY OrdersAssumption DEF Nodes, End, Out, Zero, Past, Future, Never, Times

\* The parts of a state.
LEMMA State_parts ==
  ASSUME NEW s \in States
  PROVE  /\ s.order \in [Orders -> Order_objects] /\ s.queue \in [Nodes -> Seq(Orders)]
         /\ s.action \in [Nodes -> Actions] /\ s.stopped \in BOOLEAN
         /\ s.timed \in [Jobs -> Times] /\ s.calculated \in [Jobs -> Register_entries]
         /\ s.available \in [Jobs -> BOOLEAN] /\ s.closed \in [Jobs -> BOOLEAN]
         /\ s.task \in [Tasks -> Task_objects]
BY DEF States

LEMMA Order_parts ==
  ASSUME NEW x \in Order_objects
  PROVE  /\ x.node \in Places /\ x.initial \in Nodes /\ x.setback \in Times
         /\ x.setback_count \in Nat /\ x.setback_called \in BOOLEAN /\ x.suspended \in BOOLEAN
         /\ x.blacklisted \in BOOLEAN /\ x.touched \in BOOLEAN /\ x.moved \in BOOLEAN
         /\ x.task \in Tasks \cup {None} /\ x.replacement_for \in Orders \cup {None}
BY DEF Order_objects

\* One order of a state changes.
LEMMA Order_set ==
  ASSUME NEW s \in States, NEW o \in Orders, NEW x \in Order_objects
  PROVE  LET r == [s EXCEPT !.order[o] = x] IN
         /\ r \in States
         /\ r.order[o] = x /\ \A p \in Orders : p # o => r.order[p] = s.order[p]
         /\ r.queue = s.queue /\ r.action = s.action /\ r.stopped = s.stopped
         /\ r.task = s.task
BY DEF States

\* Only the calls of the jobs change.
Signals(s, r) ==
    /\ r \in States
    /\ r.order = s.order /\ r.queue = s.queue /\ r.action = s.action /\ r.stopped = s.stopped
    /\ r.task = s.task

LEMMA First_processable_order ==
  ASSUME NEW s \in States, NEW n \in Nodes
  PROVE  LET o == First_processable(s, n) IN
         /\ o \in Orders \cup {None}
         /\ o # None => o \in Range(s.queue[n]) /\ Is_processable(s, o)
<1> DEFINE list == s.queue[n]
           I == {i \in 1 .. Len(list) : Is_processable(s, list[i])}
           k == SelectInSeq(list, LAMBDA o : Is_processable(s, o))
<1>1. list \in Seq(Orders)
  BY State_parts
<1>2. k = IF I # {} THEN Min(I) ELSE 0
  BY DEF SelectInSeq
<1>3. k = 0 \/ k \in I
  <2> HIDE DEF k
  <2>1. I \subseteq 1 .. Len(list)
    OBVIOUS
  <2> HIDE DEF I, list
  <2> QED BY <1>1, <1>2, <2>1, First_selected
<1>4. First_processable(s, n) = IF k = 0 THEN None ELSE list[k]
  BY DEF First_processable, First
<1> HIDE DEF k, list
<1> QED
  BY <1>1, <1>3, <1>4, Positions DEF Range, list

LEMMA First_immediately_processable_order ==
  ASSUME NEW s \in States, NEW n \in Nodes
  PROVE  LET o == First_immediately_processable(s, n) IN
         /\ o \in Orders \cup {None}
         /\ o # None => /\ o \in Range(s.queue[n]) /\ Is_processable(s, o)
                        /\ s.order[o].setback <= Past
                        /\ s.order[o].touched \/ Untouched_is_allowed(s)
<1> DEFINE list == s.queue[n]
           I == {i \in 1 .. Len(list) : Is_startable(s, list[i]) \/ s.order[list[i]].setback > Past}
           k == SelectInSeq(list, LAMBDA x : Is_startable(s, x) \/ s.order[x].setback > Past)
           o == First(list, LAMBDA x : Is_startable(s, x) \/ s.order[x].setback > Past)
<1>1. list \in Seq(Orders)
  BY State_parts
<1>2. k = IF I # {} THEN Min(I) ELSE 0
  BY DEF SelectInSeq
<1>3. k = 0 \/ k \in I
  <2> HIDE DEF k
  <2>1. I \subseteq 1 .. Len(list)
    OBVIOUS
  <2> HIDE DEF I, list
  <2> QED BY <1>1, <1>2, <2>1, First_selected
<1>4. First_immediately_processable(s, n) = IF o # None /\ Is_startable(s, o) THEN o ELSE None
  BY ZenonT(60) DEF First_immediately_processable
<1>5. o = IF k = 0 THEN None ELSE list[k]
  BY DEF First
<1> HIDE DEF k, list, o
<1>6. o # None => o \in Range(list) /\ o \in Orders
  BY <1>1, <1>3, <1>5, Positions DEF Range
<1> QED
  BY <1>4, <1>6 DEF list, Is_startable

LEMMA Least_time ==
  ASSUME NEW T, T \subseteq Times, T # {}
  PROVE  Least(T) \in T
<1>1. T \subseteq Nat
  BY Numbers
<1>2. \E t \in T : \A u \in T : t <= u
  BY <1>1, First_position
<1> QED
  BY <1>2 DEF Least

LEMMA Next_time_type ==
  ASSUME NEW s \in States, NEW o \in Orders
  PROVE  Next_time(s, o) \in Times
BY State_parts, Order_parts, Numbers DEF Next_time

LEMMA Next_order_time_type ==
  ASSUME NEW s \in States, NEW j \in Jobs
  PROVE  Next_order_time(s, j) \in Times
<1> DEFINE first == {First_processable(s, n) : n \in Nodes_of(j)} \ {None}
           T == {Next_time(s, o) : o \in first} \cup {Never}
<1>1. first \subseteq Orders
  BY First_processable_order DEF Nodes_of
<1>2. Never \in Times
  BY Numbers
<1>3. T \subseteq Times /\ T # {}
  <2> HIDE DEF first
  <2> QED BY <1>1, <1>2, Next_time_type
<1>4. Least(T) \in Times
  <2> HIDE DEF T
  <2> QED BY <1>3, Least_time
<1> QED
  BY <1>4 DEF Next_order_time

-----------------------------------------------------------------------------
(* Signals to the jobs.                                                    *)

LEMMA Signals_to ==
  ASSUME NEW s \in States, NEW r, NEW q, Signals(s, r), Signals(r, q)
  PROVE  Signals(s, q)
BY DEF Signals

LEMMA Timed_set ==
  ASSUME NEW s \in States, NEW j \in Jobs, NEW t \in Times
  PROVE  Signals(s, [s EXCEPT !.timed[j] = t])
BY DEF States, Signals

LEMMA Signal_signals ==
  ASSUME NEW s \in States, NEW o \in Orders
  PROVE  Signals(s, Signal(s, o))
<1> DEFINE n == s.order[o].node
           t == Next_time(s, o)
<1>1. t \in Times
  BY Next_time_type
<1> HIDE DEF t
<1>2. CASE n \in Nodes /\ t # Never
  <2>1. JobOf[n] \in Jobs
    BY <1>2, OrdersAssumption
  <2>2. Signal(s, o) = [s EXCEPT !.timed[JobOf[n]] = IF @ >= t THEN t ELSE @]
    BY <1>2 DEF Signal, t
  <2> DEFINE j == JobOf[n]
             at == IF s.timed[j] >= t THEN t ELSE s.timed[j]
  <2>3. at \in Times
    BY <1>1, <2>1, State_parts
  <2>4. Signal(s, o) = [s EXCEPT !.timed[j] = at]
    BY <2>1, <2>2 DEF States
  <2> HIDE DEF at
  <2> QED BY <2>1, <2>3, <2>4, Timed_set
<1>3. CASE ~(n \in Nodes /\ t # Never)
  <2>1. Signal(s, o) = s
    BY <1>3 DEF Signal, t
  <2> QED BY <2>1 DEF Signals
<1> QED
  BY <1>2, <1>3

LEMMA Wake_node_signals ==
  ASSUME NEW s \in States, NEW n \in Nodes
  PROVE  Signals(s, Wake_node(s, n))
<1> DEFINE o == First_processable(s, n)
           s1 == [s EXCEPT !.available[JobOf[n]] = TRUE]
<1>1. o \in Orders \cup {None}
  BY First_processable_order
<1>2. JobOf[n] \in Jobs
  BY OrdersAssumption
<1>3. Signals(s, s1)
  BY <1>2 DEF States, Signals
<1>4. Wake_node(s, n) = IF o = None THEN s1 ELSE Signal(s1, o)
  BY DEF Wake_node
<1> HIDE DEF o, s1
<1>5. o # None => Signals(s1, Signal(s1, o))
  BY <1>1, <1>3, Signal_signals DEF Signals
<1> QED
  BY <1>3, <1>4, <1>5, Signals_to

LEMMA Wake_orders_signals ==
  ASSUME NEW s \in States
  PROVE  Signals(s, Wake_orders(s))
<1> DEFINE X == {r \in States : Signals(s, r)}
           Body(it) == [u \in SUBSET Nodes |->
                          IF u = {} THEN s
                          ELSE LET n == CHOOSE n \in u : TRUE
                               IN  Wake_node(it[u \ {n}], n)]
           iter == CHOOSE it : it = Body(it)
<1>1. ~s.stopped => Wake_orders(s) = iter[Nodes]
  BY DEF Wake_orders, FoldSet, MapThenFoldSet
<1>2. s \in X
  BY DEF Signals
<1>3. \A n \in Nodes, r \in X : Wake_node(r, n) \in X
  BY Wake_node_signals, Signals_to DEF Signals
<1>4. IsFiniteSet(Nodes)
  BY Numbers, FS_Interval
<1>5. \E it : it = Body(it) /\ it \in [SUBSET Nodes -> X]
  <2> DEFINE op == [p \in Nodes \X X |-> Wake_node(p[2], p[1])]
             pick == [u \in SUBSET Nodes |-> CHOOSE n \in u : TRUE]
  <2> HIDE DEF X
  <2>1. op \in [Nodes \X X -> X]
    BY <1>3
  <2>2. \A u \in SUBSET Nodes : u # {} => pick[u] \in u
    OBVIOUS
  <2>3. PICK it \in [SUBSET Nodes -> X] : Is_fold(it, Nodes, s, op, pick)
    <3> HIDE DEF op, pick, Body, iter
    <3> QED BY <1>2, <1>4, <2>1, <2>2, Fold_exists
  <2>4. ASSUME NEW u \in SUBSET Nodes, u # {}
        PROVE  op[<<pick[u], it[u \ {pick[u]}]>>] = Wake_node(it[u \ {pick[u]}], pick[u])
    <3>1. pick[u] \in Nodes /\ it[u \ {pick[u]}] \in X
      <4> HIDE DEF pick
      <4> QED BY <2>2, <2>4
    <3> HIDE DEF pick
    <3> QED BY <3>1
  <2>5. \A u \in SUBSET Nodes : pick[u] = CHOOSE n \in u : TRUE
    OBVIOUS
  <2>6. it = Body(it)
    <3> HIDE DEF op, pick, iter
    <3> QED BY <2>3, <2>4, <2>5 DEF Is_fold
  <2> QED BY <2>6
<1>6. iter = Body(iter)
  BY <1>5
<1> HIDE DEF iter, X
<1>7. SUBSET Nodes \subseteq {u \in SUBSET Nodes : iter[u] \in X}
  <2> DEFINE Reached == {u \in SUBSET Nodes : iter[u] \in X}
  <2>1. {} \in Reached
    BY <1>2, <1>6
  <2>2. ASSUME NEW u \in SUBSET Nodes, u # {}
        PROVE  \E n \in u : u \ {n} \in Reached => u \in Reached
    <3>1. (CHOOSE n \in u : TRUE) \in u
      BY <2>2
    <3> DEFINE m == CHOOSE n \in u : TRUE
    <3>2. iter[u] = Wake_node(iter[u \ {m}], m)
      BY <1>6, <2>2
    <3> HIDE DEF m
    <3>3. m \in u
      BY <3>1 DEF m
    <3> QED BY <1>3, <3>2, <3>3
  <2> HIDE DEF Reached
  <2>3. SUBSET Nodes \subseteq Reached
    BY <1>4, <2>1, <2>2, Subsets_reached
  <2> QED BY <2>3 DEF Reached
<1>8. iter[Nodes] \in X
  BY <1>7
<1>9. s.stopped => Wake_orders(s) = s
  BY DEF Wake_orders
<1> QED
  BY <1>1, <1>2, <1>8, <1>9 DEF X

-----------------------------------------------------------------------------
(* What is done to one order, and what this leaves of the others.          *)

Is_well_queued(s) == s \in States /\ \A n \in Nodes : Is_distinct(s.queue[n])

\* Another order changes only in that it no longer waits for o.
Is_released(x, y, o) == x.replacement_for = o /\ y = [x EXCEPT !.replacement_for = None]
Others_stay(s, r, o) ==
    \A p \in Orders \ {o} :
        /\ r.order[p] = s.order[p] \/ Is_released(s.order[p], r.order[p], o)
        /\ \A n \in Nodes : p \in Range(r.queue[n]) <=> p \in Range(s.queue[n])

\* An order that has begun, and is in the chain, had begun and been there before.
Begun_before(x, y) == y.touched /\ y.node # Out => x.touched /\ x.node # Out

Acts_on(s, r, o) ==
    /\ Is_well_queued(r) /\ Others_stay(s, r, o) /\ Begun_before(s.order[o], r.order[o])
    /\ r.task = s.task /\ r.action = s.action /\ r.stopped = s.stopped

\* The order becomes x, in its place.
Becomes(s, r, o, x) == Acts_on(s, r, o) /\ r.order[o] = x /\ Is_placed(r, o)

Is_nowhere(s, o) == \A n \in Nodes : o \notin Range(s.queue[n])

LEMMA Acts_on_parts ==
  ASSUME NEW s, NEW o \in Orders, NEW r, Acts_on(s, r, o)
  PROVE  Is_well_queued(r) /\ r \in States
BY DEF Acts_on, Is_well_queued

LEMMA Acts_on_both ==
  ASSUME NEW s \in States, NEW o \in Orders, NEW r, NEW q, Acts_on(s, r, o), Acts_on(r, q, o)
  PROVE  Acts_on(s, q, o)
<1>1. r \in States /\ q \in States
  BY Acts_on_parts
<1>2. ASSUME NEW p \in Orders \ {o}
      PROVE  /\ q.order[p] = s.order[p] \/ Is_released(s.order[p], q.order[p], o)
             /\ \A n \in Nodes : p \in Range(q.queue[n]) <=> p \in Range(s.queue[n])
  <2>1. r.order[p] = s.order[p] \/ Is_released(s.order[p], r.order[p], o)
    BY DEF Acts_on, Others_stay
  <2>2. q.order[p] = r.order[p] \/ Is_released(r.order[p], q.order[p], o)
    BY DEF Acts_on, Others_stay
  <2>3. s.order[p] \in Order_objects
    BY State_parts
  <2>4. \A n \in Nodes : p \in Range(q.queue[n]) <=> p \in Range(s.queue[n])
    BY DEF Acts_on, Others_stay
  <2>5. None # o
    BY OrdersAssumption
  <2>6. Is_released(s.order[p], r.order[p], o) => r.order[p].replacement_for = None
    BY <2>3 DEF Is_released, Order_objects
  <2>7. ~(Is_released(s.order[p], r.order[p], o) /\ Is_released(r.order[p], q.order[p], o))
    BY <2>5, <2>6 DEF Is_released
  <2> QED BY <2>1, <2>2, <2>4, <2>7
<1>3. Begun_before(s.order[o], q.order[o])
  BY DEF Acts_on, Begun_before
<1> QED
  BY <1>2, <1>3 DEF Acts_on, Others_stay

LEMMA Becomes_both ==
  ASSUME NEW s \in States, NEW o \in Orders, NEW r, NEW q, NEW x, NEW y,
         Becomes(s, r, o, x), Becomes(r, q, o, y)
  PROVE  Becomes(s, q, o, y)
BY Acts_on_both DEF Becomes

LEMMA Becomes_parts ==
  ASSUME NEW s, NEW o \in Orders, NEW r, NEW x, Becomes(s, r, o, x)
  PROVE  /\ Is_well_queued(r) /\ r \in States /\ Is_placed(r, o) /\ r.order[o] = x
         /\ x \in Order_objects
         /\ r.task = s.task /\ r.action = s.action /\ r.stopped = s.stopped
BY Acts_on_parts, State_parts DEF Becomes, Acts_on

LEMMA Stays ==
  ASSUME NEW s, Is_well_queued(s), NEW o \in Orders, Is_placed(s, o)
  PROVE  Becomes(s, s, o, s.order[o])
BY DEF Becomes, Acts_on, Others_stay, Begun_before

LEMMA Signals_act ==
  ASSUME NEW s, Is_well_queued(s), NEW o \in Orders, NEW r, Signals(s, r)
  PROVE  /\ Acts_on(s, r, o)
         /\ Is_placed(s, o) => Becomes(s, r, o, s.order[o])
         /\ Is_nowhere(s, o) => Is_nowhere(r, o)
BY DEF Signals, Becomes, Acts_on, Others_stay, Is_well_queued, Is_placed, Is_nowhere, Begun_before

LEMMA Is_queued_where ==
  ASSUME NEW s, NEW o \in Orders, Is_placed(s, o)
  PROVE  /\ Is_queued(s, o) <=> s.order[o].node \in Nodes
         /\ s.order[o].node \notin Nodes => Is_nowhere(s, o)
BY DEF Is_queued, Is_placed, Is_nowhere

\* One order changes, but not its node.
LEMMA Order_changes ==
  ASSUME NEW s, Is_well_queued(s), NEW o \in Orders, NEW x \in Order_objects,
         Begun_before(s.order[o], x)
  PROVE  LET r == [s EXCEPT !.order[o] = x] IN
         /\ Acts_on(s, r, o) /\ r.order[o] = x /\ r.queue = s.queue
         /\ Is_placed(s, o) /\ x.node = s.order[o].node => Becomes(s, r, o, x)
<1> DEFINE r == [s EXCEPT !.order[o] = x]
<1>1. s \in States
  BY DEF Is_well_queued
<1>2. /\ r \in States
      /\ r.order[o] = x /\ \A p \in Orders : p # o => r.order[p] = s.order[p]
      /\ r.queue = s.queue /\ r.action = s.action /\ r.stopped = s.stopped
      /\ r.task = s.task
  BY <1>1, Order_set
<1> HIDE DEF r
<1>3. Acts_on(s, r, o)
  BY <1>2 DEF Acts_on, Others_stay, Is_well_queued
<1>4. Is_placed(s, o) /\ x.node = s.order[o].node => Becomes(s, r, o, x)
  BY <1>2, <1>3 DEF Becomes, Is_placed
<1> QED
  BY <1>2, <1>3, <1>4 DEF r

-----------------------------------------------------------------------------
(* The queue of a node.                                                    *)

LEMMA Queue_set ==
  ASSUME NEW s \in States, NEW n \in Nodes, NEW list \in Seq(Orders)
  PROVE  LET r == [s EXCEPT !.queue[n] = list] IN
         /\ r \in States /\ r.order = s.order
         /\ r.queue[n] = list /\ \A m \in Nodes : m # n => r.queue[m] = s.queue[m]
         /\ r.action = s.action /\ r.stopped = s.stopped /\ r.task = s.task
BY DEF States

LEMMA Remove_from_queue_acts ==
  ASSUME NEW s, Is_well_queued(s), NEW o \in Orders, s.order[o].node \in Nodes, Is_placed(s, o)
  PROVE  LET r == Remove_from_queue(s, o) IN
         Acts_on(s, r, o) /\ r.order = s.order /\ Is_nowhere(r, o)
<1> DEFINE n == s.order[o].node
           list == RemoveFirst(s.queue[n], o)
           r == [s EXCEPT !.queue[n] = list]
<1>1. s \in States /\ n \in Nodes
  BY DEF Is_well_queued
<1>2. s.queue[n] \in Seq(Orders) /\ Is_distinct(s.queue[n])
  BY <1>1, State_parts DEF Is_well_queued
<1>3. Remove_from_queue(s, o) = r
  BY DEF Remove_from_queue
<1> HIDE DEF n
<1>4. list \in Seq(Orders) /\ Is_distinct(list) /\ Range(list) = Range(s.queue[n]) \ {o}
  BY <1>2, Removed
<1> HIDE DEF list
<1>5. /\ r \in States /\ r.order = s.order
      /\ r.queue[n] = list /\ \A m \in Nodes : m # n => r.queue[m] = s.queue[m]
      /\ r.action = s.action /\ r.stopped = s.stopped /\ r.task = s.task
  BY <1>1, <1>4, Queue_set
<1> HIDE DEF r
<1>6. Acts_on(s, r, o)
  BY <1>1, <1>4, <1>5 DEF Acts_on, Others_stay, Is_well_queued, Begun_before
<1>7. Is_nowhere(r, o)
  BY <1>1, <1>4, <1>5 DEF Is_nowhere, Is_placed, n
<1> QED
  BY <1>3, <1>5, <1>6, <1>7

LEMMA Add_to_queue_acts ==
  ASSUME NEW s, Is_well_queued(s), NEW o \in Orders, s.order[o].node \in Nodes, Is_nowhere(s, o)
  PROVE  Becomes(s, Add_to_queue(s, o), o, s.order[o])
<1> DEFINE n == s.order[o].node
           a == s.order[o]
           Behind(x) == LET b == s.order[x] IN
               IF a.suspended = b.suspended THEN b.setback > a.setback ELSE b.suspended
           I == {i \in 1 .. Len(s.queue[n]) : Behind(s.queue[n][i])}
           i == SelectInSeq(s.queue[n], Behind)
           at == IF i = 0 THEN Len(s.queue[n]) + 1 ELSE i
           list == InsertAt(s.queue[n], at, o)
           r == [s EXCEPT !.queue[n] = list]
<1>1. s \in States /\ n \in Nodes
  BY DEF Is_well_queued
<1>2. s.queue[n] \in Seq(Orders) /\ Is_distinct(s.queue[n])
  BY <1>1, State_parts DEF Is_well_queued
<1>3. Add_to_queue(s, o) = Signal(r, o)
  BY DEF Add_to_queue
<1>4. i = IF I # {} THEN Min(I) ELSE 0
  BY DEF SelectInSeq
<1>5. i = 0 \/ i \in I
  <2>1. I \subseteq 1 .. Len(s.queue[n])
    OBVIOUS
  <2> HIDE DEF I, i, n
  <2> QED BY <1>2, <1>4, <2>1, First_selected
<1>6. at \in 1 .. Len(s.queue[n]) + 1
  <2> HIDE DEF i, n, Behind
  <2> QED BY <1>2, <1>5, Positions
<1> HIDE DEF at, n
<1>7. /\ list \in Seq(Orders) /\ Is_distinct(list) /\ Range(list) = Range(s.queue[n]) \cup {o}
  BY <1>1, <1>2, <1>6, Inserted DEF Is_nowhere
<1> HIDE DEF list
<1>8. /\ r \in States /\ r.order = s.order
      /\ r.queue[n] = list /\ \A m \in Nodes : m # n => r.queue[m] = s.queue[m]
      /\ r.action = s.action /\ r.stopped = s.stopped /\ r.task = s.task
  BY <1>1, <1>7, Queue_set
<1> HIDE DEF r
<1>9. Acts_on(s, r, o)
  BY <1>1, <1>7, <1>8 DEF Acts_on, Others_stay, Is_well_queued, Begun_before
<1>10. Is_placed(r, o)
  BY <1>1, <1>7, <1>8 DEF Is_nowhere, Is_placed, n
<1>11. Signals(r, Signal(r, o)) /\ Is_well_queued(r)
  BY <1>8, <1>9, Signal_signals DEF Acts_on
<1>12. Becomes(s, r, o, s.order[o])
  BY <1>8, <1>9, <1>10 DEF Becomes
<1>13. Becomes(r, Signal(r, o), o, s.order[o])
  BY <1>8, <1>10, <1>11, Signals_act
<1> QED
  BY <1>1, <1>3, <1>12, <1>13, Becomes_both

LEMMA Reinsert_acts ==
  ASSUME NEW s, Is_well_queued(s), NEW o \in Orders, s.order[o].node \in Nodes, Is_placed(s, o)
  PROVE  Becomes(s, Reinsert(s, o), o, s.order[o])
<1> DEFINE r == Remove_from_queue(s, o)
           q == Add_to_queue(r, o)
<1>1. Acts_on(s, r, o) /\ r.order = s.order /\ Is_nowhere(r, o)
  BY Remove_from_queue_acts
<1> HIDE DEF r
<1>2. Becomes(r, q, o, r.order[o])
  BY <1>1, Add_to_queue_acts DEF Acts_on
<1> HIDE DEF q
<1>3. Reinsert(s, o) = q
  BY DEF Reinsert, q, r
<1>4. Acts_on(s, q, o)
  BY <1>1, <1>2, Acts_on_both DEF Becomes, Is_well_queued
<1> QED
  BY <1>1, <1>2, <1>3, <1>4 DEF Becomes

LEMMA Reinsert_if_queued_acts ==
  ASSUME NEW s, Is_well_queued(s), NEW o \in Orders, Is_placed(s, o)
  PROVE  Becomes(s, Reinsert_if_queued(s, o), o, s.order[o])
BY Reinsert_acts, Stays, Is_queued_where DEF Reinsert_if_queued

-----------------------------------------------------------------------------
(* The methods of Order. With_...(x) is what a method makes of an order x. *)

With_setback(x, t) == [x EXCEPT !.setback = t]
With_no_count(x)   == [x EXCEPT !.setback_count = 0]
With_clear_setback(x) ==
    IF x.setback_count > 0 THEN With_no_count(With_setback(x, Zero)) ELSE x
With_node(x, n) == [x EXCEPT !.node = n, !.moved = @ \/ x.task # None]
Removed_order(x) ==
    [x EXCEPT !.node = Out, !.blacklisted = FALSE, !.moved = @ \/ x.task # None,
              !.setback = Zero, !.setback_count = 0, !.replacement_for = None]

LEMMA Set_setback_acts ==
  ASSUME NEW s, Is_well_queued(s), NEW o \in Orders, Is_placed(s, o), NEW t \in Times
  PROVE  Becomes(s, Set_setback(s, o, t), o, With_setback(s.order[o], t))
<1> DEFINE x == With_setback(s.order[o], t)
           s1 == [s EXCEPT !.order[o] = x]
           s2 == Reinsert_if_queued(s1, o)
           s3 == Signal(s2, o)
<1>1. s \in States /\ s.order[o] \in Order_objects
  BY State_parts DEF Is_well_queued
<1>2. x \in Order_objects /\ x.node = s.order[o].node /\ Begun_before(s.order[o], x)
  BY <1>1 DEF Order_objects, With_setback, Begun_before
<1>3. [s EXCEPT !.order[o].setback = t] = s1
  BY <1>1 DEF States, With_setback
<1>4. CASE s.order[o].setback = t
  <2>1. x = s.order[o]
    BY <1>1, <1>4 DEF Order_objects, With_setback
  <2>2. Set_setback(s, o, t) = s
    BY <1>4 DEF Set_setback
  <2> HIDE DEF x
  <2> QED BY <2>1, <2>2, Stays DEF x
<1>5. CASE s.order[o].setback # t
  <2>1. Set_setback(s, o, t) = s3
    BY <1>3, <1>5 DEF Set_setback
  <2> HIDE DEF x
  <2>2. Becomes(s, s1, o, x)
    BY <1>2, Order_changes
  <2> HIDE DEF s1
  <2>3. Becomes(s1, s2, o, x)
    BY <2>2, Becomes_parts, Reinsert_if_queued_acts
  <2> HIDE DEF s2
  <2>4. Becomes(s2, s3, o, x)
    BY <2>3, Becomes_parts, Signal_signals, Signals_act
  <2> HIDE DEF s3
  <2>5. Becomes(s, s2, o, x)
    BY <1>1, <2>2, <2>3, Becomes_both
  <2> QED BY <1>1, <2>1, <2>4, <2>5, Becomes_both DEF x
<1> QED
  BY <1>4, <1>5

LEMMA Forget_setbacks_acts ==
  ASSUME NEW s, Is_well_queued(s), NEW o \in Orders, Is_placed(s, o)
  PROVE  Becomes(s, Forget_setbacks(s, o), o, With_no_count(s.order[o]))
<1> DEFINE x == With_no_count(s.order[o])
<1>1. s \in States /\ s.order[o] \in Order_objects
  BY State_parts DEF Is_well_queued
<1>2. x \in Order_objects /\ x.node = s.order[o].node /\ Begun_before(s.order[o], x)
  BY <1>1 DEF Order_objects, With_no_count, Begun_before
<1>3. Forget_setbacks(s, o) = [s EXCEPT !.order[o] = x]
  BY <1>1 DEF States, With_no_count, Forget_setbacks
<1> HIDE DEF x
<1> QED
  BY <1>2, <1>3, Order_changes DEF x

LEMMA Clear_setback_acts ==
  ASSUME NEW s, Is_well_queued(s), NEW o \in Orders, Is_placed(s, o)
  PROVE  Becomes(s, Clear_setback(s, o), o, With_clear_setback(s.order[o]))
<1> DEFINE r == Set_setback(s, o, Zero)
           x == With_setback(s.order[o], Zero)
<1>1. s \in States /\ Zero \in Times
  BY Numbers DEF Is_well_queued
<1>2. Becomes(s, r, o, x)
  BY <1>1, Set_setback_acts
<1> HIDE DEF r
<1>3. Becomes(r, Forget_setbacks(r, o), o, With_no_count(x))
  BY <1>2, Becomes_parts, Forget_setbacks_acts
<1>4. Becomes(s, Forget_setbacks(r, o), o, With_no_count(x))
  BY <1>1, <1>2, <1>3, Becomes_both
<1>5. Clear_setback(s, o) = IF s.order[o].setback_count > 0 THEN Forget_setbacks(r, o) ELSE s
  BY DEF Clear_setback, r
<1>6. Becomes(s, s, o, s.order[o])
  BY Stays
<1> QED
  BY <1>4, <1>5, <1>6 DEF With_clear_setback

\* Whoever waited for the order is released.
LEMMA Close_acts ==
  ASSUME NEW s, Is_well_queued(s), NEW o \in Orders, Is_nowhere(s, o)
  PROVE  /\ Becomes(s, Close(s, o), o, New_order)
         /\ \A p \in Orders : Close(s, o).order[p].replacement_for # o
<1> DEFINE waiting == {r \in Orders : s.order[r].replacement_for = o}
           s1 == [s EXCEPT !.order = [r \in Orders |->
                    IF r = o THEN New_order
                    ELSE IF r \in waiting THEN [@[r] EXCEPT !.replacement_for = None]
                    ELSE @[r]]]
           X == {r \in States : Signals(s1, r)}
           Body(it) == [u \in SUBSET waiting |->
                          IF u = {} THEN s1
                          ELSE LET n == CHOOSE n \in u : TRUE
                               IN  Signal(it[u \ {n}], n)]
           iter == CHOOSE it : it = Body(it)
<1>1. Close(s, o) = iter[waiting]
  BY DEF Close, FoldSet, MapThenFoldSet
<1>2. s \in States
  BY DEF Is_well_queued
<1>3. New_order \in Order_objects
  BY Numbers DEF New_order, Order_objects, Places
<1>4. /\ s1 \in States
      /\ \A p \in Orders : s1.order[p] = IF p = o THEN New_order
                             ELSE IF p \in waiting THEN [s.order[p] EXCEPT !.replacement_for = None]
                             ELSE s.order[p]
      /\ s1.queue = s.queue /\ s1.action = s.action /\ s1.stopped = s.stopped
      /\ s1.task = s.task
  <2> DEFINE f == [r \in Orders |-> IF r = o THEN New_order
                    ELSE IF r \in waiting THEN [s.order[r] EXCEPT !.replacement_for = None]
                    ELSE s.order[r]]
  <2>1. \A r \in Orders : [s.order[r] EXCEPT !.replacement_for = None] \in Order_objects
    <3>1. \A r \in Orders : s.order[r] \in Order_objects
      BY <1>2, State_parts
    <3> QED BY <3>1 DEF Order_objects
  <2>2. f \in [Orders -> Order_objects]
    BY <1>2, <1>3, <2>1, State_parts
  <2>3. s1 = [s EXCEPT !.order = f]
    BY <1>2 DEF States
  <2>4. /\ s1 \in States /\ s1.order = f
        /\ s1.queue = s.queue /\ s1.action = s.action /\ s1.stopped = s.stopped
        /\ s1.task = s.task
    <3> HIDE DEF f, s1
    <3> QED BY <1>2, <2>2, <2>3 DEF States
  <2> HIDE DEF s1
  <2> QED BY <2>4
<1> HIDE DEF s1
<1>5. s1 \in X
  BY <1>4 DEF Signals
<1>6. \A n \in waiting, r \in X : Signal(r, n) \in X
  BY <1>4, Signal_signals, Signals_to DEF Signals
<1>7. IsFiniteSet(waiting)
  BY OrdersAssumption, FS_Subset
<1>8. \E it : it = Body(it)
  <2> DEFINE op == [p \in waiting \X X |-> Signal(p[2], p[1])]
             pick == [u \in SUBSET waiting |-> CHOOSE n \in u : TRUE]
  <2> HIDE DEF X, waiting
  <2>1. op \in [waiting \X X -> X]
    BY <1>6
  <2>2. \A u \in SUBSET waiting : u # {} => pick[u] \in u
    OBVIOUS
  <2>3. PICK it \in [SUBSET waiting -> X] : Is_fold(it, waiting, s1, op, pick)
    <3> HIDE DEF op, pick, Body, iter
    <3> QED BY <1>5, <1>7, <2>1, <2>2, Fold_exists
  <2>4. ASSUME NEW u \in SUBSET waiting, u # {}
        PROVE  op[<<pick[u], it[u \ {pick[u]}]>>] = Signal(it[u \ {pick[u]}], pick[u])
    <3>1. pick[u] \in waiting /\ it[u \ {pick[u]}] \in X
      <4> HIDE DEF pick
      <4> QED BY <2>2, <2>4
    <3> HIDE DEF pick
    <3> QED BY <3>1
  <2>5. \A u \in SUBSET waiting : pick[u] = CHOOSE n \in u : TRUE
    OBVIOUS
  <2>6. it = Body(it)
    <3> HIDE DEF op, pick, iter
    <3> QED BY <2>3, <2>4, <2>5 DEF Is_fold
  <2> QED BY <2>6
<1>9. iter = Body(iter)
  BY <1>8
<1> HIDE DEF iter, X, waiting
<1>10. iter[waiting] \in X
  <2> DEFINE Reached == {u \in SUBSET waiting : iter[u] \in X}
  <2>1. {} \in Reached
    BY <1>5, <1>9
  <2>2. ASSUME NEW u \in SUBSET waiting, u # {}
        PROVE  \E n \in u : u \ {n} \in Reached => u \in Reached
    <3> DEFINE m == CHOOSE n \in u : TRUE
    <3>1. m \in u
      BY <2>2
    <3>2. iter[u] = Signal(iter[u \ {m}], m)
      BY <1>9, <2>2
    <3> HIDE DEF m
    <3> QED BY <1>6, <3>1, <3>2
  <2> HIDE DEF Reached
  <2>3. SUBSET waiting \subseteq Reached
    BY <1>7, <2>1, <2>2, Subsets_reached
  <2> QED BY <2>3 DEF Reached
<1> DEFINE r == Close(s, o)
<1>11. Signals(s1, r)
  BY <1>1, <1>10 DEF X
<1> HIDE DEF r
<1>12. Acts_on(s, s1, o) /\ Is_well_queued(s1)
  <2>1. ASSUME NEW p \in Orders \ {o}
        PROVE  s1.order[p] = s.order[p] \/ Is_released(s.order[p], s1.order[p], o)
    <3>1. CASE p \in waiting
      <4>1. s1.order[p] = [s.order[p] EXCEPT !.replacement_for = None]
        BY <1>4, <3>1
      <4>2. s.order[p].replacement_for = o
        BY <3>1 DEF waiting
      <4> QED BY <4>1, <4>2 DEF Is_released
    <3>2. CASE p \notin waiting
      BY <1>4, <3>2
    <3> QED BY <3>1, <3>2
  <2>2. \A p \in Orders \ {o} : \A n \in Nodes : p \in Range(s1.queue[n]) <=> p \in Range(s.queue[n])
    BY <1>4
  <2>3. Others_stay(s, s1, o)
    BY <2>1, <2>2 DEF Others_stay
  <2>4. s1.order[o] = New_order
    BY <1>4
  <2>5. Begun_before(s.order[o], New_order)
    BY DEF Begun_before, New_order
  <2> QED BY <1>4, <2>3, <2>4, <2>5 DEF Acts_on, Is_well_queued
<1>13. Is_placed(s1, o)
  <2>1. s1.order[o] = New_order /\ New_order.node = Out
    BY <1>4 DEF New_order
  <2>2. Out \notin Nodes
    BY Numbers
  <2> QED BY <1>4, <2>1, <2>2 DEF Is_nowhere, Is_placed
<1>14. Becomes(s, s1, o, New_order)
  BY <1>4, <1>12, <1>13 DEF Becomes
<1>15. Becomes(s1, r, o, New_order)
  BY <1>4, <1>11, <1>12, <1>13, Signals_act
<1>16. \A p \in Orders : s1.order[p].replacement_for # o
  <2>1. None # o
    BY OrdersAssumption
  <2>2. New_order.replacement_for = None
    BY DEF New_order
  <2>3. ASSUME NEW p \in Orders
        PROVE  [s.order[p] EXCEPT !.replacement_for = None].replacement_for = None
    BY <1>2, State_parts DEF Order_objects
  <2> QED BY <1>4, <2>1, <2>2, <2>3 DEF waiting
<1> QED
  BY <1>2, <1>11, <1>14, <1>15, <1>16, Becomes_both DEF Signals, r

LEMMA Announce_place_signals ==
  ASSUME NEW s \in States
  PROVE  Signals(s, Announce_place(s))
BY Wake_orders_signals DEF Announce_place, Signals

LEMMA Remove_from_job_chain_acts ==
  ASSUME NEW s, Is_well_queued(s), NEW o \in Orders, Is_placed(s, o)
  PROVE  Becomes(s, Remove_from_job_chain(s, o), o,
                 IF s.order[o].task = None THEN New_order ELSE Removed_order(s.order[o]))
<1> DEFINE x == s.order[o]
           s1 == IF Is_queued(s, o) THEN Remove_from_queue(s, o) ELSE s
           x2 == [x EXCEPT !.node = Out, !.blacklisted = FALSE, !.moved = @ \/ x.task # None]
           s2 == [s1 EXCEPT !.order[o] = x2]
           r2 == Announce_place(s2)
           x3 == Removed_order(x)
           s3 == [r2 EXCEPT !.order[o] = x3]
<1>1. s \in States /\ x \in Order_objects
  BY State_parts DEF Is_well_queued
<1>2. Acts_on(s, s1, o) /\ s1.order = s.order /\ Is_nowhere(s1, o)
  <2>1. CASE x.node \in Nodes
    BY <2>1, Remove_from_queue_acts, Is_queued_where
  <2>2. CASE x.node \notin Nodes
    BY <2>2, Stays, Is_queued_where DEF Becomes
  <2> QED BY <2>1, <2>2
<1> HIDE DEF s1
<1>3. s1 \in States /\ s1.order[o] = x
  BY <1>2, Acts_on_parts
<1>4. x2 \in Order_objects /\ x3 \in Order_objects
  <2>1. Out \in Places /\ Zero \in Times /\ 0 \in Nat
    BY Numbers DEF Places
  <2> HIDE DEF x
  <2> QED BY <1>1, <2>1 DEF Order_objects, Removed_order
<1>5. /\ x3 = [x2 EXCEPT !.setback = Zero, !.setback_count = 0, !.replacement_for = None]
      /\ x3.task = x.task /\ Begun_before(x, x2) /\ Begun_before(x2, x3)
  <2> HIDE DEF x
  <2> QED BY <1>1 DEF Removed_order, Order_objects, Begun_before
<1> HIDE DEF x2, x3
<1>6. Acts_on(s1, s2, o) /\ s2.order[o] = x2 /\ s2.queue = s1.queue
  BY <1>2, <1>3, <1>4, <1>5, Order_changes DEF Acts_on
<1>7. [s1 EXCEPT !.order[o].node = Out, !.order[o].blacklisted = FALSE,
                 !.order[o].moved = @ \/ s.order[o].task # None] = s2
  BY <1>3 DEF States, x2, x
<1> HIDE DEF s2
<1>8. Acts_on(s2, r2, o) /\ r2.order = s2.order /\ r2.queue = s2.queue
  BY <1>6, Announce_place_signals, Signals_act, Acts_on_parts DEF Signals
<1>9. r2 \in States /\ r2.order[o] = x2
  BY <1>6, <1>8, Acts_on_parts
<1> HIDE DEF r2
<1>10. Acts_on(r2, s3, o) /\ s3.order[o] = x3 /\ s3.queue = r2.queue
  BY <1>4, <1>5, <1>8, <1>9, Order_changes DEF Acts_on
<1>11. [r2 EXCEPT !.order[o].setback = Zero, !.order[o].setback_count = 0,
                  !.order[o].replacement_for = None] = s3
  BY <1>5, <1>9 DEF States
<1> HIDE DEF s3
<1>12. Acts_on(s, s3, o) /\ Is_nowhere(s3, o)
  <2>1. Is_nowhere(s3, o)
    BY <1>2, <1>6, <1>8, <1>10 DEF Is_nowhere
  <2>2. s2 \in States
    BY <1>6, Acts_on_parts
  <2>3. Acts_on(s, s2, o)
    BY <1>1, <1>2, <1>6, Acts_on_both
  <2>4. Acts_on(s, r2, o)
    BY <1>1, <1>8, <2>3, Acts_on_both
  <2> QED BY <1>1, <1>10, <2>1, <2>4, Acts_on_both
<1>13. Remove_from_job_chain(s, o) = Close_if_free(s3, o)
  BY <1>7, <1>11 DEF Remove_from_job_chain, s1, r2
<1>14. CASE x.task = None
  <2>1. Remove_from_job_chain(s, o) = Close(s3, o)
    BY <1>5, <1>10, <1>13, <1>14 DEF Close_if_free
  <2>2. Becomes(s3, Close(s3, o), o, New_order)
    BY <1>12, Close_acts DEF Acts_on
  <2> QED BY <1>1, <1>12, <1>14, <2>1, <2>2, Acts_on_both DEF Becomes
<1>15. CASE x.task # None
  <2>1. Remove_from_job_chain(s, o) = s3
    BY <1>5, <1>10, <1>13, <1>15 DEF Close_if_free
  <2>2. x3.node \notin Nodes
    BY <1>1, Numbers DEF x3, Removed_order, Order_objects
  <2>3. Is_placed(s3, o)
    BY <1>10, <1>12, <2>2 DEF Is_nowhere, Is_placed
  <2> QED BY <1>10, <1>12, <1>15, <2>1, <2>3 DEF Becomes, x3
<1> QED
  BY <1>14, <1>15

LEMMA Move_to_node_acts ==
  ASSUME NEW s, Is_well_queued(s), NEW o \in Orders, Is_placed(s, o), NEW n \in Nodes \cup {End},
         s.order[o].node # Out \/ ~s.order[o].touched
  PROVE  Becomes(s, Move_to_node(s, o, n), o, With_node(s.order[o], n))
         \/ /\ s.order[o].node = n
            /\ Becomes(s, Move_to_node(s, o, n), o,
                       [s.order[o] EXCEPT !.moved = @ \/ s.order[o].task # None])
<1> DEFINE x == s.order[o]
           x1 == [x EXCEPT !.moved = @ \/ x.task # None]
           x2 == With_node(x, n)
           s1 == [s EXCEPT !.order[o] = x1]
           r1 == Leave_queue(s1, o)
           s2 == [r1 EXCEPT !.order[o] = x2]
<1>1. s \in States /\ x \in Order_objects
  BY State_parts DEF Is_well_queued
<1>2. /\ x1 \in Order_objects /\ x2 \in Order_objects /\ x1.node = x.node /\ x2.node = n
      /\ Begun_before(x, x1) /\ Begun_before(x1, x2)
  <2>1. n \in Places /\ (x.node # Out \/ ~x.touched)
    BY DEF Places
  <2> HIDE DEF x
  <2> QED BY <1>1, <2>1 DEF Order_objects, With_node, Begun_before
<1>3. [s EXCEPT !.order[o].moved = @ \/ s.order[o].task # None] = s1
  BY <1>1 DEF States
<1> HIDE DEF x1
<1>4. Becomes(s, s1, o, x1) /\ Is_well_queued(s1)
  BY <1>2, Order_changes, Becomes_parts
<1> HIDE DEF s1
<1>5. Acts_on(s1, r1, o) /\ r1.order = s1.order /\ Is_nowhere(r1, o)
  <2>1. s1.order[o] = x1 /\ Is_placed(s1, o)
    BY <1>4 DEF Becomes
  <2>2. CASE x.node \in Nodes
    BY <1>2, <1>4, <2>1, <2>2, Remove_from_queue_acts, Is_queued_where DEF Leave_queue
  <2>3. CASE x.node \notin Nodes
    BY <1>2, <1>4, <2>1, <2>3, Stays, Is_queued_where DEF Becomes, Leave_queue
  <2> QED BY <2>2, <2>3
<1>6. r1 \in States /\ r1.order[o] = x1
  BY <1>4, <1>5, Acts_on_parts DEF Becomes
<1>7. [r1 EXCEPT !.order[o].node = n] = s2
  <2>1. x2 = [x1 EXCEPT !.node = n]
    BY <1>1 DEF Order_objects, x1, With_node
  <2> HIDE DEF r1
  <2> QED BY <1>6, <2>1 DEF States
<1> HIDE DEF r1, x2
<1>8. Acts_on(r1, s2, o) /\ s2.order[o] = x2 /\ s2.queue = r1.queue
  BY <1>2, <1>5, <1>6, Order_changes DEF Acts_on
<1> HIDE DEF s2
<1>9. Acts_on(s, s2, o) /\ Is_nowhere(s2, o) /\ Is_well_queued(s2)
  <2>1. Acts_on(s, r1, o)
    BY <1>1, <1>4, <1>5, Acts_on_both DEF Becomes
  <2>2. Is_nowhere(s2, o)
    BY <1>5, <1>8 DEF Is_nowhere
  <2> QED BY <1>1, <1>8, <2>1, <2>2, Acts_on_both, Acts_on_parts
<1>10. Move_to_node(s, o, n) = IF n = x.node THEN s1
                               ELSE IF n \in Nodes THEN Add_to_queue(s2, o) ELSE s2
  BY <1>3, <1>7 DEF Move_to_node, r1
<1>11. CASE n = x.node
  BY <1>4, <1>10, <1>11 DEF x1
<1>12. CASE n # x.node /\ n \in Nodes
  <2>1. Becomes(s2, Add_to_queue(s2, o), o, x2)
    BY <1>2, <1>8, <1>9, <1>12, Add_to_queue_acts
  <2> QED BY <1>1, <1>9, <1>10, <1>12, <2>1, Acts_on_both DEF Becomes, x2
<1>13. CASE n # x.node /\ n \notin Nodes
  <2>1. Is_placed(s2, o)
    BY <1>2, <1>8, <1>9, <1>13 DEF Is_nowhere, Is_placed
  <2> QED BY <1>8, <1>9, <1>10, <1>13, <2>1 DEF Becomes, x2
<1> QED
  BY <1>11, <1>12, <1>13

-----------------------------------------------------------------------------
(* An order goes on: it may be moved, set back no more, removed or closed, *)
(* but the task that has it keeps it, and knows that it has been moved.    *)

Goes_on(x, y) ==
    /\ y.task = x.task
    /\ y.moved => x.moved \/ x.task # None
    /\ x.task # None => (x.moved => y.moved) /\ (y.moved \/ y.node = x.node)
    /\ y.replacement_for \in {x.replacement_for, None}
    /\ y.setback_count = 0 \/ (y.setback_count = x.setback_count /\ y.setback = x.setback)
    /\ x.node = Out /\ x.task # None => y.node = Out
    /\ x.task = None /\ (x.node # Out \/ ~x.touched) => y.node # Out \/ ~y.touched

\* The order is in the chain, or a new one: nobody can be waiting for it.
May_move(s, o) ==
    LET x == s.order[o] IN x.node # Out \/ (x.task = None /\ ~x.touched)

Goes(s, r, o) == Acts_on(s, r, o) /\ Is_placed(r, o) /\ Goes_on(s.order[o], r.order[o])

LEMMA Goes_both ==
  ASSUME NEW s \in States, NEW o \in Orders, NEW r, NEW q, Goes(s, r, o), Goes(r, q, o)
  PROVE  Goes(s, q, o)
<1>1. Acts_on(s, q, o)
  BY Acts_on_both DEF Goes
<1>2. Goes_on(s.order[o], q.order[o])
  <2> DEFINE x == s.order[o]
             y == r.order[o]
             z == q.order[o]
  <2>1. Goes_on(x, y) /\ Goes_on(y, z)
    BY DEF Goes
  <2> HIDE DEF x, y, z
  <2>2. Goes_on(x, z)
    BY <2>1 DEF Goes_on
  <2> QED BY <2>2 DEF x, z
<1> QED
  BY <1>1, <1>2 DEF Goes

LEMMA Goes_parts ==
  ASSUME NEW s, NEW o \in Orders, NEW r, Goes(s, r, o)
  PROVE  /\ Is_well_queued(r) /\ r \in States /\ Is_placed(r, o) /\ r.order[o] \in Order_objects
         /\ r.task = s.task /\ r.action = s.action /\ r.stopped = s.stopped
BY Acts_on_parts, State_parts DEF Goes, Acts_on

LEMMA Becomes_goes ==
  ASSUME NEW s, NEW o \in Orders, NEW r, NEW y, Becomes(s, r, o, y), Goes_on(s.order[o], y)
  PROVE  Goes(s, r, o)
BY DEF Becomes, Goes

LEMMA Stays_goes ==
  ASSUME NEW s, Is_well_queued(s), NEW o \in Orders, Is_placed(s, o)
  PROVE  Goes(s, s, o)
BY Stays DEF Becomes, Goes, Goes_on

\* A change of an order in its place.
LEMMA Order_goes ==
  ASSUME NEW s, Is_well_queued(s), NEW o \in Orders, Is_placed(s, o), NEW y \in Order_objects,
         y.node = s.order[o].node, Begun_before(s.order[o], y), Goes_on(s.order[o], y)
  PROVE  Goes(s, [s EXCEPT !.order[o] = y], o)
BY Order_changes, Becomes_goes

LEMMA Signal_goes ==
  ASSUME NEW s, Is_well_queued(s), NEW o \in Orders, Is_placed(s, o)
  PROVE  Goes(s, Signal(s, o), o)
<1>1. s \in States
  BY DEF Is_well_queued
<1>2. Becomes(s, Signal(s, o), o, s.order[o])
  BY <1>1, Signal_signals, Signals_act
<1>3. Goes_on(s.order[o], s.order[o])
  BY DEF Goes_on
<1> QED
  BY <1>2, <1>3, Becomes_goes

LEMMA Clear_setback_goes ==
  ASSUME NEW s, Is_well_queued(s), NEW o \in Orders, Is_placed(s, o)
  PROVE  Goes(s, Clear_setback(s, o), o)
<1>1. s.order[o] \in Order_objects
  BY State_parts DEF Is_well_queued
<1>2. Goes_on(s.order[o], With_clear_setback(s.order[o]))
  BY <1>1 DEF Goes_on, With_clear_setback, With_no_count, With_setback, Order_objects
<1> QED
  BY <1>2, Clear_setback_acts, Becomes_goes

LEMMA Remove_from_job_chain_goes ==
  ASSUME NEW s, Is_well_queued(s), NEW o \in Orders, Is_placed(s, o)
  PROVE  Goes(s, Remove_from_job_chain(s, o), o)
<1> DEFINE x == s.order[o]
<1>1. x \in Order_objects
  BY State_parts DEF Is_well_queued
<1> HIDE DEF x
<1>2. x.task # None => Goes_on(x, Removed_order(x))
  BY <1>1 DEF Goes_on, Removed_order, Order_objects
<1>3. x.task = None => Goes_on(x, New_order)
  BY DEF Goes_on, New_order
<1>4. Goes_on(x, IF x.task = None THEN New_order ELSE Removed_order(x))
  BY <1>2, <1>3
<1> QED
  BY <1>4, Remove_from_job_chain_acts, Becomes_goes DEF x

LEMMA Move_to_node_goes ==
  ASSUME NEW s, Is_well_queued(s), NEW o \in Orders, Is_placed(s, o), NEW n \in Nodes \cup {End},
         May_move(s, o)
  PROVE  /\ Goes(s, Move_to_node(s, o, n), o)
         /\ Move_to_node(s, o, n).order[o].node = n
<1> DEFINE x == s.order[o]
           x1 == [x EXCEPT !.moved = @ \/ x.task # None]
           r == Move_to_node(s, o, n)
<1>1. x \in Order_objects /\ (x.node # Out \/ (x.task = None /\ ~x.touched))
  BY State_parts DEF Is_well_queued, May_move
<1>2. \/ Becomes(s, r, o, With_node(x, n))
      \/ x.node = n /\ Becomes(s, r, o, x1)
  BY <1>1, Move_to_node_acts
<1> HIDE DEF x, r
<1>3. Goes_on(x, With_node(x, n)) /\ With_node(x, n).node = n
  <2>1. n # Out
    BY Numbers
  <2> QED BY <1>1, <2>1 DEF Goes_on, With_node, Order_objects
<1>4. Goes_on(x, x1) /\ x1.node = x.node
  BY <1>1 DEF Goes_on, Order_objects
<1> HIDE DEF x1
<1>5. CASE Becomes(s, r, o, With_node(x, n))
  BY <1>3, <1>5, Becomes_goes DEF x, r, Becomes
<1>6. CASE x.node = n /\ Becomes(s, r, o, x1)
  BY <1>4, <1>6, Becomes_goes DEF x, r, Becomes
<1> QED
  BY <1>2, <1>5, <1>6

LEMMA Repeat_goes ==
  ASSUME NEW s, Is_well_queued(s), NEW o \in Orders, Is_placed(s, o), May_move(s, o)
  PROVE  Goes(s, Repeat(s, o), o)
<1> DEFINE x == s.order[o]
           x0 == [x EXCEPT !.touched = FALSE]
           s0 == [s EXCEPT !.order[o] = x0]
           s1 == Clear_setback(s0, o)
           n == Referenced(s1, x.initial)
           s2 == Move_to_node(s1, o, n)
           s3 == Set_setback(s2, o, Future)
           s4 == Forget_setbacks(s3, o)
<1>1. s \in States /\ x \in Order_objects /\ (x.node # Out \/ x.task = None)
  BY State_parts DEF Is_well_queued, May_move
<1>2. /\ x0 \in Order_objects /\ x0.node = x.node /\ ~x0.touched
      /\ Goes_on(x, x0) /\ Begun_before(x, x0)
  <2> HIDE DEF x
  <2> QED BY <1>1 DEF Order_objects, Goes_on, Begun_before
<1>3. [s EXCEPT !.order[o].touched = FALSE] = s0
  BY <1>1 DEF States
<1> HIDE DEF x0
<1>4. Goes(s, s0, o) /\ s0.order[o] = x0
  BY <1>2, Order_goes, Order_changes
<1> HIDE DEF s0
<1>5. Goes(s0, s1, o) /\ May_move(s1, o)
  <2>1. Goes(s0, s1, o)
    BY <1>4, Goes_parts, Clear_setback_goes
  <2>2. Becomes(s0, s1, o, With_clear_setback(x0))
    BY <1>4, Goes_parts, Clear_setback_acts
  <2>3. With_clear_setback(x0).node = x0.node /\ With_clear_setback(x0).touched = x0.touched
    BY <1>2 DEF With_clear_setback, With_no_count, With_setback, Order_objects
  <2>4. s1.order[o].task = x.task
    BY <1>2, <1>4, <2>1 DEF Goes, Goes_on
  <2> QED BY <1>1, <1>2, <2>1, <2>2, <2>3, <2>4 DEF Becomes, May_move
<1> HIDE DEF s1
<1>6. n \in Nodes \cup {End}
  <2>1. x.initial \in Nodes
    BY <1>1, Order_parts
  <2> QED BY <2>1, Referenced_node
<1> HIDE DEF n
<1>7. Goes(s1, s2, o)
  BY <1>5, <1>6, Goes_parts, Move_to_node_goes
<1> HIDE DEF s2
<1>8. Goes(s2, s4, o)
  <2> DEFINE y == s2.order[o]
  <2>1. Future \in Times /\ y \in Order_objects /\ s2 \in States
    <3>1. Future \in Times
      BY Numbers
    <3>2. s2.order[o] \in Order_objects /\ s2 \in States
      <4> HIDE DEF y, s3, s4
      <4> QED BY <1>7, Goes_parts
    <3> QED BY <3>1, <3>2
  <2>2. Becomes(s2, s3, o, With_setback(y, Future))
    BY <1>7, <2>1, Goes_parts, Set_setback_acts
  <2>3. Becomes(s3, s4, o, With_no_count(With_setback(y, Future)))
    BY <2>2, Becomes_parts, Forget_setbacks_acts
  <2> HIDE DEF s3, s4
  <2>4. Becomes(s2, s4, o, With_no_count(With_setback(y, Future)))
    BY <2>1, <2>2, <2>3, Becomes_both
  <2>5. Goes_on(y, With_no_count(With_setback(y, Future)))
    <3> HIDE DEF y
    <3> QED BY <2>1 DEF Goes_on, With_no_count, With_setback, Order_objects
  <2> QED BY <2>4, <2>5, Becomes_goes
<1> HIDE DEF s3, s4
<1>9. Repeat(s, o) = s4
  BY <1>3 DEF Repeat, s1, s2, s3, s4, n
<1> QED
  BY <1>1, <1>4, <1>5, <1>7, <1>8, <1>9, Goes_both

LEMMA Handle_end_state_goes ==
  ASSUME NEW s, Is_well_queued(s), NEW o \in Orders, Is_placed(s, o), May_move(s, o)
  PROVE  Goes(s, Handle_end_state(s, o), o)
<1> DEFINE x == s.order[o]
           y == [x EXCEPT !.blacklisted = TRUE]
<1>1. s \in States /\ x \in Order_objects
  BY State_parts DEF Is_well_queued
<1>2. y \in Order_objects /\ y.node = x.node /\ Goes_on(x, y) /\ Begun_before(x, y)
  <2> HIDE DEF x
  <2> QED BY <1>1 DEF Order_objects, Goes_on, Begun_before
<1>3. [s EXCEPT !.order[o].blacklisted = TRUE] = [s EXCEPT !.order[o] = y]
  BY <1>1 DEF States
<1> HIDE DEF y
<1>4. Goes(s, [s EXCEPT !.order[o] = y], o)
  BY <1>2, Order_goes
<1> QED
  BY <1>3, <1>4, Repeat_goes, Remove_from_job_chain_goes DEF Handle_end_state

LEMMA Set_state1_goes ==
  ASSUME NEW s, Is_well_queued(s), NEW o \in Orders, Is_placed(s, o), May_move(s, o),
         NEW n \in Nodes \cup {End}
  PROVE  /\ Goes(s, Set_state1(s, o, n), o)
         /\ Referenced(s, n) \in Nodes => Set_state1(s, o, n).order[o].node \in Nodes
<1> DEFINE to == Referenced(s, n)
           s1 == Move_to_node(s, o, to)
<1>1. s \in States
  BY DEF Is_well_queued
<1>2. to \in Nodes \cup {End}
  BY Referenced_node
<1> HIDE DEF to
<1>3. Goes(s, s1, o) /\ s1.order[o].node = to
  BY <1>2, Move_to_node_goes
<1> HIDE DEF s1
<1>4. to # Out /\ End \notin Nodes
  BY <1>2, Numbers
<1>5. Goes(s1, Handle_end_state(s1, o), o)
  BY <1>3, <1>4, Goes_parts, Handle_end_state_goes DEF May_move
<1>6. Set_state1(s, o, n) = IF to = End /\ s.order[o].node # End
                            THEN Handle_end_state(s1, o) ELSE s1
  BY DEF Set_state1, s1, to
<1> QED
  BY <1>1, <1>2, <1>3, <1>4, <1>5, <1>6, Goes_both DEF to

LEMMA Set_state_goes ==
  ASSUME NEW s, Is_well_queued(s), NEW o \in Orders, Is_placed(s, o), s.order[o].node # Out,
         NEW n \in Nodes \cup {End}
  PROVE  Goes(s, Set_state(s, o, n), o)
<1> DEFINE s1 == Clear_setback(s, o)
           y == [s1.order[o] EXCEPT !.blacklisted = FALSE]
           s2 == [s1 EXCEPT !.order[o] = y]
<1>1. s \in States /\ s.order[o] \in Order_objects
  BY State_parts DEF Is_well_queued
<1>2. Goes(s, s1, o) /\ s1.order[o].node # Out
  <2>1. Becomes(s, s1, o, With_clear_setback(s.order[o]))
    BY Clear_setback_acts
  <2>2. With_clear_setback(s.order[o]).node = s.order[o].node
    BY <1>1 DEF With_clear_setback, With_no_count, With_setback, Order_objects
  <2> QED BY <2>1, <2>2, Clear_setback_goes DEF Becomes
<1> HIDE DEF s1
<1>3. s1 \in States /\ s1.order[o] \in Order_objects
  BY <1>2, Goes_parts
<1>4. /\ y \in Order_objects /\ y.node = s1.order[o].node
      /\ Goes_on(s1.order[o], y) /\ Begun_before(s1.order[o], y)
  BY <1>3 DEF Order_objects, Goes_on, Begun_before
<1>5. [s1 EXCEPT !.order[o].blacklisted = FALSE] = s2
  BY <1>3 DEF States
<1> HIDE DEF y
<1>6. Goes(s1, s2, o) /\ s2.order[o] = y
  <2>1. Is_well_queued(s1) /\ Is_placed(s1, o)
    BY <1>2, Goes_parts
  <2>2. Goes(s1, s2, o)
    BY <1>4, <2>1, Order_goes
  <2>3. s2.order[o] = y
    BY <1>3 DEF States
  <2> QED BY <2>2, <2>3
<1> HIDE DEF s2
<1>7. Goes(s2, Set_state1(s2, o, n), o)
  BY <1>2, <1>4, <1>6, Goes_parts, Set_state1_goes DEF May_move
<1>8. Set_state(s, o, n) = Set_state1(s2, o, n)
  BY <1>5 DEF Set_state, s1
<1> QED
  BY <1>1, <1>2, <1>6, <1>7, <1>8, Goes_both

LEMMA Set_suspended_goes ==
  ASSUME NEW s, Is_well_queued(s), NEW o \in Orders, Is_placed(s, o), NEW b \in BOOLEAN
  PROVE  Goes(s, Set_suspended(s, o, b), o)
<1> DEFINE y == [s.order[o] EXCEPT !.suspended = b]
           s1 == [s EXCEPT !.order[o] = y]
           s2 == Reinsert_if_queued(s1, o)
<1>1. s \in States /\ s.order[o] \in Order_objects
  BY State_parts DEF Is_well_queued
<1>2. /\ y \in Order_objects /\ y.node = s.order[o].node
      /\ Goes_on(s.order[o], y) /\ Begun_before(s.order[o], y)
  BY <1>1 DEF Order_objects, Goes_on, Begun_before
<1>3. [s EXCEPT !.order[o].suspended = b] = s1
  BY <1>1 DEF States
<1> HIDE DEF y
<1>4. Goes(s, s1, o)
  BY <1>2, Order_goes
<1> HIDE DEF s1
<1>5. Goes(s1, Remove_from_job_chain(s1, o), o)
  BY <1>4, Goes_parts, Remove_from_job_chain_goes
<1>6. Goes(s1, s2, o)
  <2>1. Becomes(s1, s2, o, s1.order[o])
    BY <1>4, Goes_parts, Reinsert_if_queued_acts
  <2>2. Goes_on(s1.order[o], s1.order[o])
    BY DEF Goes_on
  <2> QED BY <2>1, <2>2, Becomes_goes
<1> HIDE DEF s2
<1>7. Goes(s2, Signal(s2, o), o)
  BY <1>6, Goes_parts, Signal_goes
<1>8. Set_suspended(s, o, b) = IF s.order[o].suspended = b THEN s
                               ELSE IF s.order[o].blacklisted /\ ~b THEN Remove_from_job_chain(s1, o)
                               ELSE Signal(s2, o)
  BY <1>3 DEF Set_suspended, s2
<1>9. Goes(s, Signal(s2, o), o)
  BY <1>1, <1>4, <1>6, <1>7, Goes_both
<1> QED
  BY <1>1, <1>4, <1>5, <1>8, <1>9, Goes_both, Stays_goes

-----------------------------------------------------------------------------
(* What is done to one order keeps the invariant, if the order still fits. *)

\* y may take the place of an order x that others may wait for.
Fits(x, y, c) ==
    /\ y.replacement_for \in {x.replacement_for, None}
    /\ y.task # None /\ ~y.moved => y.node \in Nodes
    /\ Count_right(y, c)

Is_waited_for(s, o) == \E p \in Orders : s.order[p].replacement_for = o

LEMMA Later_count ==
  ASSUME NEW x \in Order_objects, NEW c \in Nat, NEW d \in Nat, c <= d, Count_right(x, c)
  PROVE  Count_right(x, d)
BY OrdersAssumption DEF Count_right, Order_objects

LEMMA Other_order ==
  ASSUME NEW s \in States, NEW o \in Orders, NEW r, Acts_on(s, r, o), NEW p \in Orders, p # o
  PROVE  LET x == s.order[p]
             y == r.order[p]
         IN /\ y.node = x.node /\ y.task = x.task /\ y.moved = x.moved /\ y.touched = x.touched
            /\ y.setback_count = x.setback_count /\ y.setback = x.setback
            /\ \/ y.replacement_for = x.replacement_for
               \/ x.replacement_for = o /\ y.replacement_for = None
<1> DEFINE x == s.order[p]
           y == r.order[p]
<1>1. x \in Order_objects
  BY State_parts
<1>2. y = x \/ Is_released(x, y, o)
  BY DEF Acts_on, Others_stay
<1> HIDE DEF x, y
<1>3. ASSUME y = x
      PROVE  /\ y.node = x.node /\ y.task = x.task /\ y.moved = x.moved /\ y.touched = x.touched
             /\ y.setback_count = x.setback_count /\ y.setback = x.setback
             /\ y.replacement_for = x.replacement_for
  BY <1>3
<1>4. ASSUME Is_released(x, y, o)
      PROVE  /\ y.node = x.node /\ y.task = x.task /\ y.moved = x.moved /\ y.touched = x.touched
             /\ y.setback_count = x.setback_count /\ y.setback = x.setback
             /\ x.replacement_for = o /\ y.replacement_for = None
  BY <1>1, <1>4 DEF Is_released, Order_objects
<1>5. /\ y.node = x.node /\ y.task = x.task /\ y.moved = x.moved /\ y.touched = x.touched
      /\ y.setback_count = x.setback_count /\ y.setback = x.setback
      /\ \/ y.replacement_for = x.replacement_for
         \/ x.replacement_for = o /\ y.replacement_for = None
  BY <1>2, <1>3, <1>4
<1> QED
  BY <1>5 DEF x, y

\* No order begins, and none that had begun comes back into the chain.
Nobody_begins(s, r) == \A o \in Orders : Begun_before(s.order[o], r.order[o])

LEMMA Nobody_begins_by_acts ==
  ASSUME NEW s \in States, NEW o \in Orders, NEW r, Acts_on(s, r, o)
  PROVE  Nobody_begins(s, r)
<1>1. ASSUME NEW p \in Orders PROVE Begun_before(s.order[p], r.order[p])
  <2>1. CASE p = o
    BY <2>1 DEF Acts_on
  <2>2. CASE p # o
    BY <2>2, Other_order DEF Begun_before
  <2> QED BY <2>1, <2>2
<1> QED
  BY <1>1 DEF Nobody_begins

LEMMA Nobody_begins_both ==
  ASSUME NEW s, NEW r, NEW q, Nobody_begins(s, r), Nobody_begins(r, q)
  PROVE  Nobody_begins(s, q)
BY DEF Nobody_begins, Begun_before

\* Orders begin only as far as max_orders allows.
Begun(s) == {o \in Orders : s.order[o].touched /\ s.order[o].node \in Nodes}

Begins_within_limit(s, r) ==
    Begun(r) = Begun(s) \/ Cardinality(Begun(r)) <= config.max_orders

LEMMA Begins_within_limit_both ==
  ASSUME NEW s, NEW r, NEW q, Begins_within_limit(s, r), Begins_within_limit(r, q)
  PROVE  Begins_within_limit(s, q)
BY DEF Begins_within_limit

LEMMA Nobody_begins_in_the_same_orders ==
  ASSUME NEW s, NEW r, r.order = s.order
  PROVE  Nobody_begins(s, r) /\ Begins_within_limit(s, r)
BY DEF Nobody_begins, Begun_before, Begins_within_limit, Begun

LEMMA Acts_keep ==
  ASSUME NEW s, NEW c \in Nat, NEW d \in Nat, c <= d, Orders_right(s, c),
         NEW o \in Orders, NEW r, Acts_on(s, r, o), Is_placed(r, o),
         Fits(s.order[o], r.order[o], d),
         \/ ~Is_waited_for(r, o)
         \/ s.order[o].task # None /\ s.order[o].node = Out
            => r.order[o].task # None /\ r.order[o].node = Out
  PROVE  Orders_right(r, d)
<1>1. s \in States /\ r \in States /\ Is_well_queued(r)
  BY Acts_on_parts DEF Orders_right
<1>2. Queues_right(r)
  <2>1. ASSUME NEW p \in Orders, p # o PROVE Is_placed(r, p)
    <3>1. Is_placed(s, p)
      BY DEF Orders_right, Queues_right
    <3>2. r.order[p].node = s.order[p].node
      BY <1>1, <2>1, Other_order
    <3>3. \A n \in Nodes : p \in Range(r.queue[n]) <=> p \in Range(s.queue[n])
      BY <2>1 DEF Acts_on, Others_stay
    <3> QED BY <3>1, <3>2, <3>3 DEF Is_placed
  <2>2. \A n \in Nodes : Is_distinct(r.queue[n])
    BY <1>1 DEF Is_well_queued
  <2> QED BY <2>1, <2>2 DEF Queues_right
<1>3. Replacements_right(r)
  <2> SUFFICES ASSUME NEW p \in Orders, r.order[p].replacement_for # None
               PROVE  LET old == r.order[p].replacement_for IN
                      r.order[old].task # None /\ r.order[old].node = Out
    BY DEF Replacements_right
  <2> DEFINE old == r.order[p].replacement_for
  <2>1. old = s.order[p].replacement_for
    <3>1. CASE p = o
      BY <3>1 DEF Fits
    <3>2. CASE p # o
      BY <1>1, <3>2, Other_order
    <3> QED BY <3>1, <3>2
  <2>2. old \in Orders
    BY <1>1, State_parts, Order_parts
  <2>3. s.order[old].task # None /\ s.order[old].node = Out
    BY <2>1 DEF Orders_right, Replacements_right
  <2>4. Is_waited_for(r, old)
    BY DEF Is_waited_for
  <2> HIDE DEF old
  <2>5. CASE old = o
    BY <2>3, <2>4, <2>5 DEF old
  <2>6. CASE old # o
    BY <1>1, <2>2, <2>3, <2>6, Other_order DEF old
  <2> QED BY <2>5, <2>6
<1>4. Occupied_right(r)
  <2> SUFFICES ASSUME NEW p \in Orders, r.order[p].task # None, ~r.order[p].moved
               PROVE  r.order[p].node \in Nodes
    BY DEF Occupied_right
  <2>1. CASE p = o
    BY <2>1 DEF Fits
  <2>2. CASE p # o
    BY <1>1, <2>2, Other_order DEF Orders_right, Occupied_right
  <2> QED BY <2>1, <2>2
<1>5. ASSUME NEW p \in Orders PROVE Count_right(r.order[p], d)
  <2>1. CASE p = o
    BY <2>1 DEF Fits
  <2>2. CASE p # o
    <3>1. Count_right(s.order[p], d)
      BY <1>1, State_parts, Later_count DEF Orders_right
    <3> QED BY <1>1, <2>2, <3>1, Other_order DEF Count_right
  <2> QED BY <2>1, <2>2
<1> QED
  BY <1>1, <1>2, <1>3, <1>4, <1>5 DEF Orders_right

LEMMA Orders_right_parts ==
  ASSUME NEW s, NEW c, Orders_right(s, c), NEW o \in Orders
  PROVE  /\ Is_well_queued(s) /\ s \in States /\ Is_placed(s, o) /\ s.order[o] \in Order_objects
         /\ Count_right(s.order[o], c)
         /\ s.order[o].task # None /\ ~s.order[o].moved => s.order[o].node \in Nodes
         /\ Is_waited_for(s, o) => s.order[o].task # None /\ s.order[o].node = Out
<1>1. Is_well_queued(s) /\ s \in States /\ Is_placed(s, o) /\ s.order[o] \in Order_objects
  BY State_parts DEF Orders_right, Queues_right, Is_well_queued
<1>2. /\ Count_right(s.order[o], c)
      /\ s.order[o].task # None /\ ~s.order[o].moved => s.order[o].node \in Nodes
  BY DEF Orders_right, Occupied_right
<1>3. Is_waited_for(s, o) => s.order[o].task # None /\ s.order[o].node = Out
  BY OrdersAssumption DEF Orders_right, Replacements_right, Is_waited_for
<1> QED
  BY <1>1, <1>2, <1>3

LEMMA Goes_on_fits ==
  ASSUME NEW x \in Order_objects, NEW y \in Order_objects, NEW c \in Nat, Goes_on(x, y),
         Count_right(x, c), x.task # None /\ ~x.moved => x.node \in Nodes
  PROVE  /\ Fits(x, y, c)
         /\ x.task # None /\ x.node = Out => y.task # None /\ y.node = Out
<1>1. Count_right(y, c)
  <2>1. CASE y.setback_count = 0
    BY <2>1, OrdersAssumption DEF Count_right
  <2>2. CASE y.setback_count = x.setback_count /\ y.setback = x.setback
    BY <2>2 DEF Count_right, Goes_on
  <2> QED BY <2>1, <2>2 DEF Goes_on
<1> QED
  BY <1>1 DEF Fits, Goes_on

LEMMA Goes_keeps ==
  ASSUME NEW s, NEW c \in Nat, Orders_right(s, c), NEW o \in Orders, NEW r, Goes(s, r, o)
  PROVE  Orders_right(r, c)
<1> DEFINE x == s.order[o]
           y == r.order[o]
<1>1. /\ x \in Order_objects /\ Count_right(x, c)
      /\ x.task # None /\ ~x.moved => x.node \in Nodes
  BY Orders_right_parts
<1>2. y \in Order_objects /\ Goes_on(x, y) /\ Acts_on(s, r, o) /\ Is_placed(r, o)
  BY Goes_parts DEF Goes
<1> HIDE DEF x, y
<1>3. Fits(x, y, c) /\ (x.task # None /\ x.node = Out => y.task # None /\ y.node = Out)
  BY <1>1, <1>2, Goes_on_fits
<1>4. c <= c
  OBVIOUS
<1> QED
  BY <1>2, <1>3, <1>4, Acts_keep DEF x, y

\* The tasks and the orders know each other as before.
LEMMA Tasks_stay ==
  ASSUME NEW s \in States, Tasks_right(s), NEW o \in Orders, NEW r, Acts_on(s, r, o),
         r.order[o].task = s.order[o].task,
         r.order[o].moved => s.order[o].moved \/ s.order[o].task # None
  PROVE  Tasks_right(r)
<1>1. ASSUME NEW p \in Orders
      PROVE  r.order[p].task = s.order[p].task /\ (r.order[p].moved => r.order[p].task # None)
  <2>1. s.order[p].moved => s.order[p].task # None
    BY DEF Tasks_right
  <2>2. CASE p = o
    BY <2>1, <2>2
  <2>3. CASE p # o
    BY <2>1, <2>3, Other_order
  <2> QED BY <2>2, <2>3
<1>2. r.task = s.task
  BY DEF Acts_on
<1> QED
  BY <1>1, <1>2 DEF Tasks_right

LEMMA Goes_right ==
  ASSUME NEW s, NEW c \in Nat, Right(s, c), NEW o \in Orders, NEW r, Goes(s, r, o)
  PROVE  Right(r, c)
<1>1. Orders_right(r, c) /\ s \in States
  BY Goes_keeps DEF Right, Orders_right
<1>2. Tasks_right(r)
  BY <1>1, Tasks_stay DEF Right, Goes, Goes_on
<1> QED
  BY <1>1, <1>2 DEF Right

-----------------------------------------------------------------------------
(* A task is through with an order.                                        *)

Set_back_order(x) ==
    [x EXCEPT !.setback_count = x.setback_count + 1, !.setback_called = TRUE,
              !.setback = IF x.setback_count + 1 <= MaxSetbacks THEN Future ELSE Never]

LEMMA Setback_acts ==
  ASSUME NEW s, Is_well_queued(s), NEW o \in Orders, Is_placed(s, o), s.order[o].node \in Nodes
  PROVE  Becomes(s, Setback(s, o), o, Set_back_order(s.order[o]))
<1> DEFINE x == Set_back_order(s.order[o])
           s1 == [s EXCEPT !.order[o] = x]
<1>1. s \in States /\ s.order[o] \in Order_objects
  BY State_parts DEF Is_well_queued
<1>2. x \in Order_objects /\ x.node = s.order[o].node /\ Begun_before(s.order[o], x)
  <2> DEFINE t == IF s.order[o].setback_count + 1 <= MaxSetbacks THEN Future ELSE Never
  <2>1. t \in Times /\ s.order[o].setback_count + 1 \in Nat
    BY <1>1, Numbers, Order_parts
  <2>2. x = [s.order[o] EXCEPT !.setback_count = s.order[o].setback_count + 1,
                               !.setback_called = TRUE, !.setback = t]
    BY DEF Set_back_order
  <2> HIDE DEF t, x
  <2> QED BY <1>1, <2>1, <2>2 DEF Order_objects, Begun_before
<1>3. Setback(s, o) = Reinsert(s1, o)
  <2>1. [s EXCEPT !.order[o].setback_count = s.order[o].setback_count + 1,
                  !.order[o].setback_called = TRUE,
                  !.order[o].setback = IF s.order[o].setback_count + 1 <= MaxSetbacks
                                       THEN Future ELSE Never] = s1
    BY <1>1 DEF States, Set_back_order
  <2> HIDE DEF s1
  <2> QED BY <2>1 DEF Setback
<1> HIDE DEF x
<1>4. Becomes(s, s1, o, x)
  BY <1>2, Order_changes
<1> HIDE DEF s1
<1>5. Becomes(s1, Reinsert(s1, o), o, x)
  BY <1>2, <1>4, Becomes_parts, Reinsert_acts
<1> QED
  BY <1>1, <1>3, <1>4, <1>5, Becomes_both DEF x

\* The order while its task is getting through with it, and when the task has let it go.
Is_kept(x, y, c) ==
    /\ y.task = x.task /\ y.node = x.node /\ y.moved = x.moved /\ y.touched = x.touched
    /\ y.replacement_for = x.replacement_for
    /\ y.setback_count <= MaxSetbacks + c + (IF y.setback = Never THEN 1 ELSE 0)

Is_let_go(x, y, c) ==
    /\ y.task = None /\ y.node = x.node /\ y.moved = x.moved /\ y.touched = x.touched
    /\ y.replacement_for = x.replacement_for /\ Count_right(y, c)

LEMMA Kept_at_first ==
  ASSUME NEW x \in Order_objects, NEW c \in Nat, Count_right(x, c), x.task # None
  PROVE  /\ Is_kept(x, x, c)
         /\ Set_back_order(x) \in Order_objects /\ Is_kept(x, Set_back_order(x), c)
<1>1. Future \in Times /\ Never \in Times /\ MaxSetbacks \in Nat /\ Future # Never
  BY Numbers, OrdersAssumption
<1>2. x.setback_count \in Nat /\ x.setback_count <= MaxSetbacks + c
  <2>1. ~(x.setback = Never /\ x.task = None)
    OBVIOUS
  <2>2. x.setback_count <= MaxSetbacks + c + 0
    BY <2>1 DEF Count_right
  <2> QED BY <1>1, <2>2, Order_parts
<1> DEFINE y == Set_back_order(x)
<1>3. /\ y \in Order_objects /\ y.node = x.node /\ y.moved = x.moved /\ y.task = x.task
      /\ y.touched = x.touched
      /\ y.replacement_for = x.replacement_for /\ y.setback_count = x.setback_count + 1
      /\ y.setback = IF x.setback_count + 1 <= MaxSetbacks THEN Future ELSE Never
  <2> DEFINE t == IF x.setback_count + 1 <= MaxSetbacks THEN Future ELSE Never
  <2>1. t \in Times /\ x.setback_count + 1 \in Nat
    BY <1>1, <1>2
  <2>2. y = [x EXCEPT !.setback_count = x.setback_count + 1, !.setback_called = TRUE,
                      !.setback = t]
    BY DEF Set_back_order
  <2>3. /\ y \in Order_objects /\ y.node = x.node /\ y.moved = x.moved /\ y.task = x.task
        /\ y.touched = x.touched
        /\ y.replacement_for = x.replacement_for /\ y.setback_count = x.setback_count + 1
        /\ y.setback = t
    <3> HIDE DEF t, y
    <3> QED BY <2>1, <2>2 DEF Order_objects
  <2> QED BY <2>3 DEF t
<1> HIDE DEF y
<1>4. Is_kept(x, y, c)
  BY <1>1, <1>2, <1>3 DEF Is_kept
<1>5. Is_kept(x, x, c)
  BY <1>1, <1>2 DEF Is_kept
<1> QED
  BY <1>3, <1>4, <1>5 DEF y

LEMMA Kept_further ==
  ASSUME NEW x \in Order_objects, NEW c \in Nat, NEW y \in Order_objects, Is_kept(x, y, c)
  PROVE  LET z == With_no_count(y)
             w == With_setback(z, Zero)
         IN /\ z \in Order_objects /\ Is_kept(x, z, c)
            /\ w \in Order_objects /\ Is_kept(x, w, c)
<1> DEFINE z == With_no_count(y)
           w == With_setback(z, Zero)
<1>1. Zero \in Times /\ Zero # Never /\ MaxSetbacks \in Nat
  BY Numbers, OrdersAssumption
<1>2. /\ z \in Order_objects /\ z.node = y.node /\ z.moved = y.moved /\ z.task = y.task
      /\ z.touched = y.touched
      /\ z.replacement_for = y.replacement_for /\ z.setback_count = 0
  BY DEF With_no_count, Order_objects
<1> HIDE DEF z
<1>3. /\ w \in Order_objects /\ w.node = z.node /\ w.moved = z.moved /\ w.task = z.task
      /\ w.touched = z.touched
      /\ w.replacement_for = z.replacement_for /\ w.setback_count = z.setback_count
  BY <1>1, <1>2 DEF With_setback, Order_objects
<1> HIDE DEF w
<1>4. Is_kept(x, z, c) /\ Is_kept(x, w, c)
  BY <1>1, <1>2, <1>3 DEF Is_kept
<1> QED
  BY <1>2, <1>3, <1>4 DEF z, w

LEMMA Kept_is_let_go ==
  ASSUME NEW x \in Order_objects, NEW c \in Nat, NEW y \in Order_objects, Is_kept(x, y, c)
  PROVE  LET z == [y EXCEPT !.task = None] IN z \in Order_objects /\ Is_let_go(x, z, c)
<1> DEFINE z == [y EXCEPT !.task = None]
<1>1. /\ z \in Order_objects /\ z.node = y.node /\ z.moved = y.moved /\ z.task = None
      /\ z.touched = y.touched
      /\ z.replacement_for = y.replacement_for /\ z.setback_count = y.setback_count
      /\ z.setback = y.setback
  BY DEF Order_objects
<1> HIDE DEF z
<1>2. Count_right(z, c)
  BY <1>1 DEF Count_right, Is_kept
<1>3. Is_let_go(x, z, c)
  BY <1>1, <1>2 DEF Is_let_go, Is_kept
<1> QED
  BY <1>1, <1>3 DEF z

LEMMA Closed_keeps ==
  ASSUME NEW s, NEW c \in Nat, Orders_right(s, c), NEW o \in Orders, NEW r, Acts_on(s, r, o),
         Is_placed(r, o), r.order[o] = New_order, ~Is_waited_for(r, o)
  PROVE  Orders_right(r, c)
<1>1. New_order.task = None /\ New_order.replacement_for = None /\ New_order.setback_count = 0
  BY DEF New_order
<1>2. Fits(s.order[o], New_order, c) /\ c <= c
  BY <1>1, OrdersAssumption DEF Fits, Count_right
<1> QED
  BY <1>2, Acts_keep

LEMMA Postprocessing2_keeps ==
  ASSUME NEW s, NEW c \in Nat, NEW o \in Orders, Is_well_queued(s), Is_placed(s, o),
         s.order[o].task = None,
         Orders_right(s, c) \/ s.order[o].node = Out
  PROVE  LET r == Postprocessing2(s, o) IN
         /\ Acts_on(s, r, o) /\ Is_placed(r, o)
         /\ r.order[o].task = None /\ ~r.order[o].moved
         /\ \/ Orders_right(s, c) /\ Orders_right(r, c)
            \/ r.order[o] = New_order /\ ~Is_waited_for(r, o)
<1> DEFINE x == s.order[o]
           y == [x EXCEPT !.moved = FALSE]
           s0 == [s EXCEPT !.order[o] = y]
           s1 == Signal(s0, o)
           n == x.node
           r == Postprocessing2(s, o)
<1>1. s \in States /\ x \in Order_objects
  BY State_parts DEF Is_well_queued
<1>2. y \in Order_objects /\ y.node = x.node /\ y.task = None /\ ~y.moved
      /\ y.replacement_for = x.replacement_for /\ y.setback_count = x.setback_count
      /\ y.setback = x.setback /\ Begun_before(x, y)
  BY <1>1 DEF Order_objects, Begun_before
<1>3. [s EXCEPT !.order[o].moved = FALSE] = s0
  BY <1>1 DEF States
<1> HIDE DEF y
<1>4. Becomes(s, s0, o, y)
  BY <1>2, Order_changes
<1> HIDE DEF s0
<1>5. Becomes(s0, s1, o, y)
  <2>1. Is_well_queued(s0) /\ Is_placed(s0, o) /\ s0.order[o] = y /\ s0 \in States
    BY <1>4, Becomes_parts
  <2> QED BY <2>1, Signal_signals, Signals_act
<1> HIDE DEF s1
<1>6. Becomes(s, s1, o, y)
  BY <1>1, <1>4, <1>5, Becomes_both
<1>7. Is_well_queued(s1) /\ Is_placed(s1, o) /\ s1.order[o] = y /\ s1 \in States
      /\ Acts_on(s, s1, o)
  BY <1>6, Becomes_parts DEF Becomes
<1>8. r = IF n = Out THEN Close(s1, o)
          ELSE IF n \in Nodes /\ s.action[n] = "next_state" THEN Set_state1(s1, o, n)
          ELSE s1
  <2>1. s1.action = s.action
    BY <1>7 DEF Acts_on
  <2>2. r = IF n = Out THEN Close(s1, o)
            ELSE IF n \in Nodes /\ s1.action[n] = "next_state" THEN Set_state1(s1, o, n)
            ELSE s1
    <3> DEFINE z == [s EXCEPT !.order[o].moved = FALSE]
    <3>1. r = IF n = Out THEN Close(Signal(z, o), o)
              ELSE IF n \in Nodes /\ s.action[n] = "next_state"
                   THEN Set_state1(Signal(z, o), o, n) ELSE Signal(z, o)
      BY DEF Postprocessing2
    <3>2. z = s0
      BY <1>3
    <3> HIDE DEF z, r
    <3> QED BY <2>1, <3>1, <3>2 DEF s1
  <2> QED BY <2>1, <2>2
<1> HIDE DEF r
<1>9. CASE n = Out
  <2>1. Is_nowhere(s1, o)
    BY <1>2, <1>7, <1>9, Numbers, Is_queued_where
  <2>2. Becomes(s1, r, o, New_order) /\ \A p \in Orders : r.order[p].replacement_for # o
    BY <1>7, <1>8, <1>9, <2>1, Close_acts
  <2>3. New_order.task = None /\ ~New_order.moved
    BY DEF New_order
  <2>4. Acts_on(s, r, o) /\ r.order[o] = New_order /\ Is_placed(r, o)
    BY <1>1, <1>7, <2>2, Acts_on_both DEF Becomes
  <2> QED BY <2>2, <2>3, <2>4 DEF Is_waited_for, r
<1>10. CASE n # Out
  <2>1. Orders_right(s, c) /\ Count_right(x, c)
    BY <1>10, Orders_right_parts
  <2>2. Orders_right(s1, c)
    <3>1. Count_right(y, c)
      BY <1>2, <2>1 DEF Count_right, x
    <3>2. Fits(x, y, c) /\ c <= c
      BY <1>2, <3>1 DEF Fits
    <3> QED BY <1>7, <2>1, <3>2, Acts_keep
  <2>3. Goes(s1, r, o)
    <3>1. CASE n \in Nodes /\ s.action[n] = "next_state"
      <4>1. n \in Nodes \cup {End} /\ s1.order[o].node # Out
        BY <1>2, <1>7, <1>10, <3>1
      <4>2. r = Set_state1(s1, o, n)
        BY <1>8, <1>10, <3>1
      <4> HIDE DEF n
      <4> QED BY <1>7, <4>1, <4>2, Set_state1_goes DEF May_move
    <3>2. CASE ~(n \in Nodes /\ s.action[n] = "next_state")
      BY <1>7, <1>8, <1>10, <3>2, Stays_goes
    <3> QED BY <3>1, <3>2
  <2>4. Orders_right(r, c)
    BY <2>2, <2>3, Goes_keeps
  <2>5. Acts_on(s, r, o) /\ Is_placed(r, o)
    BY <1>1, <1>7, <2>3, Acts_on_both DEF Goes
  <2>6. r.order[o].task = None /\ ~r.order[o].moved
    BY <1>2, <1>7, <2>3 DEF Goes, Goes_on
  <2> QED BY <2>1, <2>4, <2>5, <2>6 DEF r
<1> QED
  BY <1>9, <1>10

\* A change of an order that its task is getting through with.
Keeps(s, r, o, c) ==
    Acts_on(s, r, o) /\ Is_placed(r, o) /\ Is_kept(s.order[o], r.order[o], c)

LEMMA Keeps_further ==
  ASSUME NEW s \in States, NEW c \in Nat, NEW o \in Orders, NEW r, Keeps(s, r, o, c)
  PROVE  /\ Keeps(s, Forget_setbacks(r, o), o, c)
         /\ Keeps(s, [Forget_setbacks(r, o) EXCEPT !.order[o].setback = Zero], o, c)
<1> DEFINE x == s.order[o]
           y == r.order[o]
           z == With_no_count(y)
           w == With_setback(z, Zero)
           q == Forget_setbacks(r, o)
           p == [q EXCEPT !.order[o] = w]
<1>1. Is_well_queued(r) /\ Is_placed(r, o) /\ Acts_on(s, r, o) /\ y \in Order_objects
      /\ x \in Order_objects /\ Is_kept(x, y, c)
  BY Acts_on_parts, State_parts DEF Keeps
<1> HIDE DEF x, y
<1>2. /\ z \in Order_objects /\ Is_kept(x, z, c)
      /\ w \in Order_objects /\ Is_kept(x, w, c)
  BY <1>1, Kept_further
<1>3. w.node = z.node /\ Begun_before(z, w)
  BY <1>2 DEF With_setback, Order_objects, Begun_before
<1>4. Becomes(r, q, o, z)
  BY <1>1, Forget_setbacks_acts DEF y
<1> HIDE DEF q, z
<1>5. q \in States /\ q.order[o] = z /\ Is_well_queued(q) /\ Is_placed(q, o)
  BY <1>4, Acts_on_parts DEF Becomes
<1>6. [q EXCEPT !.order[o].setback = Zero] = p
  BY <1>5 DEF States, With_setback
<1> HIDE DEF w
<1>7. Becomes(q, p, o, w)
  BY <1>2, <1>3, <1>5, Order_changes
<1> HIDE DEF p
<1>8. Acts_on(s, q, o)
  BY <1>1, <1>4, Acts_on_both DEF Becomes
<1>9. Acts_on(s, p, o)
  BY <1>7, <1>8, Acts_on_both DEF Becomes
<1> QED
  BY <1>2, <1>4, <1>6, <1>7, <1>8, <1>9 DEF Keeps, Becomes, q, x

LEMMA Keeps_set_back ==
  ASSUME NEW s, NEW c \in Nat, Orders_right(s, c), NEW o \in Orders, s.order[o].task # None
  PROVE  /\ Keeps(s, s, o, c)
         /\ s.order[o].node \in Nodes => Keeps(s, Setback(s, o), o, c)
<1>1. /\ Is_well_queued(s) /\ s \in States /\ Is_placed(s, o) /\ s.order[o] \in Order_objects
      /\ Count_right(s.order[o], c)
  BY Orders_right_parts
<1>2. /\ Is_kept(s.order[o], s.order[o], c)
      /\ Is_kept(s.order[o], Set_back_order(s.order[o]), c)
  BY <1>1, Kept_at_first
<1>3. Becomes(s, s, o, s.order[o])
  BY <1>1, Stays
<1>4. s.order[o].node \in Nodes => Becomes(s, Setback(s, o), o, Set_back_order(s.order[o]))
  BY <1>1, Setback_acts
<1> QED
  BY <1>2, <1>3, <1>4 DEF Keeps, Becomes

LEMMA Postprocessing_keeps ==
  ASSUME NEW s, NEW c \in Nat, Orders_right(s, c), NEW o \in Orders, s.order[o].task # None,
         NEW success \in BOOLEAN
  PROVE  LET r == Postprocessing(s, o, success) IN
         /\ Orders_right(r, c) /\ Acts_on(s, r, o)
         /\ r.order[o].task = None /\ ~r.order[o].moved
<1> DEFINE n == s.order[o].node
           On_error(kind) == n \in Nodes /\ OnError[n] = kind
           s1 == IF ~success /\ On_error("setback") THEN Setback(s, o) ELSE s
           s2 == IF s1.order[o].setback_called THEN s1 ELSE Forget_setbacks(s1, o)
           x  == s2.order[o]
           exhausted == ~x.suspended /\ x.setback = Never /\ x.setback_count > MaxSetbacks
           s3 == IF exhausted THEN [Forget_setbacks(s2, o) EXCEPT !.order[o].setback = Zero] ELSE s2
           s4 == [s3 EXCEPT !.order[o].task = None]
           ok == success /\ ~exhausted
           s40 == IF s4.action[n] = "next_state" THEN Clear_setback(s4, o) ELSE s4
           s5 == IF exhausted \/ (x.setback_count = 0 /\ ~x.moved)
                 THEN IF n \notin Nodes THEN s4
                      ELSE IF ~ok /\ On_error("suspend") THEN Set_suspended(s4, o, TRUE)
                      ELSE Set_state1(s4, o, IF ok THEN n + 1 ELSE End)
                 ELSE IF x.moved THEN s4
                 ELSE Set_state1(s40, o, n)
           r == Postprocessing2(s5, o)
           old == s.order[o]
<1>1. /\ Is_well_queued(s) /\ s \in States /\ Is_placed(s, o) /\ old \in Order_objects
      /\ ~old.moved => n \in Nodes
  BY Orders_right_parts
<1>2. Postprocessing(s, o, success) = r
  BY DEF Postprocessing
<1>3. Keeps(s, s1, o, c)
  BY Keeps_set_back
<1> HIDE DEF s1
<1>4. Keeps(s, s2, o, c)
  BY <1>1, <1>3, Keeps_further
<1> HIDE DEF s2
<1>5. Keeps(s, s3, o, c) /\ x.moved = old.moved /\ x.node = n
  BY <1>1, <1>4, Keeps_further DEF Keeps, Is_kept
<1> HIDE DEF s3, exhausted, x
<1> DEFINE y3 == s3.order[o]
           y4 == [y3 EXCEPT !.task = None]
<1>6. s3 \in States /\ Is_well_queued(s3) /\ Is_placed(s3, o) /\ y3 \in Order_objects
      /\ Is_kept(old, y3, c) /\ Acts_on(s, s3, o)
  BY <1>5, Acts_on_parts, State_parts DEF Keeps
<1>7. s4 = [s3 EXCEPT !.order[o] = y4]
  BY <1>6 DEF States
<1> HIDE DEF s4, y3, old
<1>8. y4 \in Order_objects /\ Is_let_go(old, y4, c)
  BY <1>1, <1>6, Kept_is_let_go
<1>9. y4.node = y3.node /\ Begun_before(y3, y4)
  BY <1>6, <1>8 DEF Is_let_go, Is_kept, Begun_before
<1> HIDE DEF y4
<1>10. Becomes(s3, s4, o, y4)
  BY <1>6, <1>7, <1>8, <1>9, Order_changes DEF y3
<1>11. /\ s4 \in States /\ Is_well_queued(s4) /\ Is_placed(s4, o) /\ s4.order[o] = y4
       /\ Acts_on(s, s4, o)
  BY <1>1, <1>6, <1>10, Becomes_parts, Acts_on_both DEF Becomes
<1>12. y4.node = n /\ y4.task = None /\ y4.replacement_for = old.replacement_for
       /\ Count_right(y4, c)
  BY <1>8 DEF Is_let_go, old
<1>13. CASE n = Out
  <2>1. n \notin Nodes /\ x.moved
    BY <1>1, <1>5, <1>13, Numbers
  <2>2. s5 = s4
    BY <2>1
  <2> HIDE DEF s5, n
  <2>3. /\ Acts_on(s4, r, o) /\ Is_placed(r, o) /\ r.order[o].task = None /\ ~r.order[o].moved
        /\ (Orders_right(r, c) \/ (r.order[o] = New_order /\ ~Is_waited_for(r, o)))
    BY <1>11, <1>12, <1>13, <2>2, Postprocessing2_keeps
  <2> HIDE DEF r
  <2>4. Acts_on(s, r, o)
    BY <1>1, <1>11, <2>3, Acts_on_both
  <2>5. Orders_right(r, c)
    BY <2>3, <2>4, Closed_keeps
  <2> QED BY <1>2, <2>3, <2>4, <2>5
<1>14. CASE n # Out
  <2>1. Orders_right(s4, c)
    <3>1. Fits(s.order[o], s4.order[o], c)
      BY <1>11, <1>12 DEF Fits, old
    <3>2. ~(s.order[o].task # None /\ s.order[o].node = Out) /\ c <= c
      BY <1>14
    <3> QED BY <1>11, <3>1, <3>2, Acts_keep
  <2>2. Goes(s4, s4, o)
    BY <1>11, Stays_goes
  <2>3. Goes(s4, Set_suspended(s4, o, TRUE), o)
    BY <1>11, Set_suspended_goes
  <2>4. ASSUME n \in Nodes
        PROVE  n + 1 \in Nodes \cup {End} /\ n \in Nodes \cup {End} /\ End \in Nodes \cup {End}
    <3> HIDE DEF n
    <3> QED BY <2>4, Numbers
  <2> DEFINE to == IF ok THEN n + 1 ELSE End
  <2>5. n \in Nodes => to \in Nodes \cup {End}
    <3> HIDE DEF ok, n
    <3> QED BY <2>4
  <2> HIDE DEF n, to, ok
  <2>6. n \in Nodes => Goes(s4, Set_state1(s4, o, to), o)
    BY <1>11, <1>12, <1>14, <2>5, Set_state1_goes DEF May_move
  <2>7. n \in Nodes => Goes(s4, Set_state1(s40, o, n), o)
    <3> SUFFICES ASSUME n \in Nodes PROVE Goes(s4, Set_state1(s40, o, n), o)
      OBVIOUS
    <3>1. Goes(s4, s40, o) /\ s40.order[o].node = n
      <4>1. Goes(s4, Clear_setback(s4, o), o)
        BY <1>11, Clear_setback_goes
      <4>2. Becomes(s4, Clear_setback(s4, o), o, With_clear_setback(y4))
        BY <1>11, Clear_setback_acts
      <4>3. With_clear_setback(y4).node = y4.node
        BY <1>8 DEF With_clear_setback, With_no_count, With_setback, Order_objects
      <4> QED BY <1>11, <1>12, <2>2, <4>1, <4>2, <4>3 DEF Becomes
    <3> HIDE DEF s40
    <3>2. Goes(s40, Set_state1(s40, o, n), o)
      BY <1>14, <2>4, <3>1, Goes_parts, Set_state1_goes DEF May_move
    <3> QED BY <1>11, <3>1, <3>2, Goes_both
  <2>8. Goes(s4, s5, o)
    <3> HIDE DEF s40
    <3>1. ~x.moved => n \in Nodes
      BY <1>1, <1>5 DEF old
    <3>2. s5 \in {s4, Set_suspended(s4, o, TRUE), Set_state1(s4, o, to), Set_state1(s40, o, n)}
          /\ (s5 \in {s4, Set_suspended(s4, o, TRUE)} \/ n \in Nodes)
      BY <3>1 DEF to, ok
    <3> HIDE DEF s5
    <3> QED BY <2>2, <2>3, <2>6, <2>7, <3>2
  <2> HIDE DEF s5
  <2>9. /\ Orders_right(s5, c) /\ s5.order[o].task = None
        /\ Is_well_queued(s5) /\ Is_placed(s5, o) /\ Acts_on(s4, s5, o)
    BY <1>11, <1>12, <2>1, <2>8, Goes_keeps, Goes_parts DEF Goes, Goes_on
  <2>10. /\ Acts_on(s5, r, o) /\ Is_placed(r, o) /\ r.order[o].task = None /\ ~r.order[o].moved
         /\ (Orders_right(r, c) \/ (r.order[o] = New_order /\ ~Is_waited_for(r, o)))
    BY <2>9, Postprocessing2_keeps
  <2> HIDE DEF r
  <2>11. Orders_right(r, c)
    BY <2>9, <2>10, Closed_keeps
  <2>12. Acts_on(s, r, o)
    BY <1>1, <1>11, <2>9, <2>10, Acts_on_both
  <2> QED BY <1>2, <2>10, <2>11, <2>12
<1> QED
  BY <1>13, <1>14

-----------------------------------------------------------------------------
(* Tasks take orders.                                                      *)

LEMMA Same_orders ==
  ASSUME NEW s, NEW c, Orders_right(s, c), NEW r \in States, r.order = s.order, r.queue = s.queue
  PROVE  Orders_right(r, c)
<1>1. Queues_right(r)
  BY DEF Orders_right, Queues_right, Is_placed
<1>2. Replacements_right(r)
  BY DEF Orders_right, Replacements_right
<1>3. Occupied_right(r)
  BY DEF Orders_right, Occupied_right
<1> QED
  BY <1>1, <1>2, <1>3 DEF Orders_right

LEMMA Same_tasks ==
  ASSUME NEW s, NEW c, Right(s, c), NEW r \in States, r.order = s.order, r.queue = s.queue,
         r.task = s.task
  PROVE  Right(r, c)
BY Same_orders DEF Right, Tasks_right

LEMMA Signals_right ==
  ASSUME NEW s, NEW c, Right(s, c), NEW r, Signals(s, r)
  PROVE  Right(r, c) /\ Nobody_begins(s, r) /\ Begins_within_limit(s, r)
BY Same_tasks, Nobody_begins_in_the_same_orders DEF Signals

LEMMA Task_set ==
  ASSUME NEW s \in States, NEW t \in Tasks, NEW u \in Task_objects
  PROVE  LET r == [s EXCEPT !.task[t] = u] IN
         /\ r \in States /\ r.order = s.order /\ r.queue = s.queue
         /\ r.task[t] = u /\ \A v \in Tasks : v # t => r.task[v] = s.task[v]
BY DEF States

\* A task without an order gets another state.
LEMMA Task_changes ==
  ASSUME NEW s, NEW c, Right(s, c), NEW j \in Jobs, NEW t \in TasksOf[j], t \in Tasks,
         s.task[t].order = None, NEW r \in States, r.order = s.order, r.queue = s.queue,
         r.task[t].order = None, r.task[t].state # "running",
         \A v \in Tasks : v # t => r.task[v] = s.task[v]
  PROVE  Right(r, c)
<1>1. Tasks_right(s) /\ Orders_right(r, c)
  BY Same_orders DEF Right
<1>2. \A p \in Orders, v \in Tasks : r.order[p].task = v <=> r.task[v].order = p
  BY <1>1 DEF Tasks_right
<1>3. \A p \in Orders : r.order[p].moved => r.order[p].task # None
  BY <1>1 DEF Tasks_right
<1>4. ASSUME NEW v \in Tasks
      PROVE  /\ r.task[v].order # None <=> r.task[v].state = "running"
             /\ r.task[v].state # "none" => \E i \in Jobs : v \in TasksOf[i]
  <2>1. CASE v = t
    BY <2>1
  <2>2. CASE v # t
    BY <1>1, <2>2 DEF Tasks_right
  <2> QED BY <2>1, <2>2
<1>5. Tasks_right(r)
  BY <1>2, <1>3, <1>4 DEF Tasks_right
<1> QED
  BY <1>1, <1>5 DEF Right

\* Nothing changes that the invariant speaks of.
LEMMA Same_where_it_matters ==
  ASSUME NEW s, NEW c, Right(s, c), NEW r \in States, r.queue = s.queue,
         \A o \in Orders :
            /\ r.order[o].node = s.order[o].node /\ r.order[o].task = s.order[o].task
            /\ r.order[o].moved = s.order[o].moved
            /\ r.order[o].replacement_for = s.order[o].replacement_for
            /\ r.order[o].setback_count = s.order[o].setback_count
            /\ r.order[o].setback = Never <=> s.order[o].setback = Never,
         \A t \in Tasks : r.task[t].state = s.task[t].state /\ r.task[t].order = s.task[t].order
  PROVE  Right(r, c)
<1>1. Orders_right(s, c) /\ Tasks_right(s) /\ s \in States
  BY DEF Right, Orders_right
<1>2. Queues_right(r)
  BY <1>1 DEF Orders_right, Queues_right, Is_placed
<1>3. Replacements_right(r)
  <2>1. \A o \in Orders : s.order[o].replacement_for \in Orders \cup {None}
    BY <1>1, State_parts, Order_parts
  <2> QED BY <1>1, <2>1 DEF Orders_right, Replacements_right
<1>4. Occupied_right(r)
  BY <1>1 DEF Orders_right, Occupied_right
<1>5. ASSUME NEW o \in Orders PROVE Count_right(r.order[o], c)
  <2>1. Count_right(s.order[o], c)
    BY <1>1 DEF Orders_right
  <2> QED BY <2>1 DEF Count_right
<1>6. Tasks_right(r)
  BY <1>1 DEF Tasks_right
<1> QED
  BY <1>2, <1>3, <1>4, <1>5, <1>6 DEF Right, Orders_right

\* What Number_of_touched_orders counts.
LEMMA Begun_orders ==
  ASSUME NEW s, NEW c, Orders_right(s, c)
  PROVE  Number_of_touched_orders(s) = Cardinality(Begun(s))
<1>1. \A o \in Orders : Is_queued(s, o) <=> s.order[o].node \in Nodes
  BY Is_queued_where DEF Orders_right, Queues_right
<1>2. {o \in Orders : Is_queued(s, o) /\ s.order[o].touched} = Begun(s)
  BY <1>1 DEF Begun
<1> QED
  BY <1>2 DEF Number_of_touched_orders

LEMMA Fetch_right ==
  ASSUME NEW s, NEW c \in Nat, Right(s, c), NEW j \in Jobs, NEW t \in TasksOf[j], t \in Tasks,
         s.task[t].order = None, config \in Configurations
  PROVE  /\ Right(Fetch(s, t, j), c) /\ Begins_within_limit(s, Fetch(s, t, j))
         /\ Fetch(s, t, j).task[t].order = None => Fetch(s, t, j) = s
<1> DEFINE ready == {n \in Nodes_of(j) : First_immediately_processable(s, n) # None}
           m == Least(ready)
           o == First_immediately_processable(s, m)
           x == s.order[o]
           y == [x EXCEPT !.setback = Zero, !.setback_called = FALSE, !.moved = FALSE,
                          !.task = t, !.touched = TRUE]
           u == [s.task[t] EXCEPT !.state = "running", !.order = o]
           s1 == [s EXCEPT !.order[o] = y]
           r == [s1 EXCEPT !.task[t] = u]
           x0 == [x EXCEPT !.touched = TRUE]
           s0 == [s EXCEPT !.order[o] = x0]
<1>0. Fetch(s, t, j) = IF ready = {} THEN s ELSE Occupy_for_task(s, o, t)
  BY DEF Fetch
<1>1. Orders_right(s, c) /\ Tasks_right(s) /\ s \in States
  BY DEF Right, Orders_right
<1>2. CASE ready = {}
  <2>1. Fetch(s, t, j) = s
    <3> HIDE DEF ready, r
    <3> QED BY <1>0, <1>2
  <2> QED BY <2>1, Nobody_begins_in_the_same_orders
<1>3. CASE ready # {}
  <2>1. m \in ready
    <3>1. ready \subseteq Nat
      BY Numbers DEF Nodes_of
    <3> HIDE DEF ready
    <3>2. \E n \in ready : \A k \in ready : n <= k
      BY <1>3, <3>1, First_position
    <3> QED BY <3>2 DEF Least
  <2> HIDE DEF m
  <2>2. m \in Nodes /\ o # None
    BY <2>1 DEF Nodes_of
  <2>3. o \in Orders /\ o \in Range(s.queue[m]) /\ Is_processable(s, o) /\ x.setback <= Past
        /\ (x.touched \/ Untouched_is_allowed(s))
    BY <1>1, <2>2, First_immediately_processable_order
  <2>4. Fetch(s, t, j) =
          [s EXCEPT !.order[o].setback = Zero, !.order[o].setback_called = FALSE,
                    !.order[o].moved = FALSE, !.order[o].task = t, !.order[o].touched = TRUE,
                    !.task[t].state = "running", !.task[t].order = o]
    <3> HIDE DEF o, ready
    <3> QED BY <1>0, <1>3 DEF Occupy_for_task
  <2> HIDE DEF o, ready
  <2>5. /\ Is_well_queued(s) /\ Is_placed(s, o) /\ x \in Order_objects /\ Count_right(x, c)
        /\ x.node = m /\ x.task = None
    BY <1>1, <2>2, <2>3, Orders_right_parts DEF Is_placed, Is_processable
  <2>6. s.task[t] \in Task_objects
    BY <1>1, State_parts
  <2>7. Fetch(s, t, j) = r
    <3> DEFINE a == [s EXCEPT !.order[o].setback = Zero, !.order[o].setback_called = FALSE,
                              !.order[o].moved = FALSE, !.order[o].task = t,
                              !.order[o].touched = TRUE]
    <3>1. a = s1
      <4> DEFINE y1 == [x EXCEPT !.setback = Zero, !.setback_called = FALSE]
                 s01 == [s EXCEPT !.order[o] = y1]
      <4>1. [s EXCEPT !.order[o].setback = Zero, !.order[o].setback_called = FALSE] = s01
        BY <1>1, <2>3 DEF States
      <4>2. s01 \in States /\ s01.order[o] = y1
        <5>1. Zero \in Times
          BY Numbers
        <5>2. y1 \in Order_objects
          BY <2>5, <5>1 DEF Order_objects
        <5> HIDE DEF y1
        <5> QED BY <1>1, <2>3, <5>2 DEF States
      <4>3. [s01 EXCEPT !.order[o] = y] = s1
        <5> HIDE DEF y, y1
        <5> QED BY <1>1, <2>3 DEF States
      <4>4. y = [y1 EXCEPT !.moved = FALSE, !.task = t, !.touched = TRUE]
        <5> HIDE DEF x
        <5> QED BY <2>5 DEF Order_objects
      <4>5. a = [s01 EXCEPT !.order[o].moved = FALSE, !.order[o].task = t,
                            !.order[o].touched = TRUE]
        BY <4>1
      <4> HIDE DEF a, s01, y, y1, s1
      <4> QED BY <2>3, <4>2, <4>3, <4>4, <4>5 DEF States
    <3>2. Fetch(s, t, j) = [a EXCEPT !.task[t].state = "running", !.task[t].order = o]
      BY <2>4
    <3>3. s1 \in [order : [Orders -> {s1.order[p] : p \in Orders}], queue : {s1.queue},
                  action : {s1.action}, stopped : {s1.stopped}, timed : {s1.timed},
                  calculated : {s1.calculated}, available : {s1.available},
                  closed : {s1.closed}, task : [Tasks -> Task_objects]] /\ s1.task = s.task
      <4> HIDE DEF y
      <4> QED BY <1>1, <2>3 DEF States
    <3> HIDE DEF a, s1
    <3>4. [s1 EXCEPT !.task[t].state = "running", !.task[t].order = o] = r
      <4> DEFINE w == [s1.task[t] EXCEPT !.state = "running", !.order = o]
      <4>1. [s1 EXCEPT !.task[t].state = "running", !.task[t].order = o] = [s1 EXCEPT !.task[t] = w]
        BY <2>6, <3>3
      <4>2. w = u
        BY <3>3
      <4> QED BY <4>1, <4>2
    <3> QED BY <3>1, <3>2, <3>4
  <2> HIDE DEF x
  <2>8. /\ y \in Order_objects /\ y.node = m /\ y.task = t /\ ~y.moved
        /\ y.replacement_for = x.replacement_for /\ y.setback_count = x.setback_count
        /\ y.setback = Zero /\ y.touched
        /\ x0 \in Order_objects /\ x0.node = m /\ x0.task = None /\ x0.touched
        /\ x0.moved = x.moved /\ x0.setback = x.setback
        /\ x0.replacement_for = x.replacement_for /\ x0.setback_count = x.setback_count
    <3>1. Zero \in Times /\ t \in Tasks \cup {None}
      BY Numbers
    <3> HIDE DEF m
    <3> QED BY <2>5, <3>1 DEF Order_objects
  <2>9. u \in Task_objects /\ u.state = "running" /\ u.order = o
    BY <2>3, <2>6 DEF Task_objects
  <2> HIDE DEF y, u, x0
  <2>21. s1 = [s0 EXCEPT !.order[o] = y]
    BY <1>1, <2>3 DEF States
  <2>22. /\ s0 \in States /\ s0.order[o] = x0
         /\ \A p \in Orders : p # o => s0.order[p] = s.order[p]
         /\ s0.queue = s.queue /\ s0.task = s.task
    BY <1>1, <2>3, <2>8, Order_set
  <2> HIDE DEF s0, s1
  <2>23. Right(s0, c)
    BY <1>1, <2>5, <2>8, <2>22, Same_where_it_matters DEF x
  <2>10. Becomes(s0, s1, o, y)
    <3>1. Is_well_queued(s0) /\ Is_placed(s0, o)
      BY <2>3, <2>23, Orders_right_parts DEF Right
    <3>2. Begun_before(x0, y)
      BY <2>2, <2>8, Numbers DEF Begun_before
    <3> QED BY <2>3, <2>8, <2>21, <2>22, <3>1, <3>2, Order_changes
  <2>11. s1 \in States /\ s1.order[o] = y /\ Acts_on(s0, s1, o) /\ Is_placed(s1, o)
    BY <2>10, Acts_on_parts, <2>3 DEF Becomes
  <2>12. Count_right(y, c)
    <3>1. x.setback # Never
      BY <2>3, Numbers DEF x
    <3>2. x.setback_count <= MaxSetbacks + c + 0
      BY <2>5, <3>1 DEF Count_right
    <3> QED BY <2>5, <2>8, <3>2, Order_parts, Numbers, OrdersAssumption DEF Count_right
  <2>13. Orders_right(s1, c)
    <3>1. Fits(x0, y, c) /\ c <= c
      BY <2>2, <2>8, <2>12 DEF Fits
    <3>2. x0.node # Out
      BY <2>2, <2>8, Numbers
    <3> QED BY <2>3, <2>11, <2>22, <2>23, <3>1, <3>2, Acts_keep DEF Right
  <2>14. /\ r \in States /\ r.order = s1.order /\ r.queue = s1.queue
         /\ r.task[t] = u /\ \A v \in Tasks : v # t => r.task[v] = s1.task[v]
    BY <2>9, <2>11, Task_set
  <2> HIDE DEF r
  <2>15. Orders_right(r, c)
    BY <2>13, <2>14, Same_orders
  <2>16. s1.task = s.task
    BY <2>11, <2>22 DEF Acts_on
  <2>17. t # None
    BY OrdersAssumption
  <2>18. ASSUME NEW p \in Orders
         PROVE  /\ \A v \in Tasks : r.order[p].task = v <=> r.task[v].order = p
                /\ r.order[p].moved => r.order[p].task # None
    <3>1. CASE p = o
      <4>1. r.order[p].task = t /\ ~r.order[p].moved
        BY <2>8, <2>11, <2>14, <3>1
      <4>2. \A v \in Tasks : v # t => s.task[v].order # o
        BY <1>1, <2>3, <2>5, OrdersAssumption DEF Tasks_right, x
      <4> QED BY <2>9, <2>14, <2>16, <3>1, <4>1, <4>2
    <3>2. CASE p # o
      <4>1. r.order[p].task = s.order[p].task /\ r.order[p].moved = s.order[p].moved
        BY <2>3, <2>11, <2>14, <2>22, <3>2, Other_order
      <4>2. s.order[p].task # t
        BY <1>1, OrdersAssumption DEF Tasks_right
      <4> QED BY <1>1, <2>9, <2>14, <2>16, <3>2, <4>1, <4>2 DEF Tasks_right
    <3> QED BY <3>1, <3>2
  <2>19. ASSUME NEW v \in Tasks
         PROVE  /\ r.task[v].order # None <=> r.task[v].state = "running"
                /\ r.task[v].state # "none" => \E i \in Jobs : v \in TasksOf[i]
    <3>1. CASE v = t
      BY <2>2, <2>9, <2>14, <3>1
    <3>2. CASE v # t
      BY <1>1, <2>14, <2>16, <3>2 DEF Tasks_right
    <3> QED BY <3>1, <3>2
  <2>20. Tasks_right(r)
    BY <2>18, <2>19 DEF Tasks_right
  <2>24. Begins_within_limit(s, r)
    <3>1. \A p \in Orders : p # o => /\ r.order[p].touched = s.order[p].touched
                                     /\ r.order[p].node = s.order[p].node
      BY <2>3, <2>11, <2>14, <2>22, Other_order
    <3>2. r.order[o].touched /\ r.order[o].node \in Nodes /\ x.node \in Nodes
      BY <2>2, <2>5, <2>8, <2>11, <2>14
    <3>3. Begun(r) = Begun(s) \cup {o}
      BY <2>3, <3>1, <3>2 DEF Begun, x
    <3>4. CASE x.touched
      <4>1. o \in Begun(s)
        BY <2>3, <3>2, <3>4 DEF Begun, x
      <4>2. Begun(r) = Begun(s)
        BY <3>3, <4>1
      <4> QED BY <4>2 DEF Begins_within_limit
    <3>5. CASE ~x.touched
      <4>1. Cardinality(Begun(s)) < config.max_orders
        BY <1>1, <2>3, <3>5, Begun_orders DEF Untouched_is_allowed
      <4>2. IsFiniteSet(Begun(s)) /\ config.max_orders \in Nat
        BY OrdersAssumption, FS_Subset DEF Begun
      <4>3. Cardinality(Begun(s)) \in Nat /\ Cardinality(Begun(r)) <= Cardinality(Begun(s)) + 1
        <5> DEFINE B == Begun(s)
        <5> HIDE DEF B
        <5>1. Cardinality(B) \in Nat
          BY <4>2, FS_CardinalityType DEF B
        <5>2. Cardinality(B \cup {o}) = IF o \in B THEN Cardinality(B) ELSE Cardinality(B) + 1
          BY <4>2, FS_AddElement DEF B
        <5> QED BY <3>3, <5>1, <5>2 DEF B
      <4>4. Cardinality(Begun(r)) \in Nat
        <5>1. Begun(r) \subseteq Orders
          BY DEF Begun
        <5> QED BY <5>1, OrdersAssumption, FS_Subset, FS_CardinalityType
      <4>5. Cardinality(Begun(r)) <= config.max_orders
        BY <4>1, <4>2, <4>3, <4>4
      <4> QED BY <4>5 DEF Begins_within_limit
    <3> QED BY <3>4, <3>5
  <2> QED BY <2>2, <2>7, <2>9, <2>14, <2>15, <2>20, <2>24 DEF Right
<1> QED
  BY <1>2, <1>3

LEMMA Continue_tasks_right ==
  ASSUME NEW s, NEW c \in Nat, Right(s, c), NEW j \in Jobs, config \in Configurations
  PROVE  Right(Continue_tasks(s, j), c) /\ Begins_within_limit(s, Continue_tasks(s, j))
<1> DEFINE S == TasksOf[j]
           X == {r \in States : Right(r, c) /\ Begins_within_limit(s, r)}
           Fetched(t, r) == IF r.task[t].state = "waiting_for_order" THEN Fetch(r, t, j) ELSE r
           Body(it) == [u \in SUBSET S |->
                          IF u = {} THEN s
                          ELSE LET n == CHOOSE n \in u : TRUE
                               IN  Fetched(n, it[u \ {n}])]
           iter == CHOOSE it : it = Body(it)
<1>1. Continue_tasks(s, j) = iter[S]
  BY DEF Continue_tasks, FoldSet, MapThenFoldSet
<1>2. s \in X
  BY DEF Right, Orders_right, Begins_within_limit
<1>3. S \subseteq Tasks /\ IsFiniteSet(S)
  BY OrdersAssumption, FS_Subset
<1>4. \A n \in S, r \in X : Fetched(n, r) \in X
  <2> SUFFICES ASSUME NEW n \in S, NEW r \in X PROVE Fetched(n, r) \in X
    OBVIOUS
  <2>1. r.task[n].state = "waiting_for_order" => r.task[n].order = None
    BY <1>3 DEF Right, Tasks_right
  <2>2. r.task[n].state = "waiting_for_order" => /\ Right(Fetch(r, n, j), c)
                                                   /\ Begins_within_limit(r, Fetch(r, n, j))
    BY <1>3, <2>1, Fetch_right
  <2> QED BY <2>2, Begins_within_limit_both DEF Right, Orders_right
<1> HIDE DEF S, X, Fetched
<1>5. \E it : it = Body(it)
  <2> DEFINE op == [p \in S \X X |-> Fetched(p[1], p[2])]
             pick == [u \in SUBSET S |-> CHOOSE n \in u : TRUE]
  <2>1. op \in [S \X X -> X]
    BY <1>4
  <2>2. \A u \in SUBSET S : u # {} => pick[u] \in u
    OBVIOUS
  <2>3. PICK it \in [SUBSET S -> X] : Is_fold(it, S, s, op, pick)
    <3> HIDE DEF op, pick, Body, iter
    <3> QED BY <1>2, <1>3, <2>1, <2>2, Fold_exists
  <2>4. ASSUME NEW u \in SUBSET S, u # {}
        PROVE  op[<<pick[u], it[u \ {pick[u]}]>>] = Fetched(pick[u], it[u \ {pick[u]}])
    <3>1. pick[u] \in S /\ it[u \ {pick[u]}] \in X
      <4> HIDE DEF pick
      <4> QED BY <2>2, <2>4
    <3> HIDE DEF pick
    <3> QED BY <3>1
  <2>5. \A u \in SUBSET S : pick[u] = CHOOSE n \in u : TRUE
    OBVIOUS
  <2>6. it = Body(it)
    <3> HIDE DEF op, pick, iter
    <3> QED BY <2>3, <2>4, <2>5 DEF Is_fold
  <2> QED BY <2>6
<1>6. iter = Body(iter)
  BY <1>5
<1> HIDE DEF iter
<1>7. iter[S] \in X
  <2> DEFINE Reached == {u \in SUBSET S : iter[u] \in X}
  <2>1. {} \in Reached
    BY <1>2, <1>6
  <2>2. ASSUME NEW u \in SUBSET S, u # {}
        PROVE  \E n \in u : u \ {n} \in Reached => u \in Reached
    <3> DEFINE m == CHOOSE n \in u : TRUE
    <3>1. m \in u
      BY <2>2
    <3>2. iter[u] = Fetched(m, iter[u \ {m}])
      BY <1>6, <2>2
    <3> HIDE DEF m
    <3> QED BY <1>4, <3>1, <3>2
  <2> HIDE DEF Reached
  <2>3. SUBSET S \subseteq Reached
    BY <1>3, <2>1, <2>2, Subsets_reached
  <2> QED BY <2>3 DEF Reached
<1> QED
  BY <1>1, <1>7 DEF X

LEMMA Try_start_tasks_right ==
  ASSUME NEW s, NEW c \in Nat, Right(s, c), NEW j \in Jobs, config \in Configurations
  PROVE  Right(Try_start_tasks(s, j), c) /\ Begins_within_limit(s, Try_start_tasks(s, j))
<1> DEFINE S == TasksOf[j]
           X == {r \in States : Right(r, c) /\ Begins_within_limit(s, r)}
           Fetched(t, r) == IF r.task[t].state = "none" THEN Fetch(r, t, j) ELSE r
           Body(it) == [u \in SUBSET S |->
                          IF u = {} THEN s
                          ELSE LET n == CHOOSE n \in u : TRUE
                               IN  Fetched(n, it[u \ {n}])]
           iter == CHOOSE it : it = Body(it)
<1>1. Try_start_tasks(s, j) = iter[S]
  BY DEF Try_start_tasks, FoldSet, MapThenFoldSet
<1>2. s \in X
  BY DEF Right, Orders_right, Begins_within_limit
<1>3. S \subseteq Tasks /\ IsFiniteSet(S)
  BY OrdersAssumption, FS_Subset
<1>4. \A n \in S, r \in X : Fetched(n, r) \in X
  <2> SUFFICES ASSUME NEW n \in S, NEW r \in X PROVE Fetched(n, r) \in X
    OBVIOUS
  <2>1. r.task[n].state = "none" => r.task[n].order = None
    BY <1>3 DEF Right, Tasks_right
  <2>2. r.task[n].state = "none" => /\ Right(Fetch(r, n, j), c)
                                                   /\ Begins_within_limit(r, Fetch(r, n, j))
    BY <1>3, <2>1, Fetch_right
  <2> QED BY <2>2, Begins_within_limit_both DEF Right, Orders_right
<1> HIDE DEF S, X, Fetched
<1>5. \E it : it = Body(it)
  <2> DEFINE op == [p \in S \X X |-> Fetched(p[1], p[2])]
             pick == [u \in SUBSET S |-> CHOOSE n \in u : TRUE]
  <2>1. op \in [S \X X -> X]
    BY <1>4
  <2>2. \A u \in SUBSET S : u # {} => pick[u] \in u
    OBVIOUS
  <2>3. PICK it \in [SUBSET S -> X] : Is_fold(it, S, s, op, pick)
    <3> HIDE DEF op, pick, Body, iter
    <3> QED BY <1>2, <1>3, <2>1, <2>2, Fold_exists
  <2>4. ASSUME NEW u \in SUBSET S, u # {}
        PROVE  op[<<pick[u], it[u \ {pick[u]}]>>] = Fetched(pick[u], it[u \ {pick[u]}])
    <3>1. pick[u] \in S /\ it[u \ {pick[u]}] \in X
      <4> HIDE DEF pick
      <4> QED BY <2>2, <2>4
    <3> HIDE DEF pick
    <3> QED BY <3>1
  <2>5. \A u \in SUBSET S : pick[u] = CHOOSE n \in u : TRUE
    OBVIOUS
  <2>6. it = Body(it)
    <3> HIDE DEF op, pick, iter
    <3> QED BY <2>3, <2>4, <2>5 DEF Is_fold
  <2> QED BY <2>6
<1>6. iter = Body(iter)
  BY <1>5
<1> HIDE DEF iter
<1>7. iter[S] \in X
  <2> DEFINE Reached == {u \in SUBSET S : iter[u] \in X}
  <2>1. {} \in Reached
    BY <1>2, <1>6
  <2>2. ASSUME NEW u \in SUBSET S, u # {}
        PROVE  \E n \in u : u \ {n} \in Reached => u \in Reached
    <3> DEFINE m == CHOOSE n \in u : TRUE
    <3>1. m \in u
      BY <2>2
    <3>2. iter[u] = Fetched(m, iter[u \ {m}])
      BY <1>6, <2>2
    <3> HIDE DEF m
    <3> QED BY <1>4, <3>1, <3>2
  <2> HIDE DEF Reached
  <2>3. SUBSET S \subseteq Reached
    BY <1>3, <2>1, <2>2, Subsets_reached
  <2> QED BY <2>3 DEF Reached
<1> QED
  BY <1>1, <1>7 DEF X

LEMMA Process_orders_right ==
  ASSUME NEW s, NEW c \in Nat, Right(s, c), NEW j \in Jobs, config \in Configurations
  PROVE  Right(Process_orders(s, j), c) /\ Begins_within_limit(s, Process_orders(s, j))
BY Continue_tasks_right, Try_start_tasks_right, Begins_within_limit_both DEF Process_orders

-----------------------------------------------------------------------------
(* The calls of the jobs and of the tasks.                                 *)

\* What a step from a state of the invariant does: it keeps the invariant, and either no
\* order begins, or only as many as max_orders allows.
Begins_rightly(s, r) == Nobody_begins(s, r) \/ Begins_within_limit(s, r)
Step_right == IInv' /\ Begins_rightly(State, State')

LEMMA Becomes_right ==
  ASSUME IInv, NEW s, Become(s), Right(s, commands'), commands' \in 0..MaxCommands,
         Begins_rightly(State, s)
  PROVE  Step_right
<1>1. s \in States
  BY DEF Right, Orders_right
<1>2. State' = s
  BY <1>1 DEF Become, State, States
<1>3. Right(State, commands)'
  BY <1>2
<1> QED
  BY <1>2, <1>3 DEF IInv, Become, Step_right

LEMMA IInv_parts ==
  ASSUME IInv
  PROVE  /\ Right(State, commands) /\ Orders_right(State, commands) /\ Tasks_right(State)
         /\ State \in States /\ commands \in Nat /\ commands <= MaxCommands
         /\ commands \in 0..MaxCommands /\ MaxCommands \in Nat
         /\ config \in Configurations
BY OrdersAssumption DEF IInv, Right, Orders_right

LEMMA Calls_set ==
  ASSUME NEW s \in States, NEW j \in Jobs, NEW b \in BOOLEAN, NEW e \in Register_entries
  PROVE  /\ Signals(s, [s EXCEPT !.available[j] = b])
         /\ Signals(s, [s EXCEPT !.closed[j] = b])
         /\ Signals(s, [s EXCEPT !.calculated[j] = e])
BY DEF States, Signals

LEMMA call_at_type ==
  ASSUME NEW e \in Register_entries, NEW t \in Times
  PROVE  call_at(e, t) \in Register_entries
BY Numbers DEF call_at, Register_entries, Times

LEMMA Order_timed_call_keeps ==
  ASSUME IInv, NEW j \in Jobs, Order_timed_call(j)
  PROVE  Step_right
<1> DEFINE s == [State EXCEPT !.timed[j] = Never]
           t == Next_order_time(s, j)
           s1 == Process_orders(s, j)
           next == Next_order_time(s1, j)
           at == IF next # t THEN next ELSE s1.timed[j]
<1>1. Right(State, commands) /\ State \in States /\ commands \in Nat /\ Never \in Times
      /\ commands \in 0..MaxCommands /\ config \in Configurations
  BY IInv_parts, Numbers
<1>2. Right(s, commands) /\ s \in States /\ Begins_within_limit(State, s)
  <2>1. Signals(State, s)
    BY <1>1, Timed_set
  <2> HIDE DEF s
  <2> QED BY <1>1, <2>1, Signals_right DEF Signals
<1>3. /\ commands' = commands
      /\ Become(IF t > Past THEN [s EXCEPT !.timed[j] = t]
                ELSE [s1 EXCEPT !.timed[j] = IF next # t THEN next ELSE @])
  BY DEF Order_timed_call
<1> HIDE DEF s
<1>4. t \in Times
  BY <1>2, Next_order_time_type
<1> HIDE DEF t
<1>5. /\ Right([s EXCEPT !.timed[j] = t], commands)
      /\ Begins_within_limit(State, [s EXCEPT !.timed[j] = t])
  BY <1>2, <1>4, Timed_set, Signals_right, Begins_within_limit_both
<1>6. Right(s1, commands) /\ s1 \in States /\ Begins_within_limit(State, s1)
  BY <1>1, <1>2, Process_orders_right, Begins_within_limit_both DEF Right, Orders_right
<1> HIDE DEF s1
<1>7. next \in Times
  BY <1>6, Next_order_time_type
<1> HIDE DEF next
<1>8. at \in Times
  BY <1>6, <1>7, State_parts
<1>9. [s1 EXCEPT !.timed[j] = IF next # t THEN next ELSE @] = [s1 EXCEPT !.timed[j] = at]
  BY <1>6 DEF States
<1> HIDE DEF at
<1>10. /\ Right([s1 EXCEPT !.timed[j] = at], commands)
       /\ Begins_within_limit(State, [s1 EXCEPT !.timed[j] = at])
  BY <1>6, <1>8, Timed_set, Signals_right, Begins_within_limit_both
<1>11. CASE t > Past
  <2>1. Become([s EXCEPT !.timed[j] = t])
    BY <1>3, <1>11
  <2> QED BY <1>1, <1>3, <1>5, <2>1, Becomes_right DEF Begins_rightly
<1>12. CASE ~(t > Past)
  <2>1. Become([s1 EXCEPT !.timed[j] = at])
    BY <1>3, <1>9, <1>12
  <2> QED BY <1>1, <1>3, <1>10, <2>1, Becomes_right DEF Begins_rightly
<1> QED
  BY <1>11, <1>12

LEMMA Order_possibly_available_call_keeps ==
  ASSUME IInv, NEW j \in Jobs, Order_possibly_available_call(j)
  PROVE  Step_right
<1> DEFINE s == [State EXCEPT !.available[j] = FALSE]
<1>1. Right(State, commands) /\ State \in States /\ commands \in Nat /\ commands \in 0..MaxCommands
      /\ config \in Configurations
  BY IInv_parts
<1>2. Signals(State, s)
  <2>1. No_call \in Register_entries
    BY Numbers DEF No_call, Register_entries
  <2> QED BY <1>1, <2>1, Calls_set
<1>3. Become(Process_orders(s, j)) /\ commands' = commands
  BY DEF Order_possibly_available_call
<1> HIDE DEF s
<1>4. Right(Process_orders(s, j), commands) /\ Begins_within_limit(State, Process_orders(s, j))
  BY <1>1, <1>2, Signals_right, Process_orders_right, Begins_within_limit_both
<1> QED
  BY <1>1, <1>3, <1>4, Becomes_right DEF Begins_rightly

LEMMA Task_closed_call_keeps ==
  ASSUME IInv, NEW j \in Jobs, Task_closed_call(j)
  PROVE  Step_right
<1> DEFINE s == [State EXCEPT !.closed[j] = FALSE]
<1>1. Right(State, commands) /\ State \in States /\ commands \in Nat /\ commands \in 0..MaxCommands
      /\ config \in Configurations
  BY IInv_parts
<1>2. Signals(State, s)
  <2>1. No_call \in Register_entries
    BY Numbers DEF No_call, Register_entries
  <2> QED BY <1>1, <2>1, Calls_set
<1>3. Become(Try_start_tasks(s, j)) /\ commands' = commands
  BY DEF Task_closed_call
<1> HIDE DEF s
<1>4. Right(Try_start_tasks(s, j), commands) /\ Begins_within_limit(State, Try_start_tasks(s, j))
  BY <1>1, <1>2, Signals_right, Try_start_tasks_right, Begins_within_limit_both
<1> QED
  BY <1>1, <1>3, <1>4, Becomes_right DEF Begins_rightly

LEMMA Calculated_next_time_do_something_call_keeps ==
  ASSUME IInv, NEW j \in Jobs, Calculated_next_time_do_something_call(j)
  PROVE  Step_right
<1> DEFINE e == [State.calculated[j] EXCEPT !.pending = FALSE]
           s == [State EXCEPT !.calculated[j] = e]
<1>1. Right(State, commands) /\ State \in States /\ commands \in Nat /\ commands \in 0..MaxCommands
      /\ config \in Configurations
  BY IInv_parts
<1>2. Signals(State, s)
  <2>1. State.calculated[j] \in Register_entries
    BY <1>1, State_parts
  <2>2. e \in Register_entries
    BY <2>1 DEF Register_entries
  <2> HIDE DEF e
  <2> QED BY <1>1, <2>2, Calls_set
<1>3. [State EXCEPT !.calculated[j].pending = FALSE] = s
  BY <1>1 DEF States
<1>4. Become(Try_start_tasks(s, j)) /\ commands' = commands
  BY <1>3 DEF Calculated_next_time_do_something_call
<1> HIDE DEF s
<1>5. Right(Try_start_tasks(s, j), commands) /\ Begins_within_limit(State, Try_start_tasks(s, j))
  BY <1>1, <1>2, Signals_right, Try_start_tasks_right, Begins_within_limit_both
<1> QED
  BY <1>1, <1>4, <1>5, Becomes_right DEF Begins_rightly

\* A task is through with its order.
LEMMA Through_right ==
  ASSUME NEW s, NEW c \in Nat, Right(s, c), NEW t \in Tasks, s.task[t].state = "running",
         NEW r \in States, r.order = s.order, r.queue = s.queue,
         r.task[t].order = None, r.task[t].state # "running",
         \A v \in Tasks : v # t => r.task[v] = s.task[v], NEW success \in BOOLEAN
  PROVE  LET q == Postprocessing(r, s.task[t].order, success) IN
         Right(q, c) /\ Nobody_begins(s, q)
<1> DEFINE o == s.task[t].order
           q == Postprocessing(r, o, success)
<1>1. Tasks_right(s) /\ s \in States /\ Orders_right(r, c)
  BY Same_orders DEF Right, Orders_right
<1>2. o \in Orders /\ s.order[o].task = t /\ t # None
  <2>1. s.task[t] \in Task_objects /\ s.task[t].order # None
    BY <1>1, State_parts DEF Tasks_right
  <2>2. o \in Orders
    BY <2>1 DEF Task_objects
  <2> QED BY <1>1, <2>2, OrdersAssumption DEF Tasks_right
<1> HIDE DEF o
<1>3. Orders_right(q, c) /\ Acts_on(r, q, o) /\ q.order[o].task = None /\ ~q.order[o].moved
  BY <1>1, <1>2, Postprocessing_keeps
<1> HIDE DEF q
<1>4. q.task = r.task
  BY <1>3 DEF Acts_on
<1>5. ASSUME NEW p \in Orders
      PROVE  /\ \A v \in Tasks : q.order[p].task = v <=> q.task[v].order = p
             /\ q.order[p].moved => q.order[p].task # None
  <2>1. CASE p = o
    <3>1. \A v \in Tasks : v # t => s.task[v].order # o
      BY <1>1, <1>2 DEF Tasks_right
    <3> QED BY <1>3, <1>4, <2>1, <3>1, OrdersAssumption
  <2>2. CASE p # o
    <3>1. q.order[p].task = s.order[p].task /\ q.order[p].moved = s.order[p].moved
      BY <1>2, <1>3, <2>2, Other_order
    <3>2. s.order[p].task # t
      BY <1>1, <2>2 DEF Tasks_right, o
    <3> QED BY <1>1, <1>4, <3>1, <3>2, OrdersAssumption DEF Tasks_right
  <2> QED BY <2>1, <2>2
<1>6. ASSUME NEW v \in Tasks
      PROVE  /\ q.task[v].order # None <=> q.task[v].state = "running"
             /\ q.task[v].state # "none" => \E j \in Jobs : v \in TasksOf[j]
  <2>1. CASE v = t
    BY <1>1, <1>4, <2>1 DEF Tasks_right
  <2>2. CASE v # t
    BY <1>1, <1>4, <2>2 DEF Tasks_right
  <2> QED BY <2>1, <2>2
<1>8. Nobody_begins(s, q)
  <2>1. Nobody_begins(r, q)
    BY <1>1, <1>2, <1>3, Nobody_begins_by_acts DEF Orders_right
  <2> QED BY <2>1, Nobody_begins_in_the_same_orders, Nobody_begins_both
<1>7. Tasks_right(q)
  BY <1>5, <1>6 DEF Tasks_right
<1> QED
  BY <1>3, <1>7, <1>8 DEF Right, q, o

LEMMA Step_ends_keeps ==
  ASSUME IInv, NEW t \in Tasks, NEW success \in BOOLEAN, Step_ends(t, success)
  PROVE  Step_right
<1> DEFINE u == [State.task[t] EXCEPT !.state = "next_step", !.order = None]
           s == [State EXCEPT !.task[t] = u]
           o == State.task[t].order
<1>1. Right(State, commands) /\ State \in States /\ commands \in Nat /\ commands \in 0..MaxCommands
  BY IInv_parts
<1>2. u \in Task_objects /\ u.order = None /\ u.state = "next_step"
  <2>1. State.task[t] \in Task_objects
    BY <1>1, State_parts
  <2> QED BY <2>1 DEF Task_objects
<1>3. [State EXCEPT !.task[t].state = "next_step", !.task[t].order = None] = s
  BY <1>1 DEF States
<1>4. State.task[t].state = "running" /\ o = task[t].order
  BY DEF Step_ends, State
<1>5. Become(Postprocessing(s, o, success)) /\ commands' = commands
  BY <1>3, <1>4 DEF Step_ends
<1> HIDE DEF u
<1>6. /\ s \in States /\ s.order = State.order /\ s.queue = State.queue
      /\ s.task[t] = u /\ \A v \in Tasks : v # t => s.task[v] = State.task[v]
  BY <1>1, <1>2, Task_set
<1> HIDE DEF s
<1>7. /\ Right(Postprocessing(s, o, success), commands)
      /\ Nobody_begins(State, Postprocessing(s, o, success))
  BY <1>1, <1>2, <1>4, <1>6, Through_right
<1> QED
  BY <1>1, <1>5, <1>7, Becomes_right DEF Begins_rightly

LEMMA Tasks_without_order ==
  LET u == [No_task EXCEPT !.state = "ending"] IN
  /\ No_task \in Task_objects /\ No_task.order = None /\ No_task.state = "none"
  /\ u \in Task_objects /\ u.order = None /\ u.state = "ending"
<1>1. No_call \in Register_entries
  BY Numbers DEF No_call, Register_entries
<1>2. No_task = [state |-> "none", order |-> None, next_step |-> No_call]
  BY DEF No_task
<1> DEFINE u == [No_task EXCEPT !.state = "ending"]
<1>3. u = [state |-> "ending", order |-> None, next_step |-> No_call]
  <2> HIDE DEF No_task
  <2> QED BY <1>2
<1> HIDE DEF No_task, u
<1>4. u \in Task_objects /\ u.order = None /\ u.state = "ending"
  BY <1>1, <1>3 DEF Task_objects
<1>5. No_task \in Task_objects /\ No_task.order = None /\ No_task.state = "none"
  BY <1>1, <1>2 DEF Task_objects
<1> QED
  BY <1>4, <1>5 DEF u

LEMMA Step_throws_keeps ==
  ASSUME IInv, NEW t \in Tasks, Step_throws(t)
  PROVE  Step_right
<1> DEFINE u == [No_task EXCEPT !.state = "ending"]
           s == [State EXCEPT !.task[t] = u]
           o == State.task[t].order
<1>1. Right(State, commands) /\ State \in States /\ commands \in Nat /\ commands \in 0..MaxCommands
  BY IInv_parts
<1>2. u \in Task_objects /\ u.order = None /\ u.state = "ending"
  BY Tasks_without_order
<1>3. State.task[t].state = "running" /\ o = task[t].order
  BY DEF Step_throws, State
<1>4. Become(Postprocessing(s, o, FALSE)) /\ commands' = commands
  BY <1>3 DEF Step_throws
<1> HIDE DEF u
<1>5. /\ s \in States /\ s.order = State.order /\ s.queue = State.queue
      /\ s.task[t] = u /\ \A v \in Tasks : v # t => s.task[v] = State.task[v]
  BY <1>1, <1>2, Task_set
<1> HIDE DEF s
<1>6. /\ Right(Postprocessing(s, o, FALSE), commands)
      /\ Nobody_begins(State, Postprocessing(s, o, FALSE))
  BY <1>1, <1>2, <1>3, <1>5, Through_right
<1> QED
  BY <1>1, <1>4, <1>6, Becomes_right DEF Begins_rightly

LEMMA Job_of_task_job ==
  ASSUME NEW s, Tasks_right(s), NEW t \in Tasks, s.task[t].state # "none"
  PROVE  Job_of_task(t) \in Jobs /\ t \in TasksOf[Job_of_task(t)]
BY DEF Tasks_right, Job_of_task

\* What Fetch_or_wait makes of the state.
Fetched_or_waiting(s, t) ==
    LET j == Job_of_task(t)
        s1 == Fetch(s, t, j)
    IN IF s1.task[t].order # None THEN s1
       ELSE [s1 EXCEPT !.task[t].state = "waiting_for_order",
                       !.task[t].next_step = call_at(@, Next_order_time(s1, j))]

LEMMA Fetched_or_waiting_right ==
  ASSUME NEW s, NEW c \in Nat, Right(s, c), NEW t \in Tasks,
         s.task[t].state \in {"next_step", "waiting_for_order"}, config \in Configurations
  PROVE  Right(Fetched_or_waiting(s, t), c) /\ Begins_within_limit(s, Fetched_or_waiting(s, t))
<1> DEFINE j == Job_of_task(t)
           s1 == Fetch(s, t, j)
           e == call_at(s1.task[t].next_step, Next_order_time(s1, j))
           u == [s1.task[t] EXCEPT !.state = "waiting_for_order", !.next_step = e]
           r == [s1 EXCEPT !.task[t] = u]
<1>1. j \in Jobs /\ t \in TasksOf[j] /\ s.task[t].order = None
  <2>1. Tasks_right(s) /\ s.task[t].state # "none" /\ s.task[t].state # "running"
    BY DEF Right
  <2>2. s.task[t].order = None
    BY <2>1 DEF Tasks_right
  <2> QED BY <2>1, <2>2, Job_of_task_job
<1> HIDE DEF j
<1>2. Right(s1, c) /\ Begins_within_limit(s, s1)
  BY <1>1, Fetch_right
<1> HIDE DEF s1
<1>3. s1 \in States /\ s1.task[t] \in Task_objects
  BY <1>2, State_parts DEF Right, Orders_right
<1>4. CASE s1.task[t].order # None
  <2>1. Fetched_or_waiting(s, t) = s1
    BY <1>4 DEF Fetched_or_waiting, s1, j
  <2> QED BY <1>2, <2>1
<1>5. CASE s1.task[t].order = None
  <2>1. e \in Register_entries
    BY <1>1, <1>3, Next_order_time_type, call_at_type DEF Task_objects
  <2>2. [s1 EXCEPT !.task[t].state = "waiting_for_order",
                   !.task[t].next_step = call_at(@, Next_order_time(s1, j))] = r
    <3>1. [s1 EXCEPT !.task[t].state = "waiting_for_order",
                     !.task[t].next_step = call_at(@, Next_order_time(s1, j))]
          = [s1 EXCEPT !.task[t].state = "waiting_for_order", !.task[t].next_step = e]
      <4> DEFINE a == [s1 EXCEPT !.task[t].state = "waiting_for_order"]
      <4>1. a.task[t].next_step = s1.task[t].next_step
        BY <1>3 DEF States, Task_objects
      <4>2. a \in States
        <5>1. [s1.task[t] EXCEPT !.state = "waiting_for_order"] \in Task_objects
          BY <1>3 DEF Task_objects
        <5>2. a = [s1 EXCEPT !.task[t] = [s1.task[t] EXCEPT !.state = "waiting_for_order"]]
          BY <1>3 DEF States
        <5> HIDE DEF a
        <5> QED BY <1>3, <5>1, <5>2, Task_set
      <4>3. [a EXCEPT !.task[t].next_step = call_at(@, Next_order_time(s1, j))]
            = [a EXCEPT !.task[t].next_step = e]
        <5> HIDE DEF a
        <5> QED BY <4>1, <4>2 DEF States
      <4> QED BY <4>3
    <3> HIDE DEF e
    <3> QED BY <1>3, <3>1 DEF States
  <2>3. Fetched_or_waiting(s, t) = r
    BY <1>5, <2>2 DEF Fetched_or_waiting, s1, j
  <2> HIDE DEF e
  <2>4. u \in Task_objects /\ u.order = None /\ u.state = "waiting_for_order"
    BY <1>3, <1>5, <2>1 DEF Task_objects
  <2> HIDE DEF u
  <2>5. /\ r \in States /\ r.order = s1.order /\ r.queue = s1.queue
        /\ r.task[t] = u /\ \A v \in Tasks : v # t => r.task[v] = s1.task[v]
    BY <1>3, <2>4, Task_set
  <2> HIDE DEF r
  <2>6. Begins_within_limit(s, r)
    BY <1>2, <2>5, Nobody_begins_in_the_same_orders, Begins_within_limit_both
  <2> QED BY <1>1, <1>2, <1>5, <2>3, <2>4, <2>5, <2>6, Task_changes
<1> QED
  BY <1>4, <1>5

LEMMA Try_next_step_call_keeps ==
  ASSUME IInv, NEW t \in Tasks, Try_next_step_call(t)
  PROVE  Step_right
<1>1. Right(State, commands) /\ commands \in Nat /\ commands \in 0..MaxCommands
      /\ config \in Configurations
  BY IInv_parts
<1>2. State.task[t].state = "next_step"
  BY DEF Try_next_step_call, State
<1>3. Become(Fetched_or_waiting(State, t)) /\ commands' = commands
  BY DEF Try_next_step_call, Fetch_or_wait, Fetched_or_waiting
<1>4. /\ Right(Fetched_or_waiting(State, t), commands)
      /\ Begins_within_limit(State, Fetched_or_waiting(State, t))
  BY <1>1, <1>2, Fetched_or_waiting_right
<1> QED
  BY <1>1, <1>3, <1>4, Becomes_right DEF Begins_rightly

\* The call of a task to look for an order is executed.
LEMMA Next_step_set ==
  ASSUME NEW s, NEW c, Right(s, c), NEW t \in Tasks, NEW e \in Register_entries
  PROVE  LET r == [s EXCEPT !.task[t] = [s.task[t] EXCEPT !.next_step = e]] IN
         r \in States /\ Right(r, c) /\ r.task[t].state = s.task[t].state /\ r.order = s.order
<1> DEFINE u == [s.task[t] EXCEPT !.next_step = e]
           r == [s EXCEPT !.task[t] = u]
<1>1. s \in States /\ s.task[t] \in Task_objects
  BY State_parts DEF Right, Orders_right
<1>2. u \in Task_objects /\ u.state = s.task[t].state /\ u.order = s.task[t].order
  BY <1>1 DEF Task_objects
<1> HIDE DEF u
<1>3. /\ r \in States /\ r.order = s.order /\ r.queue = s.queue
      /\ r.task[t] = u /\ \A v \in Tasks : v # t => r.task[v] = s.task[v]
  BY <1>1, <1>2, Task_set
<1> HIDE DEF r
<1>4. \A v \in Tasks : r.task[v].order = s.task[v].order /\ r.task[v].state = s.task[v].state
  BY <1>2, <1>3
<1>5. Tasks_right(r)
  BY <1>3, <1>4 DEF Right, Tasks_right
<1>6. Orders_right(r, c)
  BY <1>3, Same_orders DEF Right
<1> QED
  BY <1>2, <1>3, <1>5, <1>6 DEF Right, r, u

LEMMA Next_order_step_call_keeps ==
  ASSUME IInv, NEW t \in Tasks, Next_order_step_call(t)
  PROVE  Step_right
<1> DEFINE e == [State.task[t].next_step EXCEPT !.pending = FALSE]
           u == [State.task[t] EXCEPT !.next_step = e]
           s == [State EXCEPT !.task[t] = u]
<1>1. Right(State, commands) /\ State \in States /\ commands \in Nat /\ commands \in 0..MaxCommands
      /\ config \in Configurations
  BY IInv_parts
<1>2. State.task[t] \in Task_objects
  BY <1>1, State_parts
<1>3. e \in Register_entries
  BY <1>2 DEF Task_objects, Register_entries
<1>4. [State EXCEPT !.task[t].next_step.pending = FALSE] = s
  <2>1. u = [State.task[t] EXCEPT !.next_step.pending = FALSE]
    BY <1>2 DEF Task_objects
  <2> HIDE DEF u
  <2> QED BY <1>1, <2>1 DEF States
<1>5. /\ commands' = commands
      /\ IF State.task[t].state = "waiting_for_order"
         THEN Become(Fetched_or_waiting(s, t)) ELSE Become(s)
  <2>1. State.task[t].state = task[t].state
    BY DEF State
  <2> QED BY <1>4, <2>1 DEF Next_order_step_call, Fetch_or_wait, Fetched_or_waiting
<1> HIDE DEF e
<1>6. s \in States /\ Right(s, commands) /\ s.task[t].state = State.task[t].state
      /\ Begins_within_limit(State, s)
  <2>1. /\ s \in States /\ Right(s, commands) /\ s.task[t].state = State.task[t].state
        /\ s.order = State.order
    BY <1>1, <1>3, Next_step_set
  <2> HIDE DEF s
  <2> QED BY <2>1, Nobody_begins_in_the_same_orders
<1> HIDE DEF s
<1>7. CASE State.task[t].state = "waiting_for_order"
  <2>1. /\ Right(Fetched_or_waiting(s, t), commands)
        /\ Begins_within_limit(State, Fetched_or_waiting(s, t))
    BY <1>1, <1>6, <1>7, Fetched_or_waiting_right, Begins_within_limit_both
  <2> QED BY <1>1, <1>5, <1>7, <2>1, Becomes_right DEF Begins_rightly
<1>8. CASE State.task[t].state # "waiting_for_order"
  BY <1>1, <1>5, <1>6, <1>8, Becomes_right DEF Begins_rightly
<1> QED
  BY <1>7, <1>8

LEMMA Task_idle_timeout_call_keeps ==
  ASSUME IInv, NEW t \in Tasks, Task_idle_timeout_call(t)
  PROVE  Step_right
<1> DEFINE j == Job_of_task(t)
           s == Fetch(State, t, j)
           u == [No_task EXCEPT !.state = "ending"]
           r == [s EXCEPT !.task[t] = u]
<1>1. /\ Right(State, commands) /\ Tasks_right(State) /\ State \in States
      /\ commands \in Nat /\ commands \in 0..MaxCommands
      /\ config \in Configurations
  BY IInv_parts
<1>2. State.task[t].state = "waiting_for_order"
  BY DEF Task_idle_timeout_call, State
<1>3. j \in Jobs /\ t \in TasksOf[j] /\ State.task[t].order = None
  <2>1. State.task[t].order = None
    BY <1>1, <1>2 DEF Tasks_right
  <2> QED BY <1>1, <1>2, <2>1, Job_of_task_job
<1>4. commands' = commands /\ Become(IF s.task[t].order # None THEN s ELSE r)
  BY DEF Task_idle_timeout_call
<1> HIDE DEF j
<1>5. Right(s, commands) /\ s \in States /\ Begins_within_limit(State, s)
  BY <1>1, <1>3, Fetch_right DEF Right, Orders_right
<1> HIDE DEF s
<1>6. u \in Task_objects /\ u.order = None /\ u.state = "ending"
  BY Tasks_without_order
<1> HIDE DEF u
<1>7. /\ r \in States /\ r.order = s.order /\ r.queue = s.queue
      /\ r.task[t] = u /\ \A v \in Tasks : v # t => r.task[v] = s.task[v]
  BY <1>5, <1>6, Task_set
<1> HIDE DEF r
<1>9. Begins_within_limit(State, r)
  BY <1>5, <1>7, Nobody_begins_in_the_same_orders, Begins_within_limit_both
<1>8. s.task[t].order = None => Right(r, commands)
  BY <1>3, <1>5, <1>6, <1>7, Task_changes
<1> QED
  BY <1>1, <1>4, <1>5, <1>8, <1>9, Becomes_right DEF Begins_rightly

LEMMA Request_order_right ==
  ASSUME NEW s, NEW c \in Nat, Right(s, c), NEW j \in Jobs
  PROVE  Right(Request_order(s, j), c) /\ Nobody_begins(s, Request_order(s, j))
<1> DEFINE found == {First_immediately_processable(s, n) : n \in Nodes_of(j)} \ {None}
           o == CHOOSE o \in found : TRUE
           x == s.order[o]
           y == With_setback(x, Zero)
           r == [s EXCEPT !.order[o] = y]
<1>1. Request_order(s, j) = IF found = {} THEN s ELSE [s EXCEPT !.order[o].setback = Zero]
  BY DEF Request_order
<1>2. Orders_right(s, c) /\ Tasks_right(s) /\ s \in States
  BY DEF Right, Orders_right
<1>3. CASE found = {}
  BY <1>1, <1>3, Nobody_begins_in_the_same_orders
<1>4. CASE found # {}
  <2>1. \A p \in found : p \in Orders /\ s.order[p].setback <= Past
    BY <1>2, First_immediately_processable_order DEF Nodes_of
  <2> HIDE DEF found
  <2>2. o \in Orders /\ x.setback <= Past
    BY <1>4, <2>1
  <2> HIDE DEF o
  <2>3. /\ Is_well_queued(s) /\ Is_placed(s, o) /\ x \in Order_objects /\ Count_right(x, c)
        /\ x.task # None /\ ~x.moved => x.node \in Nodes
    BY <1>2, <2>2, Orders_right_parts
  <2>4. [s EXCEPT !.order[o].setback = Zero] = r
    BY <1>2, <2>2 DEF States, With_setback
  <2> HIDE DEF x
  <2>5. /\ y \in Order_objects /\ y.node = x.node /\ y.task = x.task /\ y.moved = x.moved
        /\ y.replacement_for = x.replacement_for /\ y.setback_count = x.setback_count
        /\ y.setback = Zero /\ Begun_before(x, y)
    <3>1. Zero \in Times
      BY Numbers
    <3> QED BY <2>3, <3>1 DEF With_setback, Order_objects, Begun_before
  <2> HIDE DEF y
  <2>6. Becomes(s, r, o, y)
    BY <2>2, <2>3, <2>5, Order_changes DEF x
  <2> HIDE DEF r
  <2>7. Count_right(y, c)
    <3>1. x.setback # Never
      BY <2>2, Numbers
    <3>2. x.setback_count <= MaxSetbacks + c + 0
      BY <2>3, <3>1 DEF Count_right
    <3> QED BY <2>3, <2>5, <3>2, Order_parts, Numbers, OrdersAssumption DEF Count_right
  <2>8. Fits(x, y, c) /\ c <= c
    BY <2>3, <2>5, <2>7 DEF Fits
  <2>9. Orders_right(r, c)
    BY <1>2, <2>2, <2>5, <2>6, <2>8, Acts_keep DEF Becomes, x
  <2>10. Tasks_right(r)
    BY <1>2, <2>2, <2>5, <2>6, Tasks_stay DEF Becomes, x
  <2>11. Nobody_begins(s, r)
    BY <1>2, <2>2, <2>6, Nobody_begins_by_acts DEF Becomes
  <2> QED BY <1>1, <1>4, <2>4, <2>9, <2>10, <2>11 DEF Right
<1> QED
  BY <1>3, <1>4

LEMMA Calculate_next_time_right ==
  ASSUME NEW s, NEW c \in Nat, Right(s, c), NEW j \in Jobs
  PROVE  Right(Calculate_next_time(s, j), c) /\ Nobody_begins(s, Calculate_next_time(s, j))
<1> DEFINE has_order == \E n \in Nodes_of(j) : First_immediately_processable(s, n) # None
           t == IF has_order THEN Zero ELSE Next_order_time(s, j)
           s1 == Request_order(s, j)
           e == call_at(s1.calculated[j], t)
           r == [s1 EXCEPT !.calculated[j] = e]
<1>1. Right(s1, c) /\ s1 \in States /\ s \in States /\ Nobody_begins(s, s1)
  BY Request_order_right DEF Right, Orders_right
<1>2. Calculate_next_time(s, j) = [s1 EXCEPT !.calculated[j] = call_at(@, t)]
  BY DEF Calculate_next_time
<1> HIDE DEF s1, has_order
<1>3. t \in Times
  BY <1>1, Next_order_time_type, Numbers
<1> HIDE DEF t
<1>4. e \in Register_entries
  BY <1>1, <1>3, State_parts, call_at_type
<1>5. [s1 EXCEPT !.calculated[j] = call_at(@, t)] = r
  BY <1>1 DEF States
<1> HIDE DEF e
<1>6. Signals(s1, r)
  BY <1>1, <1>4, Calls_set
<1> QED
  BY <1>1, <1>2, <1>5, <1>6, Signals_right, Nobody_begins_both

LEMMA Task_closes_keeps ==
  ASSUME IInv, NEW t \in Tasks, Task_closes(t)
  PROVE  Step_right
<1> DEFINE j == Job_of_task(t)
           s1 == [State EXCEPT !.task[t] = No_task]
           s == [s1 EXCEPT !.closed[j] = TRUE]
<1>1. /\ Right(State, commands) /\ Tasks_right(State) /\ State \in States
      /\ commands \in Nat /\ commands \in 0..MaxCommands
  BY IInv_parts
<1>2. State.task[t].state = "ending"
  BY DEF Task_closes, State
<1>3. j \in Jobs /\ t \in TasksOf[j] /\ State.task[t].order = None
  <2>1. State.task[t].order = None
    BY <1>1, <1>2 DEF Tasks_right
  <2> QED BY <1>1, <1>2, <2>1, Job_of_task_job
<1>4. /\ commands' = commands
      /\ Become(IF \A u \in TasksOf[j] : s.task[u].state = "none"
                THEN Calculate_next_time(s, j) ELSE s)
  BY DEF Task_closes
<1> HIDE DEF j
<1>5. Right(s1, commands) /\ s1 \in States /\ Nobody_begins(State, s1)
  <2>1. /\ s1 \in States /\ s1.order = State.order /\ s1.queue = State.queue
        /\ s1.task[t] = No_task /\ \A v \in Tasks : v # t => s1.task[v] = State.task[v]
    BY <1>1, Tasks_without_order, Task_set
  <2> HIDE DEF s1
  <2> QED BY <1>1, <1>3, <2>1, Tasks_without_order, Task_changes, Nobody_begins_in_the_same_orders
<1> HIDE DEF s1
<1>6. Right(s, commands) /\ Nobody_begins(State, s)
  <2>1. No_call \in Register_entries
    BY Numbers DEF No_call, Register_entries
  <2>2. Signals(s1, s)
    BY <1>3, <1>5, <2>1, Calls_set
  <2> QED BY <1>5, <2>2, Signals_right, Nobody_begins_both
<1> HIDE DEF s
<1>7. /\ Right(Calculate_next_time(s, j), commands)
      /\ Nobody_begins(State, Calculate_next_time(s, j))
  BY <1>1, <1>3, <1>6, Calculate_next_time_right, Nobody_begins_both
<1> QED
  BY <1>1, <1>4, <1>6, <1>7, Becomes_right DEF Begins_rightly

LEMMA Time_passes_keeps ==
  ASSUME IInv, Time_passes
  PROVE  Step_right
<1> DEFINE Passed(t) == IF t = Future THEN Past ELSE t
           f == [o \in Orders |-> [order[o] EXCEPT !.setback = Passed(@)]]
           g == [j \in Jobs |-> Passed(timed[j])]
           h == [j \in Jobs |-> [calculated[j] EXCEPT !.at = Passed(@)]]
           k == [t \in Tasks |-> [task[t] EXCEPT !.next_step.at = Passed(@)]]
           s == [State EXCEPT !.order = f, !.timed = g, !.calculated = h, !.task = k]
<1>1. /\ Right(State, commands) /\ State \in States
      /\ commands \in Nat /\ commands \in 0..MaxCommands
  BY IInv_parts
<1>2. commands' = commands /\ Become(s)
  BY DEF Time_passes
<1>3. /\ order \in [Orders -> Order_objects] /\ timed \in [Jobs -> Times]
      /\ calculated \in [Jobs -> Register_entries] /\ task \in [Tasks -> Task_objects]
      /\ State.order = order /\ State.task = task
  BY <1>1 DEF State, States
<1>4. \A t \in Times : Passed(t) \in Times /\ (Passed(t) = Never <=> t = Never)
  BY Numbers
<1>5. \A e \in Register_entries : [e EXCEPT !.at = Passed(@)] \in Register_entries
  <2> SUFFICES ASSUME NEW e \in Register_entries
               PROVE  [e EXCEPT !.at = Passed(@)] \in Register_entries
    OBVIOUS
  <2>1. Passed(e.at) \in Times
    BY <1>4 DEF Register_entries, Times
  <2> HIDE DEF Passed
  <2> QED BY <2>1 DEF Register_entries, Times
<1>6. ASSUME NEW o \in Orders
      PROVE  /\ f[o] \in Order_objects
             /\ f[o].node = order[o].node /\ f[o].task = order[o].task
             /\ f[o].moved = order[o].moved /\ f[o].touched = order[o].touched
             /\ f[o].replacement_for = order[o].replacement_for
             /\ f[o].setback_count = order[o].setback_count
             /\ f[o].setback = Never <=> order[o].setback = Never
  <2> DEFINE x == order[o]
             y == [x EXCEPT !.setback = Passed(@)]
  <2>1. x \in Order_objects
    BY <1>3
  <2>2. x.setback \in Times
    BY <2>1, Order_parts
  <2>3. Passed(x.setback) \in Times /\ (Passed(x.setback) = Never <=> x.setback = Never)
    BY <1>4, <2>2
  <2>4. f[o] = y
    OBVIOUS
  <2> HIDE DEF Passed, x, f
  <2>5. /\ y \in Order_objects /\ y.node = x.node /\ y.task = x.task /\ y.moved = x.moved
        /\ y.touched = x.touched
        /\ y.replacement_for = x.replacement_for /\ y.setback_count = x.setback_count
        /\ y.setback = Passed(x.setback)
    BY <2>1, <2>3 DEF Order_objects
  <2> HIDE DEF y
  <2> QED BY <2>3, <2>4, <2>5 DEF x
<1>7. ASSUME NEW t \in Tasks
      PROVE  k[t] \in Task_objects /\ k[t].state = task[t].state /\ k[t].order = task[t].order
  <2> DEFINE u == task[t]
             e == [u.next_step EXCEPT !.at = Passed(@)]
             v == [u EXCEPT !.next_step = e]
  <2>1. u \in Task_objects
    BY <1>3
  <2>2. e \in Register_entries
    BY <1>5, <2>1 DEF Task_objects
  <2>3. k[t] = [u EXCEPT !.next_step.at = Passed(@)]
    OBVIOUS
  <2> HIDE DEF Passed, u, k
  <2>4. [u EXCEPT !.next_step.at = Passed(@)] = v
    BY <2>1 DEF Task_objects
  <2> HIDE DEF e
  <2>5. v \in Task_objects /\ v.state = u.state /\ v.order = u.order
    BY <2>1, <2>2 DEF Task_objects
  <2> HIDE DEF v
  <2> QED BY <2>3, <2>4, <2>5 DEF u
<1>8. f \in [Orders -> Order_objects] /\ k \in [Tasks -> Task_objects]
  <2>1. f = [o \in Orders |-> f[o]] /\ k = [t \in Tasks |-> k[t]]
    OBVIOUS
  <2> HIDE DEF f, k
  <2> QED BY <1>6, <1>7, <2>1
<1>9. g \in [Jobs -> Times]
  BY <1>3, <1>4
<1>10. h \in [Jobs -> Register_entries]
  BY <1>3, <1>5
<1> HIDE DEF f, g, h, k
<1>11. s \in States /\ s.queue = State.queue /\ s.order = f /\ s.task = k
  BY <1>1, <1>8, <1>9, <1>10 DEF States
<1> HIDE DEF s
<1>12. Right(s, commands)
  BY <1>1, <1>3, <1>6, <1>7, <1>11, Same_where_it_matters
<1>13. Nobody_begins(State, s)
  BY <1>3, <1>6, <1>11 DEF Nobody_begins, Begun_before
<1> QED
  BY <1>1, <1>2, <1>12, <1>13, Becomes_right DEF Begins_rightly

-----------------------------------------------------------------------------
(* Commands.                                                               *)

LEMMA Command_keeps ==
  ASSUME IInv, NEW s, Command(s), Right(s, commands + 1), Nobody_begins(State, s)
  PROVE  Step_right
<1>1. commands' = commands + 1 /\ Become(s) /\ commands < MaxCommands
  BY DEF Command
<1>2. commands \in Nat /\ MaxCommands \in Nat
  BY IInv_parts
<1> QED
  BY <1>1, <1>2, Becomes_right DEF Begins_rightly

\* A command is counted.
LEMMA Counted ==
  ASSUME IInv
  PROVE  /\ Right(State, commands + 1) /\ commands + 1 \in Nat /\ commands \in Nat
         /\ State \in States
         /\ \A o \in Orders : Is_well_queued(State) /\ Is_placed(State, o)
<1>1. Right(State, commands) /\ State \in States /\ commands \in Nat
  BY IInv_parts
<1>2. \A o \in Orders : Is_well_queued(State) /\ Is_placed(State, o)
  BY <1>1, Orders_right_parts DEF Right
<1>3. ASSUME NEW o \in Orders PROVE Count_right(State.order[o], commands + 1)
  <2>1. State.order[o] \in Order_objects /\ Count_right(State.order[o], commands)
    BY <1>1, Orders_right_parts DEF Right
  <2>2. commands <= commands + 1 /\ commands + 1 \in Nat
    BY <1>1
  <2> QED BY <1>1, <2>1, <2>2, Later_count
<1> QED
  BY <1>1, <1>2, <1>3 DEF Right, Orders_right

\* A command to one order.
LEMMA Order_command_keeps ==
  ASSUME IInv, NEW o \in Orders, NEW s, Goes(State, s, o), Command(s)
  PROVE  Step_right
<1>1. Right(s, commands + 1)
  BY Counted, Goes_right
<1>2. Nobody_begins(State, s)
  BY Counted, Nobody_begins_by_acts DEF Goes
<1> QED
  BY <1>1, <1>2, Command_keeps

LEMMA Modify_keeps ==
  ASSUME IInv, NEW o \in Orders, NEW s, Right(s, commands + 1), Nobody_begins(State, s),
         Modify(s, o)
  PROVE  Step_right
<1> DEFINE r == Remove_from_job_chain(s, o)
<1>1. Command(s) \/ Command(r)
  BY DEF Modify
<1>2. Goes(s, r, o)
  BY Remove_from_job_chain_goes, Orders_right_parts DEF Right
<1> HIDE DEF r
<1>3. Right(r, commands + 1)
  BY <1>2, Counted, Goes_right
<1>4. Nobody_begins(State, r)
  <2>1. s \in States
    BY DEF Right, Orders_right
  <2>2. Nobody_begins(s, r)
    BY <1>2, <2>1, Nobody_begins_by_acts DEF Goes
  <2> QED BY <2>2, Nobody_begins_both
<1> QED
  BY <1>1, <1>3, <1>4, Command_keeps

LEMMA Remove_order_keeps ==
  ASSUME IInv, NEW o \in Orders, Remove_order(o)
  PROVE  Step_right
BY Counted, Remove_from_job_chain_goes, Order_command_keeps DEF Remove_order

LEMMA Modify_state_keeps ==
  ASSUME IInv, NEW o \in Orders, NEW n \in Nodes \cup {End}, Modify_state(o, n)
  PROVE  Step_right
<1>1. State.order[o].node # Out
  BY DEF Modify_state, Modify, In_chain, State
<1>2. Goes(State, Set_state(State, o, n), o)
  BY <1>1, Counted, Set_state_goes
<1>3. Right(Set_state(State, o, n), commands + 1)
  BY <1>2, Counted, Goes_right
<1>4. Nobody_begins(State, Set_state(State, o, n))
  BY <1>2, Counted, Nobody_begins_by_acts DEF Goes
<1> QED
  BY <1>3, <1>4, Modify_keeps DEF Modify_state

LEMMA Modify_at_keeps ==
  ASSUME IInv, NEW o \in Orders, NEW at \in Times, Modify_at(o, at)
  PROVE  Step_right
<1> DEFINE x == State.order[o]
           r == Set_setback(State, o, at)
           q == Forget_setbacks(r, o)
           y == With_no_count(With_setback(x, at))
<1>1. State \in States /\ x \in Order_objects
  BY Counted, State_parts
<1>2. Becomes(State, r, o, With_setback(x, at))
  BY Counted, Set_setback_acts
<1> HIDE DEF r, x
<1>3. Becomes(r, q, o, y)
  BY <1>2, Forget_setbacks_acts, Acts_on_parts DEF Becomes
<1> HIDE DEF q
<1>4. Becomes(State, q, o, y)
  BY <1>1, <1>2, <1>3, Becomes_both
<1>5. Goes_on(x, y)
  BY <1>1 DEF Goes_on, With_no_count, With_setback, Order_objects
<1> HIDE DEF y
<1>6. Right(q, commands + 1)
  BY <1>4, <1>5, Counted, Becomes_goes, Goes_right DEF x
<1>7. Nobody_begins(State, q)
  BY <1>1, <1>4, Nobody_begins_by_acts DEF Becomes
<1> QED
  BY <1>6, <1>7, Modify_keeps DEF Modify_at, q, r

LEMMA Modify_setback_keeps ==
  ASSUME IInv, NEW o \in Orders, Modify_setback(o)
  PROVE  Step_right
<1> DEFINE x == State.order[o]
           y == With_setback(x, Zero)
           r == Set_setback(State, o, Zero)
           c == commands + 1
<1>1. /\ State \in States /\ x \in Order_objects /\ Zero \in Times /\ Zero # Never
      /\ commands \in Nat /\ c \in Nat /\ Orders_right(State, commands) /\ Tasks_right(State)
      /\ Count_right(x, commands)
      /\ x.task # None /\ ~x.moved => x.node \in Nodes
  BY IInv_parts, Orders_right_parts, Numbers
<1>2. Becomes(State, r, o, y)
  BY <1>1, Counted, Set_setback_acts
<1> HIDE DEF r, x
<1>3. /\ y.node = x.node /\ y.task = x.task /\ y.moved = x.moved
      /\ y.replacement_for = x.replacement_for /\ y.setback_count = x.setback_count
      /\ y.setback = Zero
  BY <1>1 DEF With_setback, Order_objects
<1> HIDE DEF y
<1>4. Count_right(y, c)
  <2>1. x.setback_count \in Nat /\ x.setback_count <= MaxSetbacks + commands + 1
        /\ MaxSetbacks \in Nat
    BY <1>1, Order_parts, OrdersAssumption DEF Count_right
  <2>2. y.setback_count <= MaxSetbacks + c + 0
    BY <1>1, <1>3, <2>1
  <2> QED BY <1>1, <1>3, <2>2 DEF Count_right
<1>5. Fits(x, y, c)
  BY <1>1, <1>3, <1>4 DEF Fits
<1>6. Orders_right(r, c)
  <2>1. commands <= c
    BY <1>1
  <2> QED BY <1>1, <1>2, <1>3, <1>5, <2>1, Acts_keep DEF Becomes, x
<1>7. Tasks_right(r)
  BY <1>1, <1>2, <1>3, Tasks_stay DEF Becomes, x
<1>8. Right(r, c) /\ Right(State, c)
  BY <1>6, <1>7, Counted DEF Right
<1>10. Nobody_begins(State, r) /\ Nobody_begins(State, State)
  BY <1>1, <1>2, Nobody_begins_by_acts, Nobody_begins_in_the_same_orders DEF Becomes
<1>9. Modify(r, o) \/ Modify(State, o)
  BY DEF Modify_setback, r
<1> QED
  BY <1>8, <1>9, <1>10, Modify_keeps

LEMMA Modify_suspended_keeps ==
  ASSUME IInv, NEW o \in Orders, NEW b \in BOOLEAN, Modify_suspended(o, b)
  PROVE  Step_right
<1>1. Goes(State, Set_suspended(State, o, b), o)
  BY Counted, Set_suspended_goes
<1>2. Right(Set_suspended(State, o, b), commands + 1)
  BY <1>1, Counted, Goes_right
<1>3. Nobody_begins(State, Set_suspended(State, o, b))
  BY <1>1, Counted, Nobody_begins_by_acts DEF Goes
<1> QED
  BY <1>2, <1>3, Modify_keeps DEF Modify_suspended

LEMMA Set_stopped_keeps ==
  ASSUME IInv, NEW b \in BOOLEAN, Set_stopped(b)
  PROVE  Step_right
<1> DEFINE s == [State EXCEPT !.stopped = b]
<1>1. /\ s \in States /\ s.order = State.order /\ s.queue = State.queue
      /\ s.task = State.task
  BY Counted DEF States
<1>2. Command(Wake_orders(s))
  BY DEF Set_stopped
<1> HIDE DEF s
<1>3. Right(s, commands + 1)
  BY <1>1, Counted, Same_tasks
<1>4. Right(Wake_orders(s), commands + 1)
  BY <1>1, <1>3, Wake_orders_signals, Signals_right
<1>5. Nobody_begins(State, Wake_orders(s))
  BY <1>1, Wake_orders_signals, Nobody_begins_in_the_same_orders DEF Signals
<1> QED
  BY <1>2, <1>4, <1>5, Command_keeps

LEMMA Script_sets_state_keeps ==
  ASSUME IInv, NEW t \in Tasks, NEW n \in Nodes, Script_sets_state(t, n)
  PROVE  Step_right
<1> DEFINE o == State.task[t].order
<1>1. Tasks_right(State) /\ State \in States
  BY IInv_parts
<1>2. State.task[t].state = "running" /\ o = task[t].order /\ State.order[o].node # Out
      /\ Command(Set_state(State, o, n))
  BY DEF Script_sets_state, Processes_of_chain, In_chain, State
<1>3. o \in Orders
  <2>1. State.task[t] \in Task_objects /\ o # None
    BY <1>1, <1>2, State_parts DEF Tasks_right
  <2> QED BY <2>1 DEF Task_objects
<1> HIDE DEF o
<1>4. Goes(State, Set_state(State, o, n), o)
  BY <1>2, <1>3, Counted, Set_state_goes
<1> QED
  BY <1>2, <1>3, <1>4, Order_command_keeps

LEMMA Script_sets_back_keeps ==
  ASSUME IInv, NEW t \in Tasks, Script_sets_back(t)
  PROVE  Step_right
<1> DEFINE o == State.task[t].order
           x == State.order[o]
           y == Set_back_order(x)
           r == Setback(State, o)
           c == commands + 1
<1>1. /\ Tasks_right(State) /\ State \in States /\ Orders_right(State, commands)
      /\ commands \in Nat /\ c \in Nat /\ commands <= c
  BY IInv_parts
<1>2. State.task[t].state = "running" /\ o = task[t].order /\ ~x.moved /\ Command(r)
  BY DEF Script_sets_back, Processes_of_chain, In_chain, State
<1>3. o \in Orders /\ x.task = t /\ t # None
  <2>1. State.task[t] \in Task_objects /\ o # None
    BY <1>1, <1>2, State_parts DEF Tasks_right
  <2>2. o \in Orders
    BY <2>1 DEF Task_objects
  <2> QED BY <1>1, <2>2, OrdersAssumption DEF Tasks_right
<1> HIDE DEF o
<1>4. /\ Is_well_queued(State) /\ Is_placed(State, o) /\ x \in Order_objects
      /\ Count_right(x, commands) /\ x.node \in Nodes
  BY <1>1, <1>2, <1>3, Orders_right_parts
<1>5. Becomes(State, r, o, y)
  BY <1>3, <1>4, Setback_acts
<1> HIDE DEF r, x
<1>6. Is_kept(x, y, commands) /\ y \in Order_objects
  BY <1>1, <1>3, <1>4, Kept_at_first
<1> HIDE DEF y
<1>7. /\ y.task = x.task /\ y.node = x.node /\ y.moved = x.moved
      /\ y.replacement_for = x.replacement_for
  BY <1>6 DEF Is_kept
<1>8. Count_right(y, c)
  <2>1. y.setback_count \in Nat /\ y.setback_count <= MaxSetbacks + commands + 1
        /\ MaxSetbacks \in Nat
    BY <1>1, <1>6, Order_parts, OrdersAssumption DEF Is_kept
  <2>2. y.setback_count <= MaxSetbacks + c + 0
    BY <1>1, <2>1
  <2> QED BY <1>1, <1>3, <1>7, <2>2 DEF Count_right
<1>9. Fits(x, y, c) /\ x.node # Out
  BY <1>4, <1>7, <1>8, Numbers DEF Fits
<1>10. Orders_right(r, c)
  BY <1>1, <1>3, <1>5, <1>9, Acts_keep DEF Becomes, x
<1>11. Tasks_right(r)
  BY <1>1, <1>3, <1>5, <1>7, Tasks_stay DEF Becomes, x
<1>12. Nobody_begins(State, r)
  BY <1>1, <1>3, <1>5, Nobody_begins_by_acts DEF Becomes
<1> QED
  BY <1>2, <1>10, <1>11, <1>12, Command_keeps DEF Right

-----------------------------------------------------------------------------
(* New orders.                                                             *)

Placed_order(s, n, at) ==
    [New_order EXCEPT !.node = Referenced(s, n), !.initial = n, !.setback = at]

LEMMA Place_acts ==
  ASSUME NEW s, NEW c \in Nat, Right(s, c), NEW o \in Orders, NEW n \in Nodes, NEW at \in Times,
         s.order[o] = New_order, Referenced(s, n) # End
  PROVE  LET r == Place(s, o, n, at) IN
         /\ Right(r, c) /\ Acts_on(s, r, o)
         /\ r.order[o].task = None
<1> DEFINE y == Placed_order(s, n, at)
           s1 == [s EXCEPT !.order[o] = y]
           r == Place(s, o, n, at)
<1>1. /\ Orders_right(s, c) /\ Tasks_right(s) /\ s \in States
      /\ Is_well_queued(s) /\ Is_placed(s, o)
  BY Orders_right_parts DEF Right, Orders_right
<1>2. Referenced(s, n) \in Nodes
  BY Referenced_node
<1>3. /\ y \in Order_objects /\ y.node \in Nodes /\ y.task = None /\ ~y.moved
      /\ y.replacement_for = None /\ y.setback_count = 0 /\ ~y.touched
  <2> DEFINE m == Referenced(s, n)
  <2>1. m \in Places
    BY <1>2 DEF Places
  <2>2. y = [node |-> m, initial |-> n, setback |-> at, setback_count |-> 0,
             setback_called |-> FALSE, suspended |-> FALSE, blacklisted |-> FALSE,
             touched |-> FALSE, moved |-> FALSE, task |-> None, replacement_for |-> None]
    <3>1. y = [New_order EXCEPT !.node = m, !.initial = n, !.setback = at]
      BY DEF Placed_order
    <3> HIDE DEF m, y
    <3> QED BY <3>1 DEF New_order
  <2> HIDE DEF m, y
  <2> QED BY <1>2, <2>1, <2>2 DEF Order_objects, m
<1>4. New_order.node = Out /\ New_order.task = None
  BY DEF New_order
<1>5. r = Add_to_queue(s1, o)
  BY DEF Place, Placed_order
<1> HIDE DEF y
<1>6. Acts_on(s, s1, o) /\ s1.order[o] = y /\ s1.queue = s.queue
  BY <1>1, <1>3, Order_changes DEF Begun_before
<1> HIDE DEF s1
<1>7. Is_nowhere(s1, o)
  <2>1. Is_nowhere(s, o)
    BY <1>1, <1>4, Numbers, Is_queued_where
  <2> QED BY <1>6, <2>1 DEF Is_nowhere
<1>8. Becomes(s1, r, o, y)
  BY <1>3, <1>5, <1>6, <1>7, Acts_on_parts, Add_to_queue_acts
<1> HIDE DEF r
<1>9. Acts_on(s, r, o) /\ r.order[o] = y /\ Is_placed(r, o)
  BY <1>1, <1>6, <1>8, Acts_on_both DEF Becomes
<1>10. Fits(s.order[o], y, c) /\ c <= c
  BY <1>3, OrdersAssumption DEF Fits, Count_right
<1>11. Orders_right(r, c)
  BY <1>1, <1>4, <1>9, <1>10, Acts_keep
<1>12. Tasks_right(r)
  BY <1>1, <1>3, <1>4, <1>9, Tasks_stay
<1> QED
  BY <1>3, <1>9, <1>11, <1>12 DEF Right, r

LEMMA Add_order_keeps ==
  ASSUME IInv, NEW o \in Orders, NEW n \in Nodes, NEW at \in Times, Add_order(o, n, at)
  PROVE  Step_right
<1>1. State.order[o] = New_order /\ Referenced(State, n) # End /\ Command(Place(State, o, n, at))
  BY DEF Add_order, State
<1>2. Right(Place(State, o, n, at), commands + 1) /\ Nobody_begins(State, Place(State, o, n, at))
  BY <1>1, Counted, Place_acts, Nobody_begins_by_acts
<1> QED
  BY <1>1, <1>2, Command_keeps

\* An order waits for another one that has been removed, and that a task has.
LEMMA Waits_right ==
  ASSUME NEW s, NEW c \in Nat, Right(s, c), NEW new \in Orders, NEW old \in Orders, new # old,
         s.order[old].task # None, s.order[old].node = Out, s.order[new].task = None
  PROVE  LET r == [s EXCEPT !.order[new].replacement_for = old] IN
         Right(r, c) /\ Nobody_begins(s, r)
<1> DEFINE x == s.order[new]
           y == [x EXCEPT !.replacement_for = old]
           r == [s EXCEPT !.order[new] = y]
<1>1. /\ Orders_right(s, c) /\ Tasks_right(s) /\ s \in States /\ x \in Order_objects
      /\ Is_well_queued(s) /\ Count_right(x, c)
  BY Orders_right_parts DEF Right, Orders_right
<1>2. [s EXCEPT !.order[new].replacement_for = old] = r
  BY <1>1 DEF States
<1> HIDE DEF x
<1>3. /\ y \in Order_objects /\ y.node = x.node /\ y.task = x.task /\ y.moved = x.moved
      /\ y.replacement_for = old /\ y.setback_count = x.setback_count
      /\ y.setback = x.setback /\ Begun_before(x, y)
  BY <1>1 DEF Order_objects, Begun_before
<1> HIDE DEF y
<1>4. /\ r \in States
      /\ r.order[new] = y /\ \A p \in Orders : p # new => r.order[p] = s.order[p]
      /\ r.queue = s.queue /\ r.task = s.task
  BY <1>1, <1>3, Order_set
<1> HIDE DEF r
<1>5. \A p \in Orders :
         /\ r.order[p].node = s.order[p].node /\ r.order[p].task = s.order[p].task
         /\ r.order[p].moved = s.order[p].moved
         /\ r.order[p].replacement_for = IF p = new THEN old ELSE s.order[p].replacement_for
  BY <1>3, <1>4 DEF x
<1>6. Queues_right(r)
  BY <1>1, <1>4, <1>5 DEF Orders_right, Queues_right, Is_placed
<1>7. Replacements_right(r)
  <2>1. \A o \in Orders : s.order[o].replacement_for \in Orders \cup {None}
    BY <1>1, State_parts, Order_parts
  <2>2. ASSUME NEW p \in Orders, r.order[p].replacement_for # None
        PROVE  LET m == r.order[p].replacement_for IN
               r.order[m].task # None /\ r.order[m].node = Out
    <3>1. CASE p = new
      BY <1>5, <3>1
    <3>2. CASE p # new
      BY <1>1, <1>5, <2>1, <2>2, <3>2 DEF Orders_right, Replacements_right
    <3> QED BY <3>1, <3>2
  <2> QED BY <2>2 DEF Replacements_right
<1>8. Occupied_right(r)
  BY <1>1, <1>5 DEF Orders_right, Occupied_right
<1>9. ASSUME NEW p \in Orders PROVE Count_right(r.order[p], c)
  <2>1. CASE p = new
    BY <1>1, <1>3, <1>4, <2>1 DEF Count_right
  <2>2. CASE p # new
    BY <1>1, <1>4, <2>2 DEF Orders_right
  <2> QED BY <2>1, <2>2
<1>10. Tasks_right(r)
  BY <1>1, <1>4, <1>5 DEF Tasks_right
<1>11. Nobody_begins(s, r)
  BY <1>3, <1>4 DEF Nobody_begins, Begun_before, x
<1> QED
  BY <1>2, <1>4, <1>6, <1>7, <1>8, <1>9, <1>10, <1>11 DEF Right, Orders_right

LEMMA Replace_order_keeps ==
  ASSUME IInv, NEW new \in Orders, NEW old \in Orders, Replace_order(new, old)
  PROVE  Step_right
<1> DEFINE c == commands + 1
           x == State.order[old]
           s1 == Remove_from_job_chain(State, old)
           s2 == Place(s1, new, 1, Zero)
           s3 == [s2 EXCEPT !.order[new].replacement_for = old]
<1>1. /\ new # old /\ State.order[new] = New_order
      /\ Command(IF Referenced(s1, 1) = End THEN s1 ELSE IF x.task = None THEN s2 ELSE s3)
  BY DEF Replace_order, State, Has_no_task
<1>2. /\ State \in States /\ x \in Order_objects /\ Right(State, c) /\ c \in Nat
      /\ Is_well_queued(State) /\ Is_placed(State, old)
  BY Counted, State_parts
<1>3. Goes(State, s1, old) /\ Right(s1, c)
  BY <1>2, Remove_from_job_chain_goes, Goes_right
<1>10. Nobody_begins(State, s1)
  BY <1>2, <1>3, Nobody_begins_by_acts DEF Goes
<1>4. Becomes(State, s1, old, IF x.task = None THEN New_order ELSE Removed_order(x))
  BY <1>2, Remove_from_job_chain_acts
<1> HIDE DEF s1, x, c
<1>5. x.task # None => s1.order[old].task # None /\ s1.order[old].node = Out
  <2>1. Removed_order(x).node = Out /\ Removed_order(x).task = x.task
    BY <1>2 DEF Removed_order, Order_objects
  <2> QED BY <1>4, <2>1 DEF Becomes
<1>6. s1.order[new] = New_order
  <2>1. New_order.replacement_for = None /\ None # old
    BY OrdersAssumption DEF New_order
  <2> QED BY <1>1, <1>3, <2>1 DEF Goes, Acts_on, Others_stay, Is_released
<1>7. 1 \in Nodes /\ Zero \in Times
  BY Numbers
<1>8. Referenced(s1, 1) # End => /\ Right(s2, c) /\ Acts_on(s1, s2, new)
                                 /\ s2.order[new].task = None
  BY <1>2, <1>3, <1>6, <1>7, Place_acts
<1>11. Referenced(s1, 1) # End => Nobody_begins(State, s2)
  <2>1. s1 \in States
    BY <1>3 DEF Right, Orders_right
  <2> QED BY <1>8, <1>10, <2>1, Nobody_begins_by_acts, Nobody_begins_both
<1> HIDE DEF s2
<1>9. Referenced(s1, 1) # End /\ x.task # None => Right(s3, c) /\ Nobody_begins(State, s3)
  <2> SUFFICES ASSUME Referenced(s1, 1) # End, x.task # None PROVE Right(s3, c) /\ Nobody_begins(State, s3)
    OBVIOUS
  <2>1. s1 \in States
    BY <1>3 DEF Right, Orders_right
  <2>2. s2.order[old].task # None /\ s2.order[old].node = Out
    BY <1>1, <1>5, <1>8, <2>1, Other_order
  <2> QED BY <1>1, <1>2, <1>8, <1>11, <2>2, Waits_right, Nobody_begins_both
<1> HIDE DEF s3
<1> QED
  BY <1>1, <1>3, <1>8, <1>9, <1>10, <1>11, Command_keeps DEF c

-----------------------------------------------------------------------------
(* The action of a node is set: orders leave it, or find a place again.    *)

LEMMA Referenced_itself ==
  ASSUME NEW s, NEW n \in Nodes, s.action[n] # "next_state"
  PROVE  Referenced(s, n) = n
<1> DEFINE P(m) == /\ m # End => s.action[m] # "next_state"
                   /\ \A k \in n..(m - 1) : s.action[k] = "next_state"
<1>1. n \in Nat /\ End \in Nat /\ n <= End
  BY Numbers
<1>2. n \in n..End /\ P(n)
  <2>1. \A k \in n..(n - 1) : FALSE
    BY <1>1
  <2> QED BY <1>1, <2>1
<1>3. ASSUME NEW m \in n..End, P(m) PROVE m = n
  <2>1. n \notin n..(m - 1)
    BY <1>3
  <2> QED BY <1>1, <2>1
<1>4. Referenced(s, n) = CHOOSE m \in n..End : P(m)
  BY DEF Referenced
<1> HIDE DEF P
<1> QED
  BY <1>2, <1>3, <1>4

\* An order of the chain is set to a node that is not skipped.
LEMMA Set_state_finds_a_place ==
  ASSUME NEW s, Is_well_queued(s), NEW o \in Orders, Is_placed(s, o), s.order[o].node # Out,
         NEW n \in Nodes, s.action[n] # "next_state"
  PROVE  Goes(s, Set_state(s, o, n), o) /\ Set_state(s, o, n).order[o].node \in Nodes
<1> DEFINE s1 == Clear_setback(s, o)
           y == [s1.order[o] EXCEPT !.blacklisted = FALSE]
           s2 == [s1 EXCEPT !.order[o] = y]
<1>1. s \in States /\ s.order[o] \in Order_objects
  BY State_parts DEF Is_well_queued
<1>2. Goes(s, s1, o) /\ s1.order[o].node # Out
  <2>1. Becomes(s, s1, o, With_clear_setback(s.order[o]))
    BY Clear_setback_acts
  <2>2. With_clear_setback(s.order[o]).node = s.order[o].node
    BY <1>1 DEF With_clear_setback, With_no_count, With_setback, Order_objects
  <2> QED BY <2>1, <2>2, Clear_setback_goes DEF Becomes
<1> HIDE DEF s1
<1>3. s1 \in States /\ s1.order[o] \in Order_objects
  BY <1>2, Goes_parts
<1>4. /\ y \in Order_objects /\ y.node = s1.order[o].node
      /\ Goes_on(s1.order[o], y) /\ Begun_before(s1.order[o], y)
  BY <1>3 DEF Order_objects, Goes_on, Begun_before
<1>5. [s1 EXCEPT !.order[o].blacklisted = FALSE] = s2
  BY <1>3 DEF States
<1> HIDE DEF y
<1>6. Goes(s1, s2, o) /\ s2.order[o] = y
  BY <1>2, <1>4, Goes_parts, Order_goes, Order_changes
<1> HIDE DEF s2
<1>7. s2.action = s.action
  BY <1>2, <1>6 DEF Goes, Acts_on
<1>8. Referenced(s2, n) \in Nodes
  BY <1>7, Referenced_itself
<1>9. Set_state1(s2, o, n).order[o].node \in Nodes
  BY <1>2, <1>4, <1>6, <1>8, Goes_parts, Set_state1_goes DEF May_move
<1>10. Set_state(s, o, n) = Set_state1(s2, o, n)
  BY <1>5 DEF Set_state, s1
<1> QED
  BY <1>9, <1>10, Set_state_goes

\* The orders that have lost their node are set to their initial states again.
LEMMA Reinsert_homeless_right ==
  ASSUME NEW s, NEW c \in Nat, Right(s, c), NEW S \in SUBSET Orders,
         \A o \in S : s.order[o].node # Out
  PROVE  Right(Reinsert_homeless(s, S), c) /\ Nobody_begins(s, Reinsert_homeless(s, S))
<1> DEFINE X == {r \in States : /\ Right(r, c) /\ Nobody_begins(s, r)
                                /\ \A o \in S : r.order[o].node # Out}
           Reinserted(o, r) == LET to == Referenced(r, s.order[o].initial)
                               IN IF to = End THEN r ELSE Set_state(r, o, to)
           Body(it) == [u \in SUBSET S |->
                          IF u = {} THEN s
                          ELSE LET n == CHOOSE n \in u : TRUE
                               IN  Reinserted(n, it[u \ {n}])]
           iter == CHOOSE it : it = Body(it)
<1>1. Reinsert_homeless(s, S) = iter[S]
  BY DEF Reinsert_homeless, FoldSet, MapThenFoldSet
<1>2. s \in X
  BY Nobody_begins_in_the_same_orders DEF Right, Orders_right
<1>3. IsFiniteSet(S)
  BY OrdersAssumption, FS_Subset
<1>4. \A o \in S, r \in X : Reinserted(o, r) \in X
  <2> SUFFICES ASSUME NEW o \in S, NEW r \in X PROVE Reinserted(o, r) \in X
    OBVIOUS
  <2> DEFINE to == Referenced(r, s.order[o].initial)
             q == Set_state(r, o, to)
  <2>1. s.order[o].initial \in Nodes \cup {End} /\ o \in Orders
    BY <1>2, State_parts, Order_parts
  <2>2. to \in Nodes \cup {End} /\ (to # End => r.action[to] # "next_state")
    BY <2>1, Referenced_node
  <2>3. Reinserted(o, r) = IF to = End THEN r ELSE q
    OBVIOUS
  <2> HIDE DEF to, Reinserted
  <2>4. /\ r \in States /\ Right(r, c) /\ \A p \in S : r.order[p].node # Out
        /\ Is_well_queued(r) /\ Is_placed(r, o) /\ Nobody_begins(s, r)
    BY <2>1, Orders_right_parts DEF Right
  <2>5. to # End => Goes(r, q, o) /\ q.order[o].node \in Nodes
    BY <2>1, <2>2, <2>4, Set_state_finds_a_place
  <2> HIDE DEF q
  <2>6. ASSUME to # End PROVE q \in X
    <3>1. Right(q, c) /\ q \in States
      BY <2>1, <2>4, <2>5, <2>6, Goes_right, Goes_parts
    <3>2. ASSUME NEW p \in S PROVE q.order[p].node # Out
      <4>1. CASE p = o
        BY <2>5, <2>6, <4>1, Numbers
      <4>2. CASE p # o
        BY <2>1, <2>4, <2>5, <2>6, <4>2, Other_order DEF Goes
      <4> QED BY <4>1, <4>2
    <3>3. Nobody_begins(s, q)
      BY <2>1, <2>4, <2>5, <2>6, Nobody_begins_by_acts, Nobody_begins_both DEF Goes
    <3> QED BY <3>1, <3>2, <3>3
  <2> HIDE DEF X
  <2> QED BY <2>3, <2>6
<1> HIDE DEF X, Reinserted
<1>5. \E it : it = Body(it)
  <2> DEFINE op == [p \in S \X X |-> Reinserted(p[1], p[2])]
             pick == [u \in SUBSET S |-> CHOOSE n \in u : TRUE]
  <2>1. op \in [S \X X -> X]
    BY <1>4
  <2>2. \A u \in SUBSET S : u # {} => pick[u] \in u
    OBVIOUS
  <2>3. PICK it \in [SUBSET S -> X] : Is_fold(it, S, s, op, pick)
    <3> HIDE DEF op, pick, Body, iter
    <3> QED BY <1>2, <1>3, <2>1, <2>2, Fold_exists
  <2>4. ASSUME NEW u \in SUBSET S, u # {}
        PROVE  op[<<pick[u], it[u \ {pick[u]}]>>] = Reinserted(pick[u], it[u \ {pick[u]}])
    <3>1. pick[u] \in S /\ it[u \ {pick[u]}] \in X
      <4> HIDE DEF pick
      <4> QED BY <2>2, <2>4
    <3> HIDE DEF pick
    <3> QED BY <3>1
  <2>5. \A u \in SUBSET S : pick[u] = CHOOSE n \in u : TRUE
    OBVIOUS
  <2>6. it = Body(it)
    <3> HIDE DEF op, pick, iter
    <3>1. ASSUME NEW u \in SUBSET S
          PROVE  it[u] = IF u = {} THEN s
                         ELSE LET n == CHOOSE n \in u : TRUE
                              IN  Reinserted(n, it[u \ {n}])
      BY <2>3, <2>4, <2>5 DEF Is_fold
    <3> QED BY <3>1
  <2> QED BY <2>6
<1>6. iter = Body(iter)
  BY <1>5
<1> HIDE DEF iter
<1>7. iter[S] \in X
  <2> DEFINE Reached == {u \in SUBSET S : iter[u] \in X}
  <2>1. {} \in Reached
    BY <1>2, <1>6
  <2>2. ASSUME NEW u \in SUBSET S, u # {}
        PROVE  \E n \in u : u \ {n} \in Reached => u \in Reached
    <3> DEFINE m == CHOOSE n \in u : TRUE
    <3>1. m \in u
      BY <2>2
    <3>2. iter[u] = Reinserted(m, iter[u \ {m}])
      BY <1>6, <2>2
    <3> HIDE DEF m
    <3> QED BY <1>4, <3>1, <3>2
  <2> HIDE DEF Reached
  <2>3. SUBSET S \subseteq Reached
    BY <1>3, <2>1, <2>2, Subsets_reached
  <2> QED BY <2>3 DEF Reached
<1> QED
  BY <1>1, <1>7 DEF X

\* The orders of a queue that no task has are set to another state.
LEMMA Skip_node_right ==
  ASSUME NEW s, NEW c \in Nat, Right(s, c), NEW m \in Nodes
  PROVE  Right(Skip_node(s, m), c) /\ Nobody_begins(s, Skip_node(s, m))
<1> DEFINE n == Referenced(s, m)
           list == s.queue[m]
           S == DOMAIN list
           X == {r \in States : /\ Right(r, c) /\ Nobody_begins(s, r)
                                /\ \A o \in Orders : r.order[o].task = s.order[o].task
                                /\ \A o \in Range(list) : s.order[o].task = None => May_move(r, o)}
           Skipped(r, o) == IF s.order[o].task = None THEN Set_state1(r, o, n) ELSE r
           Body(it) == [u \in SUBSET S |->
                          IF u = {} THEN s
                          ELSE LET i == Max(u)
                               IN  Skipped(it[u \ {i}], list[i])]
           iter == CHOOSE it : it = Body(it)
<1>1. Skip_node(s, m) = iter[S]
  BY DEF Skip_node, FoldLeft, MapThenFoldSet
<1> HIDE DEF iter
<1>0. n \in Nodes \cup {End} /\ list \in Seq(Orders)
  BY Referenced_node, State_parts DEF Right, Orders_right
<1>10. \A o \in Range(list) : s.order[o].node # Out
  BY <1>0, Positions, Numbers DEF Right, Orders_right, Queues_right, Is_placed
<1> HIDE DEF n, list
<1>2. s \in X
  BY <1>10, Nobody_begins_in_the_same_orders DEF Right, Orders_right, May_move
<1>3. /\ IsFiniteSet(S) /\ S \subseteq Nat
      /\ \A i \in S : list[i] \in Orders /\ list[i] \in Range(list)
  <2>1. Len(list) \in Nat /\ S = 1 .. Len(list) /\ \A i \in 1 .. Len(list) : list[i] \in Orders
    BY <1>0, Positions
  <2>2. 1 .. Len(list) \subseteq Nat
    BY <2>1
  <2> HIDE DEF S
  <2>3. \A i \in DOMAIN list : list[i] \in Range(list)
    BY DEF Range
  <2>4. \A i \in S : list[i] \in Range(list)
    BY <2>3 DEF S
  <2>5. \A i \in S : list[i] \in Orders
    BY <2>1
  <2>6. IsFiniteSet(1 .. Len(list))
    BY <2>1, FS_Interval
  <2>7. IsFiniteSet(S) /\ S \subseteq Nat
    BY <2>1, <2>2, <2>6
  <2> QED BY <2>4, <2>5, <2>7
<1>4. \A o \in Range(list), r \in X : Skipped(r, o) \in X
  <2> SUFFICES ASSUME NEW o \in Range(list), NEW r \in X, s.order[o].task = None
               PROVE  Set_state1(r, o, n) \in X
    OBVIOUS
  <2> DEFINE q == Set_state1(r, o, n)
  <2>1. /\ r \in States /\ Right(r, c) /\ r.order[o].task = None
        /\ Is_well_queued(r) /\ Is_placed(r, o) /\ May_move(r, o) /\ o \in Orders
        /\ Nobody_begins(s, r)
    <3>1. o \in Orders
      BY <1>0, Positions
    <3> QED BY <3>1, Orders_right_parts DEF Right
  <2>2. Goes(r, q, o)
    BY <1>0, <2>1, Set_state1_goes
  <2> HIDE DEF q
  <2>3. Right(q, c) /\ q \in States
    BY <2>1, <2>2, Goes_right, Goes_parts
  <2>4. ASSUME NEW p \in Orders PROVE q.order[p].task = s.order[p].task
    <3>1. r.order[p].task = s.order[p].task
      OBVIOUS
    <3>2. CASE p = o
      BY <2>2, <3>1, <3>2 DEF Goes, Goes_on
    <3>3. CASE p # o
      BY <2>1, <2>2, <3>1, <3>3, Other_order DEF Goes
    <3> QED BY <3>2, <3>3
  <2>5. ASSUME NEW p \in Range(list), s.order[p].task = None PROVE May_move(q, p)
    <3>1. p \in Orders /\ May_move(r, p) /\ q.order[p].task = None
      BY <1>0, <2>4, <2>5, Positions
    <3>2. CASE p = o
      BY <2>1, <2>2, <3>1, <3>2 DEF Goes, Goes_on, May_move
    <3>3. CASE p # o
      BY <2>1, <2>2, <3>1, <3>3, Other_order DEF Goes, May_move
    <3> QED BY <3>2, <3>3
  <2>6. Nobody_begins(s, q)
    BY <2>1, <2>2, Nobody_begins_by_acts, Nobody_begins_both DEF Goes
  <2> QED BY <2>3, <2>4, <2>5, <2>6 DEF q
<1>5. ASSUME NEW u \in SUBSET S, u # {} PROVE Max(u) \in u
  <2>1. IsFiniteSet(u) /\ u \subseteq Int
    BY <1>3, FS_Subset
  <2>2. \E x \in u : \A y \in u : x >= y
    <3> DEFINE above == {k \in Nat : \A y \in u : k >= y}
    <3>1. Len(list) \in above
      BY <1>0, Positions
    <3>2. above \subseteq Nat /\ above # {}
      BY <3>1
    <3>3. PICK k \in above : \A z \in above : k <= z
      <4> HIDE DEF above
      <4> QED BY <3>2, First_position
    <3>4. k \in u
      <4> SUFFICES ASSUME k \notin u PROVE FALSE
        OBVIOUS
      <4>1. PICK y \in u : TRUE
        BY <1>5
      <4>2. k \in Nat /\ \A z \in u : z \in Nat /\ k >= z /\ k # z
        BY <1>3, <3>3
      <4>3. k - 1 \in Nat /\ \A z \in u : k - 1 >= z
        BY <4>1, <4>2
      <4>4. k - 1 \in above
        BY <4>3
      <4>5. k <= k - 1
        <5> HIDE DEF above
        <5> QED BY <3>3, <4>4
      <4> QED BY <4>2, <4>5
    <3> QED BY <3>3, <3>4
  <2> QED BY <2>2 DEF Max
<1> HIDE DEF X, Skipped, S
<1>6. \E it : it = Body(it)
  <2> DEFINE op == [p \in S \X X |-> Skipped(p[2], list[p[1]])]
             pick == [u \in SUBSET S |-> Max(u)]
  <2>1. op \in [S \X X -> X]
    BY <1>3, <1>4
  <2>2. \A u \in SUBSET S : u # {} => pick[u] \in u
    BY <1>5
  <2>3. PICK it \in [SUBSET S -> X] : Is_fold(it, S, s, op, pick)
    <3> HIDE DEF op, pick, Body, iter
    <3> QED BY <1>2, <1>3, <2>1, <2>2, Fold_exists
  <2>4. ASSUME NEW u \in SUBSET S, u # {}
        PROVE  op[<<pick[u], it[u \ {pick[u]}]>>] = Skipped(it[u \ {pick[u]}], list[pick[u]])
    <3>1. pick[u] \in S /\ it[u \ {pick[u]}] \in X
      <4> HIDE DEF pick
      <4> QED BY <2>2, <2>4
    <3> HIDE DEF pick
    <3> QED BY <3>1
  <2>5. \A u \in SUBSET S : pick[u] = Max(u)
    OBVIOUS
  <2>6. it = Body(it)
    <3> HIDE DEF op, pick, iter
    <3> QED BY <2>3, <2>4, <2>5 DEF Is_fold
  <2> QED BY <2>6
<1>7. iter = Body(iter)
  BY <1>6 DEF iter
<1> HIDE DEF iter
<1>8. iter[S] \in X
  <2> DEFINE Reached == {u \in SUBSET S : iter[u] \in X}
  <2>1. {} \in Reached
    BY <1>2, <1>7
  <2>2. ASSUME NEW u \in SUBSET S, u # {}
        PROVE  \E i \in u : u \ {i} \in Reached => u \in Reached
    <3> DEFINE last == Max(u)
    <3>1. last \in u
      BY <1>5, <2>2
    <3>2. iter[u] = Skipped(iter[u \ {last}], list[last])
      BY <1>7, <2>2
    <3> HIDE DEF last
    <3> QED BY <1>3, <1>4, <3>1, <3>2
  <2> HIDE DEF Reached
  <2>3. SUBSET S \subseteq Reached
    BY <1>3, <2>1, <2>2, Subsets_reached
  <2> QED BY <2>3 DEF Reached
<1> QED
  BY <1>1, <1>8 DEF X

LEMMA Set_action_keeps ==
  ASSUME IInv, NEW n \in Nodes, NEW a \in Actions, Set_action(n, a)
  PROVE  Step_right
<1> DEFINE c == commands + 1
           s == [State EXCEPT !.action[n] = a]
           homeless == {o \in config.repeating :
                          In_chain(o) /\ ~order[o].touched /\ ~Is_queued(State, o)}
           s1 == IF action[n] = "next_state" THEN Reinsert_homeless(s, homeless) ELSE s
           s2 == Skip_node(s1, n)
           next == Referenced(s1, n)
           s3 == [s2 EXCEPT !.available[JobOf[next]] = TRUE]
<1>1. Command(CASE a = "process" -> Wake_node(s1, n)
                [] a = "stop" -> s1
                [] a = "next_state" -> IF next \in Nodes THEN s3 ELSE s2)
  BY DEF Set_action
<1>2. homeless \in SUBSET Orders /\ \A o \in homeless : State.order[o].node # Out
  BY OrdersAssumption DEF IInv, In_chain, State
<1> HIDE DEF homeless
<1>3. /\ s \in States /\ s.order = State.order /\ s.queue = State.queue
      /\ s.task = State.task
  BY Counted DEF States
<1> HIDE DEF s
<1>4. Right(s, c) /\ c \in Nat
  BY <1>3, Counted, Same_tasks
<1>5. Right(s1, c) /\ Nobody_begins(State, s1)
  <2>1. Nobody_begins(State, s)
    BY <1>3, Nobody_begins_in_the_same_orders
  <2> QED BY <1>2, <1>3, <1>4, <2>1, Reinsert_homeless_right, Nobody_begins_both
<1> HIDE DEF s1, c
<1>6. s1 \in States
  BY <1>5 DEF Right, Orders_right
<1>7. Right(Wake_node(s1, n), c) /\ Nobody_begins(State, Wake_node(s1, n))
  BY <1>5, <1>6, Wake_node_signals, Signals_right, Nobody_begins_both
<1>8. Right(s2, c) /\ s2 \in States /\ Nobody_begins(State, s2)
  BY <1>4, <1>5, Skip_node_right, Nobody_begins_both DEF Right, Orders_right
<1> HIDE DEF s2, next
<1>9. next \in Nodes => Right(s3, c) /\ Nobody_begins(State, s3)
  <2>1. No_call \in Register_entries
    BY Numbers DEF No_call, Register_entries
  <2>2. next \in Nodes => JobOf[next] \in Jobs
    BY OrdersAssumption
  <2>3. next \in Nodes => Signals(s2, s3)
    BY <1>8, <2>1, <2>2, Calls_set
  <2> QED BY <1>8, <2>3, Signals_right, Nobody_begins_both
<1> HIDE DEF s3
<1>10. \/ Command(Wake_node(s1, n)) \/ Command(s1)
       \/ next \in Nodes /\ Command(s3)
       \/ Command(s2)
  BY <1>1 DEF Actions
<1> QED
  BY <1>5, <1>7, <1>8, <1>9, <1>10, Command_keeps DEF c

-----------------------------------------------------------------------------
(* Every step keeps the invariant.                                         *)

LEMMA Init_right ==
  ASSUME Init
  PROVE  IInv
<1>1. /\ New_order \in Order_objects /\ New_order.task = None /\ New_order.replacement_for = None
      /\ New_order.node = Out /\ ~New_order.moved /\ New_order.setback_count = 0
  BY Numbers DEF New_order, Order_objects, Places
<1>2. No_call \in Register_entries
  BY Numbers DEF No_call, Register_entries
<1>3. No_task \in Task_objects /\ No_task.order = None /\ No_task.state = "none"
  BY <1>2 DEF No_task, Task_objects
<1>4. /\ \A n \in Nodes : queue[n] = <<>> /\ queue[n] \in Seq(Orders) /\ DOMAIN queue[n] = {}
      /\ \A o \in Orders : State.order[o] = New_order
      /\ \A t \in Tasks : State.task[t] = No_task
  <2>1. State.order = order /\ State.task = task
    BY DEF State
  <2> HIDE DEF New_order, No_task
  <2>2. order = [o \in Orders |-> New_order] /\ task = [t \in Tasks |-> No_task]
    BY DEF Init
  <2>3. \A n \in Nodes : queue[n] = <<>>
    BY DEF Init
  <2>4. <<>> \in Seq(Orders) /\ Len(<<>>) = 0
    OBVIOUS
  <2>5. 1 .. 0 = {}
    OBVIOUS
  <2>6. \A n \in Nodes : queue[n] \in Seq(Orders) /\ DOMAIN queue[n] = {}
    BY <2>3, <2>4, <2>5, Positions
  <2>7. \A o \in Orders : State.order[o] = New_order
    BY <2>1, <2>2
  <2>8. \A t \in Tasks : State.task[t] = No_task
    BY <2>1, <2>2
  <2> QED BY <2>3, <2>6, <2>7, <2>8
<1> HIDE DEF New_order, No_call, No_task
<1>5. State \in States
  <2>1. order \in [Orders -> Order_objects] /\ task \in [Tasks -> Task_objects]
    BY <1>1, <1>3 DEF Init
  <2>2. queue \in [Nodes -> Seq(Orders)]
    <3>1. queue = [n \in Nodes |-> queue[n]]
      BY DEF Init
    <3> QED BY <1>4, <3>1
  <2>3. action \in [Nodes -> Actions] /\ stopped \in BOOLEAN
    BY DEF Init, Actions
  <2>4. timed \in [Jobs -> Times] /\ calculated \in [Jobs -> Register_entries]
    <3>1. Never \in Times
      BY Numbers
    <3> QED BY <1>2, <3>1 DEF Init
  <2>5. available \in [Jobs -> BOOLEAN] /\ closed \in [Jobs -> BOOLEAN]
    BY DEF Init
  <2> QED BY <2>1, <2>2, <2>3, <2>4, <2>5 DEF State, States
<1>6. Queues_right(State)
  BY <1>1, <1>4, Numbers DEF Queues_right, Is_distinct, Is_placed, Range, State
<1>7. Replacements_right(State) /\ Occupied_right(State)
  BY <1>1, <1>4 DEF Replacements_right, Occupied_right
<1>8. commands = 0 /\ MaxSetbacks \in Nat /\ MaxCommands \in Nat
  BY OrdersAssumption DEF Init
<1>9. \A o \in Orders : Count_right(State.order[o], commands)
  <2> SUFFICES ASSUME NEW o \in Orders PROVE Count_right(State.order[o], commands)
    OBVIOUS
  <2> DEFINE more == IF State.order[o].setback = Never /\ State.order[o].task = None THEN 1 ELSE 0
  <2>1. more \in Nat /\ State.order[o].setback_count = 0
    BY <1>1, <1>4
  <2>2. State.order[o].setback_count <= MaxSetbacks + commands + more
    <3> HIDE DEF more
    <3> QED BY <1>8, <2>1
  <2> QED BY <2>2 DEF Count_right
<1>10. Tasks_right(State)
  BY <1>1, <1>3, <1>4, OrdersAssumption DEF Tasks_right
<1> QED
  BY <1>5, <1>6, <1>7, <1>8, <1>9, <1>10 DEF IInv, Right, Orders_right, Init

LEMMA Stutter_keeps ==
  ASSUME IInv, UNCHANGED vars
  PROVE  Step_right
<1>1. State' = State /\ commands' = commands /\ config' = config
  BY DEF State, vars
<1> QED
  BY <1>1, Nobody_begins_in_the_same_orders DEF IInv, Step_right, Begins_rightly

LEMMA Next_keeps ==
  ASSUME IInv, [Next]_vars
  PROVE  Step_right
<1>1. CASE UNCHANGED vars
  BY <1>1, Stutter_keeps
<1>2. ASSUME NEW j \in Jobs, Job_call(j)
      PROVE  Step_right
  BY <1>2, Order_timed_call_keeps, Order_possibly_available_call_keeps, Task_closed_call_keeps,
     Calculated_next_time_do_something_call_keeps DEF Job_call
<1>3. ASSUME NEW t \in Tasks, Task_runs(t) \/ Next_order_step_call(t) \/ Task_idle_timeout_call(t)
      PROVE  Step_right
  BY <1>3, Step_ends_keeps, Step_throws_keeps, Try_next_step_call_keeps, Task_closes_keeps,
     Next_order_step_call_keeps, Task_idle_timeout_call_keeps DEF Task_runs
<1>4. CASE Time_passes
  BY <1>4, Time_passes_keeps
<1>5. ASSUME Commands
      PROVE  Step_right
  <2>1. {Zero, Future} \subseteq Times /\ InitialStates \subseteq Nodes
    BY Numbers, OrdersAssumption
  <2>2. ASSUME NEW o \in Orders, NEW at \in {Zero, Future},
               (\E n \in InitialStates : Add_order(o, n, at)) \/ Modify_at(o, at)
        PROVE  Step_right
    BY <2>1, <2>2, Add_order_keeps, Modify_at_keeps
  <2>3. ASSUME NEW o \in Orders,
               \/ \E old \in Orders : Replace_order(o, old)
               \/ Remove_order(o)
               \/ \E n \in Nodes \cup {End} : Modify_state(o, n)
               \/ Modify_setback(o)
               \/ \E b \in BOOLEAN : Modify_suspended(o, b)
        PROVE  Step_right
    BY <2>3, Replace_order_keeps, Remove_order_keeps, Modify_state_keeps, Modify_setback_keeps,
       Modify_suspended_keeps
  <2>4. ASSUME NEW n \in Nodes, NEW a \in Actions, Set_action(n, a)
        PROVE  Step_right
    BY <2>4, Set_action_keeps
  <2>5. ASSUME NEW b \in BOOLEAN, Set_stopped(b)
        PROVE  Step_right
    BY <2>5, Set_stopped_keeps
  <2>6. ASSUME NEW t \in Tasks,
               (\E n \in Nodes : Script_sets_state(t, n)) \/ Script_sets_back(t)
        PROVE  Step_right
    BY <2>6, Script_sets_state_keeps, Script_sets_back_keeps
  <2> QED BY <1>5, <2>2, <2>3, <2>4, <2>5, <2>6 DEF Commands, Actions
<1> QED
  BY <1>1, <1>2, <1>3, <1>4, <1>5 DEF Next

(* The inductive invariant holds: the types, the places of the orders in   *)
(* the queues, and the pairs of tasks and orders.                          *)
THEOREM IInv_always == Spec => []IInv
<1>1. IInv /\ [Next]_vars => IInv'
  BY Next_keeps DEF Step_right
<1> QED
  BY <1>1, Init_right, PTL DEF Spec

-----------------------------------------------------------------------------
(* Every variable has a value of its type. In particular an order is not   *)
(* set back more often than setback_max and the calls of scripts and       *)
(* commands allow (Order::setback, postprocessing).                        *)
THEOREM Type_correct == Spec => []TypeOK
<1>1. ASSUME IInv PROVE TypeOK
  <2>1. State \in States /\ commands \in 0 .. MaxCommands /\ MaxCommands \in Nat
    BY <1>1, IInv_parts
  <2>2. /\ order \in [Orders -> Order_objects] /\ queue \in [Nodes -> Seq(Orders)]
        /\ action \in [Nodes -> Actions] /\ stopped \in BOOLEAN /\ timed \in [Jobs -> Times]
        /\ calculated \in [Jobs -> Register_entries] /\ available \in [Jobs -> BOOLEAN]
        /\ closed \in [Jobs -> BOOLEAN] /\ task \in [Tasks -> Task_objects]
    BY <2>1 DEF State, States
  <2>3. \A n \in Nodes : Range(queue[n]) \subseteq Orders
    BY <2>2, Positions
  <2>4. ASSUME NEW o \in Orders
        PROVE  order[o].setback_count \in 0 .. (MaxSetbacks + MaxCommands + 1)
    <3>1. Count_right(order[o], commands)
      BY <1>1 DEF IInv, Right, Orders_right, State
    <3>2. order[o].setback_count \in Nat /\ MaxSetbacks \in Nat
      BY <2>2, OrdersAssumption DEF Order_objects
    <3> QED BY <2>1, <3>1, <3>2 DEF Count_right
  <2> DEFINE Bounded ==
        [node : Nodes \cup {Out, End}, initial : Nodes, setback : Zero..Never,
         setback_count : 0..(MaxSetbacks + MaxCommands + 1),
         setback_called : BOOLEAN, suspended : BOOLEAN, blacklisted : BOOLEAN,
         touched : BOOLEAN, moved : BOOLEAN, task : Tasks \cup {None},
         replacement_for : Orders \cup {None}]
  <2>5. ASSUME NEW o \in Orders PROVE order[o] \in Bounded
    <3>1. order[o] \in Order_objects
      BY <2>2
    <3> QED BY <2>4, <3>1 DEF Order_objects, Places, Times
  <2>6. order \in [Orders -> Bounded]
    <3> HIDE DEF Bounded
    <3> QED BY <2>2, <2>5
  <2> QED
    BY <1>1, <2>2, <2>3, <2>6 DEF IInv, TypeOK, Actions, Times, Task_objects
<1> QED
  BY <1>1, IInv_always, PTL

(* However an order is moved, suspended, set back, replaced or removed,    *)
(* also while a task has it: it stands once in the queue of its node, and  *)
(* in no other (Order::move_to_node, Order_queue::remove_order).           *)
THEOREM Orders_stay_in_their_queues == Spec => []Orders_are_in_their_queues
<1>1. ASSUME IInv PROVE Orders_are_in_their_queues
  <2> SUFFICES ASSUME NEW o \in Orders, NEW n \in Nodes
               PROVE  Cardinality({i \in DOMAIN queue[n] : queue[n][i] = o})
                        = IF order[o].node = n THEN 1 ELSE 0
    BY DEF Orders_are_in_their_queues
  <2> DEFINE places == {i \in DOMAIN queue[n] : queue[n][i] = o}
  <2>1. Is_distinct(queue[n]) /\ (o \in Range(queue[n]) <=> order[o].node = n)
    BY <1>1 DEF IInv, Right, Orders_right, Queues_right, Is_placed, State
  <2>2. CASE order[o].node = n
    <3>1. PICK i \in DOMAIN queue[n] : queue[n][i] = o
      BY <2>1, <2>2 DEF Range
    <3>2. places = {i}
      BY <2>1, <3>1 DEF Is_distinct
    <3> HIDE DEF places
    <3>3. Cardinality(places) = 1
      BY <3>2, FS_Singleton
    <3> QED BY <2>2, <3>3 DEF places
  <2>3. CASE order[o].node # n
    <3>1. places = {}
      BY <2>1, <2>3 DEF Range
    <3> HIDE DEF places
    <3>2. Cardinality(places) = 0
      BY <3>1, FS_EmptySet
    <3> QED BY <2>3, <3>2 DEF places
  <2> QED BY <2>2, <2>3
<1> QED
  BY <1>1, IInv_always, PTL

(* A task and its order know each other until the task is through with it, *)
(* whatever commands and scripts do to the order meanwhile, and an order   *)
(* that a script has moved is not occupied by another task (Order::_task,  *)
(* Task::_order).                                                          *)
THEOREM Orders_and_tasks_know_each_other == Spec => []Orders_and_tasks_agree
<1>1. IInv => Orders_and_tasks_agree
  BY DEF IInv, Right, Tasks_right, State, Orders_and_tasks_agree
<1> QED
  BY <1>1, IInv_always, PTL

(* An order that is to replace another one waits for one that has been     *)
(* removed and that a task has, so that somebody will release it           *)
(* (Order::set_replacement, close).                                        *)
THEOREM Replacements_are_released == Spec => []Replacements_wait_for_tasks
<1>1. IInv => Replacements_wait_for_tasks
  BY DEF IInv, Right, Orders_right, Replacements_right, State, Replacements_wait_for_tasks
<1> QED
  BY <1>1, IInv_always, PTL

(* Orders begin only as far as max_orders allows: whatever is moved, set   *)
(* back, suspended, replaced or removed, a call that leaves more orders in *)
(* the midst of the chain than it found leaves no more than max_orders,    *)
(* unless it brings back one that had reached the end                      *)
(* (Job_chain::is_max_orders_reached, Order_queue::fetch_order).           *)
THEOREM Max_orders_always_kept == Spec => Max_orders_is_kept
<1> DEFINE begun == Number_of_touched_orders(State)
           brought_back(o) == /\ order[o].touched /\ order[o].node = End
                              /\ order'[o].node \in Nodes
<1>1. ASSUME IInv, [Next]_vars, begun' > begun, begun' > config.max_orders
      PROVE  \E o \in Orders : brought_back(o)
  <2>1. Step_right
    BY <1>1, Next_keeps
  <2>2. Orders_right(State, commands) /\ Orders_right(State', commands')
    BY <1>1, <2>1 DEF IInv, Right, Step_right
  <2>3. /\ begun = Cardinality(Begun(State))
        /\ begun' = Cardinality(Begun(State'))
    <3>1. begun' = Number_of_touched_orders(State')
      BY DEF Number_of_touched_orders, Is_queued
    <3> QED BY <2>2, <3>1, Begun_orders
  <2>4. /\ IsFiniteSet(Begun(State)) /\ begun \in Nat
        /\ IsFiniteSet(Begun(State')) /\ begun' \in Nat
    <3>1. IsFiniteSet(Orders)
      BY OrdersAssumption
    <3>2. Begun(State) \subseteq Orders /\ Begun(State') \subseteq Orders
      BY DEF Begun
    <3>3. IsFiniteSet(Begun(State)) /\ IsFiniteSet(Begun(State'))
      BY <3>1, <3>2, FS_Subset
    <3> HIDE DEF begun
    <3> QED BY <2>3, <3>3, FS_CardinalityType
  <2>5. config.max_orders \in Nat
    BY <1>1, IInv_parts, OrdersAssumption
  <2> HIDE DEF begun
  <2>6. ~Begins_within_limit(State, State')
    BY <1>1, <2>3, <2>4, <2>5 DEF Begins_within_limit
  <2>7. Nobody_begins(State, State')
    BY <2>1, <2>6 DEF Step_right, Begins_rightly
  <2>8. ~(Begun(State') \subseteq Begun(State))
    <3>1. Begun(State') \subseteq Begun(State) => Cardinality(Begun(State')) <= Cardinality(Begun(State))
      BY <2>4, FS_Subset
    <3> QED BY <1>1, <2>3, <2>4, <3>1
  <2>9. PICK o \in Orders : o \in Begun(State') /\ o \notin Begun(State)
    BY <2>8 DEF Begun
  <2>10. order'[o].touched /\ order'[o].node \in Nodes
    BY <2>9 DEF Begun, State
  <2>11. order[o].touched /\ order[o].node # Out
    <3>1. order'[o].node # Out
      BY <2>10, Numbers
    <3> QED BY <2>7, <2>10, <3>1 DEF Nobody_begins, Begun_before, State
  <2>12. order[o].node = End
    <3>1. order[o].node \in Places /\ order[o].node \notin Nodes
      <4>1. order[o] \in Order_objects
        BY <1>1, IInv_parts DEF State, States
      <4> QED BY <2>9, <2>11, <4>1 DEF Begun, State, Order_objects
    <3> QED BY <2>11, <3>1 DEF Places
  <2> QED BY <2>10, <2>11, <2>12
<1>2. IInv /\ [Next]_vars =>
    [LET count == Number_of_touched_orders(State)
         next  == Number_of_touched_orders(State)'
     IN next > count /\ next > config.max_orders
        => \E o \in Orders : /\ order[o].touched /\ order[o].node = End
                            /\ order'[o].node \in Nodes]_vars
  BY <1>1
<1> QED
  BY <1>2, IInv_always, PTL DEF Spec, Max_orders_is_kept
================================================================================

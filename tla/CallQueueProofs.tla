---------------------------- MODULE CallQueueProofs ----------------------------
(***************************************************************************)
(* Proofs about CallQueue for any jobs, tasks and times: the registers     *)
(* agree with the queue, which is in the order of time, and the main       *)
(* thread sleeps through no call.                                          *)
(***************************************************************************)
EXTENDS CallQueue, SequenceTheorems, FiniteSetTheorems, WellFoundedInduction, TLAPS

Calls        == [entry : Entries \cup Foreign_calls, at : 0 .. Max_time]
Queued_tasks == [task : Tasks, start_at : 0 .. Max_time]
States       == {"none", "queued", "killed", "running", "completed", "closed", "ended"}

-----------------------------------------------------------------------------
(* Lists.                                                                  *)

Elements(list) == {list[i] : i \in DOMAIN list}

(* A non-empty set of positions has a first one.                           *)
LEMMA First_of_positions ==
  ASSUME NEW I, I \subseteq Nat, I # {}
  PROVE  First_of(I) \in I /\ \A k \in I : First_of(I) <= k
<1>1. PICK i \in I : \A k \in I : <<k, i>> \notin OpToRel(<, Nat)
  BY WFMin, NatLessThanWellFounded
<1>2. \A k \in I : ~(k < i)
  BY <1>1 DEF OpToRel
<1>3. \A k \in I : i <= k
  BY <1>2
<1> QED
  BY <1>3 DEF First_of

(* insert moves the elements behind the position by one.                   *)
LEMMA Inserted_list ==
  ASSUME NEW S, NEW list \in Seq(S), NEW i \in 1 .. Len(list) + 1, NEW x \in S
  PROVE  /\ Inserted(list, i, x) \in Seq(S)
         /\ DOMAIN Inserted(list, i, x) = 1 .. Len(list) + 1
         /\ \A k \in 1 .. Len(list) + 1 :
              Inserted(list, i, x)[k] = IF k < i THEN list[k] ELSE IF k = i THEN x ELSE list[k - 1]
         /\ Elements(Inserted(list, i, x)) = Elements(list) \cup {x}
<1> DEFINE a == SubSeq(list, 1, i - 1)
           b == SubSeq(list, i, Len(list))
<1>1. Len(list) \in Nat /\ DOMAIN list = 1 .. Len(list)
  BY LenProperties
<1>2. a \in Seq(S) /\ Len(a) = i - 1 /\ \A k \in 1 .. i - 1 : a[k] = list[k]
  <2>1. \A k \in 1 .. i - 1 : list[k] \in S
    BY <1>1, ElementOfSeq
  <2> QED
    BY <1>1, <2>1, SubSeqProperties
<1>3. b \in Seq(S) /\ Len(b) = Len(list) + 1 - i /\ \A k \in 1 .. Len(list) + 1 - i : b[k] = list[i + k - 1]
  <2>1. \A k \in i .. Len(list) : list[k] \in S
    BY <1>1, ElementOfSeq
  <2> QED
    BY <1>1, <2>1, SubSeqProperties
<1> HIDE DEF a, b
<1>4. <<x>> \in Seq(S) /\ Len(<<x>>) = 1 /\ <<x>>[1] = x
  OBVIOUS
<1>5. /\ a \o <<x>> \in Seq(S) /\ Len(a \o <<x>>) = i
      /\ \A k \in 1 .. i : (a \o <<x>>)[k] = IF k < i THEN list[k] ELSE x
  BY <1>1, <1>2, <1>4, ConcatProperties
<1>6. /\ a \o <<x>> \o b \in Seq(S) /\ Len(a \o <<x>> \o b) = Len(list) + 1
      /\ \A k \in 1 .. Len(list) + 1 :
           (a \o <<x>> \o b)[k] = IF k < i THEN list[k] ELSE IF k = i THEN x ELSE list[k - 1]
  <2> DEFINE c == a \o <<x>>
  <2>1. c \in Seq(S) /\ Len(c) = i /\ \A k \in 1 .. i : c[k] = IF k < i THEN list[k] ELSE x
    BY <1>5
  <2> HIDE DEF c
  <2>2. /\ c \o b \in Seq(S) /\ Len(c \o b) = Len(c) + Len(b)
        /\ \A k \in 1 .. Len(c) + Len(b) : (c \o b)[k] = IF k <= Len(c) THEN c[k] ELSE b[k - Len(c)]
    BY <1>3, <2>1, ConcatProperties
  <2>3. Len(c) + Len(b) = Len(list) + 1
    BY <1>1, <1>3, <2>1
  <2>4. ASSUME NEW k \in 1 .. Len(list) + 1
        PROVE  (c \o b)[k] = IF k < i THEN list[k] ELSE IF k = i THEN x ELSE list[k - 1]
    <3>1. CASE k <= i
      BY <1>1, <2>1, <2>2, <2>3, <3>1
    <3>2. CASE k > i
      <4>1. k - i \in 1 .. Len(list) + 1 - i /\ (c \o b)[k] = b[k - i]
        BY <1>1, <2>1, <2>2, <2>3, <3>2
      <4>2. b[k - i] = list[i + (k - i) - 1] /\ i + (k - i) - 1 = k - 1
        BY <1>1, <1>3, <4>1
      <4>3. (c \o b)[k] = list[k - 1]
        BY <4>1, <4>2
      <4> QED BY <1>1, <3>2, <4>3
    <3>3. k <= i \/ k > i
      BY <1>1
    <3> QED BY <3>1, <3>2, <3>3
  <2> QED BY <2>2, <2>3, <2>4 DEF c
<1>7. Inserted(list, i, x) = a \o <<x>> \o b
  BY DEF Inserted, a, b
<1>8. DOMAIN (a \o <<x>> \o b) = 1 .. Len(list) + 1
  BY <1>6, LenProperties
<1>9. ASSUME NEW q, DOMAIN q = 1 .. Len(list) + 1,
             \A k \in 1 .. Len(list) + 1 : q[k] = IF k < i THEN list[k] ELSE IF k = i THEN x ELSE list[k - 1]
      PROVE  Elements(q) = Elements(list) \cup {x}
  <2>1. ASSUME NEW k \in 1 .. Len(list) PROVE \E n \in DOMAIN q : q[n] = list[k]
    <3>1. CASE k < i
      BY <1>1, <1>9, <3>1
    <3>2. CASE k >= i
      <4>1. k + 1 \in DOMAIN q /\ q[k + 1] = list[k]
        BY <1>1, <1>9, <3>2
      <4> QED BY <4>1
    <3> QED BY <3>1, <3>2, <1>1
  <2>2. q[i] = x /\ i \in DOMAIN q
    BY <1>1, <1>9
  <2>3. \A k \in DOMAIN q : q[k] = x \/ \E n \in 1 .. Len(list) : q[k] = list[n]
    BY <1>1, <1>9
  <2> QED BY <1>1, <2>1, <2>2, <2>3 DEF Elements
<1> QED
  BY <1>6, <1>7, <1>8, <1>9

(* remove moves the elements behind the position by one.                   *)
LEMMA Erased_list ==
  ASSUME NEW S, NEW list \in Seq(S), NEW I, I \subseteq DOMAIN list, I # {}
  PROVE  /\ First_of(I) \in I
         /\ Erased(list, I) \in Seq(S)
         /\ DOMAIN Erased(list, I) = 1 .. Len(list) - 1
         /\ \A k \in 1 .. Len(list) - 1 :
              Erased(list, I)[k] = IF k < First_of(I) THEN list[k] ELSE list[k + 1]
<1> DEFINE i == First_of(I)
           a == SubSeq(list, 1, i - 1)
           b == SubSeq(list, i + 1, Len(list))
<1>1. Len(list) \in Nat /\ DOMAIN list = 1 .. Len(list)
  BY LenProperties
<1>2. I \subseteq Nat
  BY <1>1
<1>3. i \in I /\ i \in 1 .. Len(list)
  BY <1>1, <1>2, First_of_positions
<1>4. Erased(list, I) = a \o b
  BY DEF Erased
<1> HIDE DEF i
<1>5. a \in Seq(S) /\ Len(a) = i - 1 /\ \A k \in 1 .. i - 1 : a[k] = list[k]
  <2>1. \A k \in 1 .. i - 1 : list[k] \in S
    BY <1>1, <1>3, ElementOfSeq
  <2> QED
    BY <1>1, <1>3, <2>1, SubSeqProperties
<1>6. b \in Seq(S) /\ Len(b) = Len(list) - i /\ \A k \in 1 .. Len(list) - i : b[k] = list[i + k]
  <2>1. \A k \in i + 1 .. Len(list) : list[k] \in S
    BY <1>1, <1>3, ElementOfSeq
  <2> QED
    BY <1>1, <1>3, <2>1, SubSeqProperties
<1> HIDE DEF a, b
<1>7. /\ a \o b \in Seq(S) /\ Len(a \o b) = Len(list) - 1
      /\ \A k \in 1 .. Len(list) - 1 : (a \o b)[k] = IF k < i THEN list[k] ELSE list[k + 1]
  <2>1. /\ a \o b \in Seq(S) /\ Len(a \o b) = Len(a) + Len(b)
        /\ \A k \in 1 .. Len(a) + Len(b) : (a \o b)[k] = IF k <= Len(a) THEN a[k] ELSE b[k - Len(a)]
    BY <1>5, <1>6, ConcatProperties
  <2>2. Len(a) + Len(b) = Len(list) - 1
    BY <1>1, <1>3, <1>5, <1>6
  <2>3. ASSUME NEW k \in 1 .. Len(list) - 1
        PROVE  (a \o b)[k] = IF k < i THEN list[k] ELSE list[k + 1]
    <3>1. CASE k < i
      BY <1>1, <1>3, <1>5, <2>1, <2>2, <3>1
    <3>2. CASE k >= i
      <4>1. k - (i - 1) \in 1 .. Len(list) - i /\ (a \o b)[k] = b[k - (i - 1)]
        <5>1. k \in Nat /\ k >= 1 /\ k <= Len(list) - 1 /\ i \in Nat /\ Len(list) \in Nat
          BY <1>1, <1>3
        <5>2. k - (i - 1) \in 1 .. Len(list) - i
          BY <3>2, <5>1
        <5>3. k \in 1 .. Len(a) + Len(b) /\ ~(k <= Len(a)) /\ k - Len(a) = k - (i - 1)
          BY <1>5, <2>2, <3>2, <5>1
        <5> QED BY <2>1, <5>2, <5>3
      <4>2. b[k - (i - 1)] = list[i + (k - (i - 1))] /\ i + (k - (i - 1)) = k + 1
        BY <1>1, <1>3, <1>6, <4>1
      <4>3. (a \o b)[k] = list[k + 1]
        BY <4>1, <4>2
      <4> QED BY <1>1, <1>3, <3>2, <4>3
    <3>3. k < i \/ k >= i
      BY <1>1, <1>3
    <3> QED BY <3>1, <3>2, <3>3
  <2> QED BY <2>1, <2>2, <2>3
<1>8. DOMAIN (a \o b) = 1 .. Len(list) - 1
  BY <1>7, LenProperties
<1> QED
  BY <1>3, <1>4, <1>7, <1>8 DEF i

(* The first element goes.                                                 *)
LEMMA Tail_list ==
  ASSUME NEW S, NEW list \in Seq(S), list # <<>>
  PROVE  /\ Tail(list) \in Seq(S)
         /\ DOMAIN Tail(list) = 1 .. Len(list) - 1
         /\ \A k \in 1 .. Len(list) - 1 : Tail(list)[k] = list[k + 1]
         /\ Head(list) = list[1] /\ 1 \in DOMAIN list
<1>1. Len(list) \in Nat \ {0} /\ DOMAIN list = 1 .. Len(list)
  BY LenProperties, EmptySeq
<1> QED
  BY <1>1, HeadTailProperties, LenProperties

-----------------------------------------------------------------------------
(* The queue of calls.                                                     *)

(* The queue is in the order of time, and has at most one call of an entry. *)
In_order(q) ==
  \A i, k \in DOMAIN q : i < k => q[i].at <= q[k].at /\ q[i].entry # q[k].entry

(* tryCancel leaves the other calls in their order.                        *)
LEMMA Cancelled_queue ==
  ASSUME NEW q \in Seq(Calls), In_order(q), NEW e
  PROVE  /\ Cancelled(q, e) \in Seq(Calls) /\ In_order(Cancelled(q, e))
         /\ \A c \in Elements(Cancelled(q, e)) : c \in Elements(q) /\ c.entry # e
<1> DEFINE I == {i \in DOMAIN q : q[i].entry = e}
           p == Erased(q, I)
<1>1. Len(q) \in Nat /\ DOMAIN q = 1 .. Len(q)
  BY LenProperties
<1>2. CASE I = {}
  BY <1>2 DEF Cancelled, Erased, Elements
<1>3. CASE I # {}
  <2>1. /\ First_of(I) \in I /\ p \in Seq(Calls) /\ DOMAIN p = 1 .. Len(q) - 1
        /\ \A k \in 1 .. Len(q) - 1 : p[k] = IF k < First_of(I) THEN q[k] ELSE q[k + 1]
    BY <1>3, Erased_list
  <2>2. First_of(I) \in DOMAIN q /\ q[First_of(I)].entry = e
    BY <2>1
  <2>3. p = Cancelled(q, e)
    BY DEF Cancelled
  <2> HIDE DEF I, p
  <2>4. ASSUME NEW i \in DOMAIN p, NEW k \in DOMAIN p, i < k
        PROVE  p[i].at <= p[k].at /\ p[i].entry # p[k].entry
    <3> DEFINE n == First_of(I)
    <3>1. i \in 1 .. Len(q) - 1 /\ k \in 1 .. Len(q) - 1 /\ n \in 1 .. Len(q)
      BY <1>1, <2>1, <2>2
    <3> HIDE DEF n
    <3>2. CASE k < n
      <4>1. p[i] = q[i] /\ p[k] = q[k] /\ i \in DOMAIN q /\ k \in DOMAIN q
        BY <1>1, <2>1, <2>4, <3>1, <3>2 DEF n
      <4> QED BY <2>4, <4>1 DEF In_order
    <3>3. CASE k >= n /\ i < n
      <4>1. p[i] = q[i] /\ p[k] = q[k + 1] /\ i \in DOMAIN q /\ k + 1 \in DOMAIN q /\ i < k + 1
        BY <1>1, <2>1, <2>4, <3>1, <3>3 DEF n
      <4> QED BY <4>1 DEF In_order
    <3>4. CASE k >= n /\ i >= n
      <4>1. /\ p[i] = q[i + 1] /\ p[k] = q[k + 1] /\ i + 1 \in DOMAIN q /\ k + 1 \in DOMAIN q
            /\ i + 1 < k + 1
        BY <1>1, <2>1, <2>4, <3>1, <3>4 DEF n
      <4> QED BY <4>1 DEF In_order
    <3>5. k < n \/ (k >= n /\ (i < n \/ i >= n))
      BY <3>1
    <3> QED BY <3>2, <3>3, <3>4, <3>5
  <2>5. ASSUME NEW k \in DOMAIN p PROVE p[k] \in Elements(q) /\ p[k].entry # e
    <3>1. CASE k < First_of(I)
      BY <1>1, <2>1, <2>2, <3>1 DEF In_order, Elements
    <3>2. CASE k >= First_of(I)
      <4>1. p[k] = q[k + 1] /\ k + 1 \in DOMAIN q /\ First_of(I) < k + 1
        BY <1>1, <2>1, <2>2, <3>2
      <4> QED BY <2>2, <4>1 DEF In_order, Elements
    <3>3. k < First_of(I) \/ k >= First_of(I)
      BY <1>1, <2>1, <2>2
    <3> QED BY <3>1, <3>2, <3>3
  <2> QED BY <2>1, <2>3, <2>4, <2>5 DEF Elements, In_order
<1> QED BY <1>2, <1>3

(* The calls before positionAfter are not later, those behind are.         *)
LEMMA Position_after ==
  ASSUME NEW q \in Seq(Calls), In_order(q), NEW at \in 0 .. Max_time
  PROVE  /\ positionAfter(q, at) \in 1 .. Len(q) + 1
         /\ \A k \in DOMAIN q : k < positionAfter(q, at) => q[k].at <= at
         /\ \A k \in DOMAIN q : k >= positionAfter(q, at) => q[k].at > at
<1> DEFINE I == {i \in DOMAIN q : q[i].at > at} \cup {Len(q) + 1}
           n == First_of(I)
<1>1. Len(q) \in Nat /\ DOMAIN q = 1 .. Len(q) /\ Max_time \in Nat
  BY LenProperties, CallQueueAssumption
<1>2. \A k \in DOMAIN q : q[k].at \in Nat
  <2>1. \A k \in DOMAIN q : q[k] \in Calls
    BY <1>1, ElementOfSeq
  <2> QED BY <1>1, <2>1 DEF Calls
<1>3. n \in I /\ \A k \in I : n <= k
  <2>1. I \subseteq Nat /\ I # {}
    BY <1>1
  <2> HIDE DEF I
  <2> QED BY <2>1, First_of_positions
<1>4. n = positionAfter(q, at)
  BY DEF positionAfter
<1>5. n \in 1 .. Len(q) + 1
  BY <1>1, <1>3
<1>6. \A k \in DOMAIN q : k < n => k \notin I
  <2> HIDE DEF n, I
  <2> QED BY <1>1, <1>3, <1>5
<1>7. \A k \in DOMAIN q : k < n => q[k].at <= at
  BY <1>1, <1>2, <1>6
<1>8. ASSUME NEW k \in DOMAIN q, k >= n PROVE q[k].at > at
  <2>1. n \in DOMAIN q
    BY <1>1, <1>5, <1>8
  <2>2. q[n].at > at
    BY <1>1, <1>3, <2>1
  <2>3. q[n].at <= q[k].at
    <3> HIDE DEF n, I
    <3>1. n < k \/ n = k
      BY <1>1, <1>5, <1>8
    <3> QED BY <1>2, <2>1, <3>1 DEF In_order
  <2> HIDE DEF n, I
  <2> QED BY <1>1, <1>2, <2>1, <2>2, <2>3
<1> HIDE DEF n, I
<1> QED BY <1>4, <1>5, <1>7, <1>8

(* add keeps the order.                                                    *)
LEMMA Added_queue ==
  ASSUME NEW q \in Seq(Calls), In_order(q), NEW e \in Entries \cup Foreign_calls,
         NEW at \in 0 .. Max_time, \A c \in Elements(q) : c.entry # e
  PROVE  /\ Added(q, e, at) \in Seq(Calls) /\ In_order(Added(q, e, at))
         /\ Elements(Added(q, e, at)) = Elements(q) \cup {[entry |-> e, at |-> at]}
<1> DEFINE n == positionAfter(q, at)
           x == [entry |-> e, at |-> at]
           p == Inserted(q, n, x)
<1>1. Len(q) \in Nat /\ DOMAIN q = 1 .. Len(q) /\ Max_time \in Nat
  BY LenProperties, CallQueueAssumption
<1>2. \A k \in DOMAIN q : q[k].at \in Nat
  <2>1. \A k \in DOMAIN q : q[k] \in Calls
    BY <1>1, ElementOfSeq
  <2> QED BY <1>1, <2>1 DEF Calls
<1>3. /\ n \in 1 .. Len(q) + 1
      /\ \A k \in DOMAIN q : k < n => q[k].at <= at
      /\ \A k \in DOMAIN q : k >= n => q[k].at > at
  BY Position_after
<1>4. x \in Calls /\ x.entry = e /\ x.at = at
  BY DEF Calls
<1>5. \A k \in DOMAIN q : q[k].entry # e
  BY DEF Elements
<1>6. p = Added(q, e, at)
  BY DEF Added
<1> HIDE DEF n, x
<1>7. /\ p \in Seq(Calls) /\ DOMAIN p = 1 .. Len(q) + 1
      /\ \A k \in 1 .. Len(q) + 1 : p[k] = IF k < n THEN q[k] ELSE IF k = n THEN x ELSE q[k - 1]
      /\ Elements(p) = Elements(q) \cup {x}
  BY <1>3, <1>4, Inserted_list
<1> HIDE DEF p
<1>8. ASSUME NEW i \in DOMAIN p, NEW k \in DOMAIN p, i < k
      PROVE  p[i].at <= p[k].at /\ p[i].entry # p[k].entry
  <2>0. i \in 1 .. Len(q) + 1 /\ k \in 1 .. Len(q) + 1 /\ n \in Int
    BY <1>3, <1>7
  <2>1. CASE k < n
    <3>1. p[i] = q[i] /\ p[k] = q[k] /\ i \in DOMAIN q /\ k \in DOMAIN q
      BY <1>1, <1>3, <1>7, <1>8, <2>0, <2>1
    <3> QED BY <1>8, <3>1 DEF In_order
  <2>2. CASE k = n
    <3>1. p[i] = q[i] /\ p[k] = x /\ i \in DOMAIN q
      BY <1>1, <1>3, <1>7, <1>8, <2>0, <2>2
    <3> QED BY <1>3, <1>4, <1>5, <1>8, <2>2, <3>1
  <2>3. CASE k > n /\ i < n
    <3>1. p[i] = q[i] /\ p[k] = q[k - 1] /\ i \in DOMAIN q /\ k - 1 \in DOMAIN q /\ i < k - 1
      BY <1>1, <1>3, <1>7, <1>8, <2>0, <2>3
    <3> QED BY <3>1 DEF In_order
  <2>4. CASE k > n /\ i = n
    <3>1. p[i] = x /\ p[k] = q[k - 1] /\ k - 1 \in DOMAIN q /\ k - 1 >= n
      BY <1>1, <1>3, <1>7, <1>8, <2>0, <2>4
    <3>2. q[k - 1].at > at /\ q[k - 1].at \in Nat /\ q[k - 1].entry # e /\ at \in Int
      BY <1>1, <1>2, <1>3, <1>5, <3>1
    <3> QED BY <1>4, <3>1, <3>2
  <2>5. CASE k > n /\ i > n
    <3>1. p[i] = q[i - 1] /\ p[k] = q[k - 1] /\ i - 1 \in DOMAIN q /\ k - 1 \in DOMAIN q /\ i - 1 < k - 1
      BY <1>1, <1>3, <1>7, <1>8, <2>0, <2>5
    <3> QED BY <3>1 DEF In_order
  <2>6. k < n \/ k = n \/ (k > n /\ (i < n \/ i = n \/ i > n))
    BY <2>0
  <2> QED BY <2>1, <2>2, <2>3, <2>4, <2>5, <2>6
<1> QED BY <1>6, <1>7, <1>8 DEF In_order, x

(* popMature removes the first call.                                       *)
LEMMA Tail_queue ==
  ASSUME NEW q \in Seq(Calls), In_order(q), q # <<>>
  PROVE  /\ Tail(q) \in Seq(Calls) /\ In_order(Tail(q))
         /\ \A c \in Elements(Tail(q)) : c \in Elements(q) /\ c.entry # Head(q).entry
         /\ Head(q) \in Elements(q)
<1>1. /\ Tail(q) \in Seq(Calls) /\ DOMAIN Tail(q) = 1 .. Len(q) - 1
      /\ \A k \in 1 .. Len(q) - 1 : Tail(q)[k] = q[k + 1]
      /\ Head(q) = q[1] /\ 1 \in DOMAIN q
  BY Tail_list
<1>2. Len(q) \in Nat /\ DOMAIN q = 1 .. Len(q)
  BY LenProperties
<1>3. \A k \in DOMAIN Tail(q) : k + 1 \in DOMAIN q /\ 1 < k + 1 /\ Tail(q)[k] = q[k + 1]
  BY <1>1, <1>2
<1>4. In_order(Tail(q))
  BY <1>1, <1>2, <1>3 DEF In_order
<1> QED
  BY <1>1, <1>3, <1>4 DEF Elements, In_order

-----------------------------------------------------------------------------
(* The registers.                                                          *)

(* A queue with the registers of its calls.                                *)
Queue_right(q, registers) ==
  /\ q \in Seq(Calls) /\ In_order(q)
  /\ registers \in [Entries -> 0 .. Never]
  /\ \A c \in Elements(q) : c.entry \in Entries => c.at = registers[c.entry]

LEMMA Times ==
  /\ Max_time \in Nat /\ Never \in Nat /\ 0 \in 0 .. Max_time
  /\ \A at \in 0 .. Max_time : at \in 0 .. Never
  /\ Never \in 0 .. Never
  /\ \A at \in 0 .. Never : at # Never => at \in 0 .. Max_time
BY CallQueueAssumption DEF Never

(* Calls of other threads are in no register.                              *)
LEMMA Entries_differ == Entries \cap Foreign_calls = {}
BY DEF Entries, Foreign_calls

(* Typed_call_register::cancel_id.                                         *)
LEMMA Cancelled_right ==
  ASSUME NEW q, Queue_right(q, registered), NEW e \in Entries, NEW at \in 0 .. Never
  PROVE  Queue_right(Cancelled(q, e), [registered EXCEPT ![e] = at])
BY Cancelled_queue DEF Queue_right

(* Typed_call_register::enqueue_id.                                        *)
LEMMA enqueue_id_right ==
  ASSUME NEW q, Queue_right(q, registered), NEW e \in Entries, NEW at \in 0 .. Max_time,
         enqueue_id(q, e, at)
  PROVE  /\ Queue_right(queue', registered')
         /\ \A c \in Elements(queue') : c.entry # e => c \in Elements(q)
<1> DEFINE p == Cancelled(q, e)
<1>1. /\ p \in Seq(Calls) /\ In_order(p)
      /\ \A c \in Elements(p) : c \in Elements(q) /\ c.entry # e
  BY Cancelled_queue DEF Queue_right
<1>2. queue' = Added(p, e, at) /\ registered' = [registered EXCEPT ![e] = at]
  BY DEF enqueue_id
<1>3. Queue_right(p, registered')
  BY <1>2, Times, Cancelled_right
<1> HIDE DEF p
<1>4. /\ queue' \in Seq(Calls) /\ In_order(queue')
      /\ Elements(queue') = Elements(p) \cup {[entry |-> e, at |-> at]}
  BY <1>1, <1>2, Added_queue
<1>5. registered'[e] = at
  BY <1>2 DEF Queue_right
<1> QED
  BY <1>1, <1>3, <1>4, <1>5 DEF Queue_right

(* typed_call_register::call_at.                                           *)
LEMMA call_at_right ==
  ASSUME NEW q, Queue_right(q, registered), NEW e \in Entries, NEW at \in 0 .. Never,
         call_at(q, e, at), signaled \in BOOLEAN
  PROVE  /\ Queue_right(queue', registered') /\ signaled' \in BOOLEAN
         /\ \A c \in Elements(queue') : c.entry # e => c \in Elements(q)
<1>1. CASE at = registered[e]
  BY <1>1 DEF call_at
<1>2. CASE at # registered[e] /\ at = Never
  <2>1. queue' = Cancelled(q, e) /\ registered' = [registered EXCEPT ![e] = Never] /\ UNCHANGED signaled
    BY <1>2 DEF call_at
  <2>2. \A c \in Elements(queue') : c \in Elements(q)
    BY <2>1, Cancelled_queue DEF Queue_right
  <2> QED
    BY <2>1, <2>2, Times, Cancelled_right
<1>3. CASE at # registered[e] /\ at # Never
  BY <1>3, Times, enqueue_id_right DEF call_at
<1> QED
  BY <1>1, <1>2, <1>3

-----------------------------------------------------------------------------
(* The task queues of jobs.                                                *)

Are_distinct(tasks) == \A i, k \in DOMAIN tasks : tasks[i].task = tasks[k].task => i = k

(* Task_queue::enqueue_task.                                               *)
LEMMA Enqueued_tasks ==
  ASSUME NEW tasks \in Seq(Queued_tasks), Are_distinct(tasks), NEW t \in Tasks,
         NEW at \in 0 .. Max_time, \A x \in Elements(tasks) : x.task # t
  PROVE  /\ Enqueued(tasks, t, at) \in Seq(Queued_tasks) /\ Are_distinct(Enqueued(tasks, t, at))
         /\ Elements(Enqueued(tasks, t, at)) = Elements(tasks) \cup {[task |-> t, start_at |-> at]}
<1> DEFINE I == {i \in DOMAIN tasks : tasks[i].start_at > at} \cup {Len(tasks) + 1}
           n == First_of(I)
           x == [task |-> t, start_at |-> at]
           p == Inserted(tasks, n, x)
<1>1. Len(tasks) \in Nat /\ DOMAIN tasks = 1 .. Len(tasks)
  BY LenProperties
<1>2. n \in 1 .. Len(tasks) + 1
  <2>1. I \subseteq 1 .. Len(tasks) + 1 /\ I # {} /\ I \subseteq Nat
    BY <1>1
  <2> HIDE DEF I
  <2> QED BY <2>1, First_of_positions
<1>3. p = Enqueued(tasks, t, at)
  BY DEF Enqueued
<1>4. x \in Queued_tasks /\ x.task = t
  BY DEF Queued_tasks
<1>5. \A k \in DOMAIN tasks : tasks[k].task # t
  BY DEF Elements
<1> HIDE DEF n, x
<1>6. /\ p \in Seq(Queued_tasks) /\ DOMAIN p = 1 .. Len(tasks) + 1
      /\ \A k \in 1 .. Len(tasks) + 1 :
           p[k] = IF k < n THEN tasks[k] ELSE IF k = n THEN x ELSE tasks[k - 1]
      /\ Elements(p) = Elements(tasks) \cup {x}
  BY <1>2, <1>4, Inserted_list
<1> HIDE DEF p
<1>7. ASSUME NEW i \in DOMAIN p, NEW k \in DOMAIN p, i < k
      PROVE  p[i].task # p[k].task
  <2>0. i \in 1 .. Len(tasks) + 1 /\ k \in 1 .. Len(tasks) + 1 /\ n \in Int
    BY <1>2, <1>6
  <2>1. CASE k < n
    <3>1. p[i] = tasks[i] /\ p[k] = tasks[k] /\ i \in DOMAIN tasks /\ k \in DOMAIN tasks /\ i # k
      BY <1>1, <1>2, <1>6, <1>7, <2>0, <2>1
    <3> QED BY <3>1 DEF Are_distinct
  <2>2. CASE k = n
    <3>1. p[i] = tasks[i] /\ p[k] = x /\ i \in DOMAIN tasks
      BY <1>1, <1>2, <1>6, <1>7, <2>0, <2>2
    <3> QED BY <1>4, <1>5, <3>1
  <2>3. CASE k > n /\ i < n
    <3>1. p[i] = tasks[i] /\ p[k] = tasks[k - 1] /\ i \in DOMAIN tasks /\ k - 1 \in DOMAIN tasks /\ i # k - 1
      BY <1>1, <1>2, <1>6, <1>7, <2>0, <2>3
    <3> QED BY <3>1 DEF Are_distinct
  <2>4. CASE k > n /\ i = n
    <3>1. p[i] = x /\ p[k] = tasks[k - 1] /\ k - 1 \in DOMAIN tasks
      BY <1>1, <1>2, <1>6, <1>7, <2>0, <2>4
    <3> QED BY <1>4, <1>5, <3>1
  <2>5. CASE k > n /\ i > n
    <3>1. /\ p[i] = tasks[i - 1] /\ p[k] = tasks[k - 1] /\ i - 1 \in DOMAIN tasks /\ k - 1 \in DOMAIN tasks
          /\ i - 1 # k - 1
      BY <1>1, <1>2, <1>6, <1>7, <2>0, <2>5
    <3> QED BY <3>1 DEF Are_distinct
  <2>6. k < n \/ k = n \/ (k > n /\ (i < n \/ i = n \/ i > n))
    BY <2>0
  <2> QED BY <2>1, <2>2, <2>3, <2>4, <2>5, <2>6
<1>8. \A i, k \in DOMAIN p : i < k \/ i = k \/ k < i
  BY <1>1, <1>6
<1> QED BY <1>3, <1>6, <1>7, <1>8 DEF Are_distinct, x

(* Task_queue::remove_task.                                                *)
Positions_of(tasks, t) == {i \in DOMAIN tasks : tasks[i].task = t}

LEMMA Killed_tasks ==
  ASSUME NEW tasks \in Seq(Queued_tasks), Are_distinct(tasks), NEW t, NEW left,
         left = Erased(tasks, Positions_of(tasks, t))
  PROVE  /\ left \in Seq(Queued_tasks) /\ Are_distinct(left)
         /\ \A x \in Elements(left) : x \in Elements(tasks) /\ x.task # t
<1> DEFINE I == Positions_of(tasks, t)
           n == First_of(I)
<1>1. Len(tasks) \in Nat /\ DOMAIN tasks = 1 .. Len(tasks)
  BY LenProperties
<1>2. CASE I = {}
  BY <1>2 DEF Erased, Elements, Positions_of
<1>3. CASE I # {}
  <2>1. /\ n \in I /\ left \in Seq(Queued_tasks) /\ DOMAIN left = 1 .. Len(tasks) - 1
        /\ \A k \in 1 .. Len(tasks) - 1 : left[k] = IF k < n THEN tasks[k] ELSE tasks[k + 1]
    <3>1. I \subseteq DOMAIN tasks
      BY DEF Positions_of
    <3> QED BY <1>3, <3>1, Erased_list
  <2>2. n \in DOMAIN tasks /\ tasks[n].task = t /\ n \in 1 .. Len(tasks)
    BY <1>1, <2>1 DEF Positions_of
  <2> HIDE DEF I, n
  <2> DEFINE f == [k \in 1 .. Len(tasks) - 1 |-> IF k < n THEN k ELSE k + 1]
  <2>3. ASSUME NEW k \in DOMAIN left
        PROVE  left[k] = tasks[f[k]] /\ f[k] \in DOMAIN tasks /\ f[k] # n
    BY <1>1, <2>1, <2>2
  <2>4. \A i, k \in DOMAIN left : f[i] = f[k] => i = k
    BY <1>1, <2>1, <2>2
  <2> HIDE DEF f
  <2>5. Are_distinct(left)
    <3> SUFFICES ASSUME NEW i \in DOMAIN left, NEW k \in DOMAIN left, left[i].task = left[k].task
                 PROVE  i = k
      BY DEF Are_distinct
    <3>1. tasks[f[i]].task = tasks[f[k]].task /\ f[i] \in DOMAIN tasks /\ f[k] \in DOMAIN tasks
      BY <2>3
    <3>2. f[i] = f[k]
      BY <3>1 DEF Are_distinct
    <3> QED BY <2>4, <3>2
  <2>6. \A k \in DOMAIN left : left[k] \in Elements(tasks) /\ left[k].task # t
    <3> SUFFICES ASSUME NEW k \in DOMAIN left
                 PROVE  left[k] \in Elements(tasks) /\ left[k].task # t
      OBVIOUS
    <3>1. left[k] = tasks[f[k]] /\ f[k] \in DOMAIN tasks /\ f[k] # n
      BY <2>3
    <3>2. tasks[f[k]] \in Elements(tasks)
      BY <3>1 DEF Elements
    <3>3. tasks[f[k]].task # tasks[n].task
      BY <2>2, <3>1 DEF Are_distinct
    <3> QED BY <2>2, <3>1, <3>2, <3>3
  <2> QED BY <2>1, <2>5, <2>6 DEF Elements
<1> QED BY <1>2, <1>3

(* The first k tasks leave the queue when they are started.                *)
LEMMA Started_tasks ==
  ASSUME NEW tasks \in Seq(Queued_tasks), Are_distinct(tasks), NEW k \in 0 .. Len(tasks)
  PROVE  /\ SubSeq(tasks, k + 1, Len(tasks)) \in Seq(Queued_tasks)
         /\ Are_distinct(SubSeq(tasks, k + 1, Len(tasks)))
         /\ \A x \in Elements(SubSeq(tasks, k + 1, Len(tasks))) :
              x \in Elements(tasks) /\ \A i \in 1 .. k : x.task # tasks[i].task
<1> DEFINE left == SubSeq(tasks, k + 1, Len(tasks))
<1>1. Len(tasks) \in Nat /\ DOMAIN tasks = 1 .. Len(tasks)
  BY LenProperties
<1>2. \A i \in k + 1 .. Len(tasks) : tasks[i] \in Queued_tasks
  BY <1>1, ElementOfSeq
<1>3. /\ left \in Seq(Queued_tasks) /\ Len(left) = Len(tasks) - k
      /\ \A i \in 1 .. Len(tasks) - k : left[i] = tasks[k + i]
  <2>1. k + 1 \in Int /\ Len(tasks) \in Int /\ k \in Int /\ k <= Len(tasks)
    BY <1>1
  <2>2. /\ left \in Seq(Queued_tasks)
        /\ Len(left) = IF k + 1 <= Len(tasks) THEN Len(tasks) - (k + 1) + 1 ELSE 0
        /\ \A i \in 1 .. Len(tasks) - (k + 1) + 1 : left[i] = tasks[(k + 1) + i - 1]
    BY <1>2, <2>1, SubSeqProperties
  <2>3. ASSUME NEW i \in 1 .. Len(tasks) - k PROVE left[i] = tasks[k + i]
    <3>1. i \in 1 .. Len(tasks) - (k + 1) + 1 /\ (k + 1) + i - 1 = k + i
      BY <2>1
    <3> QED BY <2>2, <3>1
  <2> QED BY <2>1, <2>2, <2>3
<1> HIDE DEF left
<1>4. DOMAIN left = 1 .. Len(tasks) - k
  <2>1. DOMAIN left = 1 .. Len(left)
    BY <1>3, LenProperties
  <2> QED BY <1>3, <2>1
<1>5. \A i \in DOMAIN left : left[i] = tasks[k + i] /\ k + i \in DOMAIN tasks /\ k + i > k
  <2>1. ASSUME NEW i \in 1 .. Len(tasks) - k PROVE k + i \in 1 .. Len(tasks) /\ k + i > k
    BY <1>1
  <2> QED BY <1>1, <1>3, <1>4, <2>1
<1>6. Are_distinct(left)
  <2>1. \A i, n \in DOMAIN left : k + i = k + n => i = n
    BY <1>1, <1>4
  <2> QED BY <1>5, <2>1 DEF Are_distinct
<1>7. \A i \in DOMAIN left, n \in 1 .. k : n \in DOMAIN tasks /\ k + i # n
  BY <1>1, <1>4
<1> QED
  BY <1>3, <1>5, <1>6, <1>7 DEF Are_distinct, Elements, left

LEMMA next_start_time_type ==
  ASSUME NEW tasks \in Seq(Queued_tasks)
  PROVE  next_start_time(tasks) \in 0 .. Never
<1>1. CASE tasks = <<>>
  BY <1>1, Times DEF next_start_time
<1>2. CASE tasks # <<>>
  <2>1. Head(tasks) \in Queued_tasks
    BY <1>2, HeadTailProperties
  <2> QED BY <1>2, <2>1, Times DEF next_start_time, Queued_tasks
<1> QED BY <1>1, <1>2

-----------------------------------------------------------------------------
(* The inductive invariant.                                                *)

Loop_right ==
  /\ now \in 0 .. Max_time
  /\ loop \in {"executing", "entering_sleep", "entering_wait", "waiting"}
  /\ signaled \in BOOLEAN /\ wait_until \in 0 .. Never
  /\ signaling \subseteq Tasks

Running_in(states, j) ==
  {t \in Tasks : Job_of[t] = j /\ states[t] \in {"running", "completed", "closed"}}

(* A task queue has the queued tasks of its job, each once, and no more    *)
(* tasks run than the job may run at a time.                               *)
Tasks_right(queues, states) ==
  /\ queues \in [Jobs -> Seq(Queued_tasks)]
  /\ states \in [Tasks -> States]
  /\ \A j \in Jobs :
       /\ Are_distinct(queues[j])
       /\ \A x \in Elements(queues[j]) : Job_of[x.task] = j /\ states[x.task] = "queued"
       /\ IsFiniteSet(Running_in(states, j)) /\ Cardinality(Running_in(states, j)) <= Max_tasks[j]

(* The calls of a task tell how far it is: the future of its operation has *)
(* been completed, the call of the operation has, it has been closed.      *)
Task_calls_right(q, states) ==
  \A t \in Tasks :
    /\ \A c \in Elements(q) :
         /\ c.entry \in {Entry("onComplete", t), Entry("Task_end_completed", t)} => states[t] = "completed"
         /\ c.entry = Entry("Task_closed", t) => states[t] = "closed"
    /\ ~\E c, d \in Elements(q) :
          c.entry = Entry("onComplete", t) /\ d.entry = Entry("Task_end_completed", t)

(* From the last look at the queue to the end of the sleep.                *)
Sleeps_in_time ==
  loop \in {"entering_wait", "waiting"} /\ ~signaled =>
    \A c \in Elements(queue) :
      wait_until <= c.at \/ \E t \in signaling : c.entry = Entry("onComplete", t)

IInv == /\ Loop_right
        /\ Queue_right(queue, registered)
        /\ Tasks_right(task_queue, task_state)
        /\ Task_calls_right(queue, task_state)
        /\ Sleeps_in_time

LEMMA Types_of_IInv == IInv => TypeOK
BY DEF IInv, TypeOK, Loop_right, Queue_right, Tasks_right, Calls, Queued_tasks, States

LEMMA Init_IInv == Init => IInv
<1> SUFFICES ASSUME Init PROVE IInv
  OBVIOUS
<1>1. Loop_right
  BY Times DEF Init, Loop_right
<1>2. Elements(queue) = {} /\ queue \in Seq(Calls)
  BY EmptySeq DEF Init, Elements
<1>3. Queue_right(queue, registered)
  BY <1>2, Times DEF Init, Queue_right, In_order
<1>4. Tasks_right(task_queue, task_state)
  <2>1. \A j \in Jobs : Running_in(task_state, j) = {}
    BY DEF Init, Running_in
  <2>2. \A j \in Jobs : Max_tasks[j] \in Nat
    BY CallQueueAssumption
  <2>3. \A j \in Jobs : IsFiniteSet(Running_in(task_state, j))
                           /\ Cardinality(Running_in(task_state, j)) <= Max_tasks[j]
    BY <2>1, <2>2, FS_EmptySet
  <2>4. task_queue \in [Jobs -> Seq(Queued_tasks)] /\ task_state \in [Tasks -> States]
    BY EmptySeq DEF Init, States
  <2>5. \A j \in Jobs : Are_distinct(task_queue[j]) /\ Elements(task_queue[j]) = {}
    BY DEF Init, Are_distinct, Elements
  <2> QED
    BY <2>3, <2>4, <2>5 DEF Tasks_right
<1>5. Task_calls_right(queue, task_state) /\ Sleeps_in_time
  BY <1>2 DEF Task_calls_right, Sleeps_in_time
<1> QED
  BY <1>1, <1>3, <1>4, <1>5 DEF IInv

-----------------------------------------------------------------------------
(* The start of tasks.                                                     *)

(* The number of tasks that try_start_tasks starts: not more than may run, *)
(* nor more than are queued.                                               *)
LEMMA Startable_type ==
  ASSUME Tasks_right(task_queue, task_state), NEW j \in Jobs, NEW n \in Nat, n <= Max_tasks[j]
  PROVE  Startable(j, n) \in 0 .. Len(task_queue[j]) /\ n + Startable(j, n) <= Max_tasks[j]
<1> DEFINE mature == {i \in DOMAIN task_queue[j] : task_queue[j][i].start_at <= now}
<1>1. task_queue[j] \in Seq(Queued_tasks)
  BY DEF Tasks_right
<1>2. Len(task_queue[j]) \in Nat /\ DOMAIN task_queue[j] = 1 .. Len(task_queue[j]) /\ Max_tasks[j] \in Nat
  <2>1. Max_tasks[j] \in Nat
    BY CallQueueAssumption
  <2>2. Len(task_queue[j]) \in Nat /\ DOMAIN task_queue[j] = 1 .. Len(task_queue[j])
    <3> HIDE DEF mature
    <3> QED BY <1>1, LenProperties
  <2> QED BY <2>1, <2>2
<1>3. IsFiniteSet(1 .. Len(task_queue[j])) /\ Cardinality(1 .. Len(task_queue[j])) = Len(task_queue[j])
  <2> DEFINE n0 == Len(task_queue[j])
  <2>1. n0 \in Nat
    BY <1>2
  <2> HIDE DEF n0
  <2>2. IsFiniteSet(1 .. n0) /\ Cardinality(1 .. n0) = n0
    BY <2>1, FS_Interval
  <2> QED BY <2>2 DEF n0
<1>4. mature \in SUBSET (1 .. Len(task_queue[j]))
  BY <1>2
<1>5. Startable(j, n) = IF Cardinality(mature) < Max_tasks[j] - n THEN Cardinality(mature) ELSE Max_tasks[j] - n
  BY DEF Startable
<1> HIDE DEF mature
<1>6. IsFiniteSet(mature) /\ Cardinality(mature) <= Len(task_queue[j])
  BY <1>3, <1>4, FS_Subset
<1>7. Cardinality(mature) \in Nat
  BY <1>6, FS_CardinalityType
<1> QED
  BY <1>2, <1>5, <1>6, <1>7

(* The first k tasks of a finite list are k at most.                       *)
LEMMA First_tasks ==
  ASSUME NEW list, NEW k \in Nat
  PROVE  /\ IsFiniteSet({list[i].task : i \in 1 .. k})
         /\ Cardinality({list[i].task : i \in 1 .. k}) \in Nat
         /\ Cardinality({list[i].task : i \in 1 .. k}) <= k
<1> DEFINE T == {list[i].task : i \in 1 .. k}
           f == [i \in 1 .. k |-> list[i].task]
<1>1. IsFiniteSet(1 .. k) /\ Cardinality(1 .. k) = k
  BY FS_Interval
<1>2. f \in Surjection(1 .. k, T)
  BY DEF Surjection
<1> HIDE DEF T, f
<1>3. IsFiniteSet(T) /\ Cardinality(T) <= k
  BY <1>1, <1>2, FS_Surjection
<1> QED
  BY <1>3, FS_CardinalityType DEF T

(* try_start_tasks: the first tasks of the queue run.                      *)
LEMMA Start_first_right ==
  ASSUME NEW states, Tasks_right(task_queue, states), NEW j \in Jobs, NEW k \in 0 .. Len(task_queue[j]),
         Cardinality(Running_in(states, j)) + k <= Max_tasks[j],
         Start_first(j, k, states)
  PROVE  /\ Tasks_right(task_queue', task_state')
         /\ \A t \in Tasks : task_state'[t] = states[t] \/ (states[t] = "queued" /\ task_state'[t] = "running")
<1> DEFINE list == task_queue[j]
           S == {list[i].task : i \in 1 .. k}
           left == SubSeq(list, k + 1, Len(list))
<1>1. /\ list \in Seq(Queued_tasks) /\ Are_distinct(list)
      /\ \A x \in Elements(list) : Job_of[x.task] = j /\ states[x.task] = "queued"
      /\ states \in [Tasks -> States]
  BY DEF Tasks_right
<1>2. Len(list) \in Nat /\ DOMAIN list = 1 .. Len(list) /\ k \in Nat /\ k <= Len(list)
  BY <1>1, LenProperties
<1>3. \A i \in 1 .. k : list[i] \in Elements(list) /\ list[i].task \in Tasks
  <2>1. \A i \in 1 .. k : i \in 1 .. Len(list)
    BY <1>2
  <2>2. \A i \in 1 .. k : list[i] \in Queued_tasks
    BY <1>1, <2>1, ElementOfSeq
  <2> QED BY <1>2, <2>1, <2>2 DEF Elements, Queued_tasks
<1>4. /\ left \in Seq(Queued_tasks) /\ Are_distinct(left)
      /\ \A x \in Elements(left) : x \in Elements(list) /\ \A i \in 1 .. k : x.task # list[i].task
  <2>1. k \in 0 .. Len(list) /\ left = SubSeq(list, k + 1, Len(list))
    BY <1>2
  <2>2. list \in Seq(Queued_tasks) /\ Are_distinct(list)
    BY <1>1
  <2> HIDE DEF list, S
  <2> QED BY <2>1, <2>2, Started_tasks
<1>5. /\ task_queue' = [task_queue EXCEPT ![j] = left]
      /\ task_state' = [t \in Tasks |-> IF t \in S THEN "running" ELSE states[t]]
  BY DEF Start_first, Task_queue_after_start
<1>6. \A t \in S : t \in Tasks /\ Job_of[t] = j /\ states[t] = "queued"
  BY <1>1, <1>3
<1>7. \A x \in Elements(left) : x \in Elements(list) /\ x.task \notin S
  BY <1>4
<1>8. IsFiniteSet(S) /\ Cardinality(S) \in Nat /\ Cardinality(S) <= k
  BY <1>2, First_tasks
<1> HIDE DEF S, left, list
<1>9. task_state' \in [Tasks -> States]
  BY <1>1, <1>5 DEF States
<1>10. task_queue' \in [Jobs -> Seq(Queued_tasks)]
  BY <1>4, <1>5 DEF Tasks_right
<1>11. ASSUME NEW g \in Jobs
       PROVE  /\ Are_distinct(task_queue'[g])
              /\ \A x \in Elements(task_queue'[g]) : Job_of[x.task] = g /\ task_state'[x.task] = "queued"
  <2>0. \A x \in Elements(task_queue[g]) : x.task \in Tasks
    <3>1. task_queue[g] \in Seq(Queued_tasks)
      BY DEF Tasks_right
    <3>2. \A i \in DOMAIN task_queue[g] : task_queue[g][i] \in Queued_tasks
      BY <3>1, LenProperties, ElementOfSeq
    <3> QED BY <3>2 DEF Elements, Queued_tasks
  <2>1. CASE g = j
    BY <1>1, <1>4, <1>5, <1>7, <2>0, <2>1 DEF Tasks_right, list
  <2>2. CASE g # j
    BY <1>5, <1>6, <2>0, <2>2 DEF Tasks_right
  <2> QED BY <2>1, <2>2
<1>12. ASSUME NEW g \in Jobs
       PROVE  IsFiniteSet(Running_in(task_state', g)) /\ Cardinality(Running_in(task_state', g)) <= Max_tasks[g]
  <2>1. IsFiniteSet(Running_in(states, g)) /\ Cardinality(Running_in(states, g)) <= Max_tasks[g]
    BY DEF Tasks_right
  <2>2. CASE g # j
    <3>1. Running_in(task_state', g) = Running_in(states, g)
      BY <1>5, <1>6, <2>2 DEF Running_in
    <3> QED BY <2>1, <3>1
  <2>3. CASE g = j
    <3>1. Running_in(task_state', g) = Running_in(states, g) \cup S
      BY <1>5, <1>6, <2>3 DEF Running_in
    <3>2. /\ IsFiniteSet(Running_in(states, g) \cup S)
          /\ Cardinality(Running_in(states, g) \cup S) =
               Cardinality(Running_in(states, g)) + Cardinality(S) - Cardinality(Running_in(states, g) \cap S)
      BY <1>8, <2>1, FS_Union
    <3>3. Cardinality(Running_in(states, g) \cap S) \in Nat
      BY <1>8, FS_Subset, FS_CardinalityType
    <3>4. Cardinality(Running_in(states, g)) \in Nat /\ Max_tasks[g] \in Nat
      BY <2>1, FS_CardinalityType, CallQueueAssumption
    <3>5. Cardinality(Running_in(states, g)) + k <= Max_tasks[g]
      BY <2>3
    <3> QED BY <1>2, <1>8, <3>1, <3>2, <3>3, <3>4, <3>5
  <2> QED BY <2>2, <2>3
<1>13. Tasks_right(task_queue', task_state')
  BY <1>9, <1>10, <1>11, <1>12 DEF Tasks_right
<1> QED
  BY <1>5, <1>6, <1>13

-----------------------------------------------------------------------------
(* The main thread executes a call.                                        *)

(* popMature: the call is in the queue, and no other one of its entry.     *)
LEMMA Pop_right ==
  ASSUME IInv, NEW e, Pop(e)
  PROVE  /\ Queue_right(Tail(queue), registered)
         /\ \A c \in Elements(Tail(queue)) : c \in Elements(queue) /\ c.entry # e
         /\ \E c \in Elements(queue) : c.entry = e
         /\ loop = "executing"
<1>1. queue \in Seq(Calls) /\ In_order(queue) /\ now \in 0 .. Max_time
  BY DEF IInv, Loop_right, Queue_right
<1>2. queue # <<>>
  <2>1. now < Never
    BY <1>1, Times DEF Never
  <2>2. nextTime(queue) <= now
    BY DEF Pop, Is_mature
  <2> QED BY <1>1, <2>1, <2>2, Times DEF nextTime
<1> QED
  BY <1>1, <1>2, Tail_queue DEF Pop, IInv, Queue_right

(* What the loop and the sleep are when a call changes queues and tasks.   *)
LEMMA While_executing ==
  ASSUME IInv, loop = "executing", UNCHANGED <<now, loop_vars>>,
         signaled' \in BOOLEAN, signaling' \subseteq Tasks
  PROVE  Loop_right' /\ Sleeps_in_time'
BY DEF IInv, Loop_right, Sleeps_in_time, loop_vars

Is_task_call(e) ==
  \E t \in Tasks : e \in {Entry("onComplete", t), Entry("Task_end_completed", t), Entry("Task_closed", t)}

(* Calls go or calls of jobs come, and tasks are queued, killed or started. *)
LEMMA Task_calls_stay ==
  ASSUME NEW q, NEW states, Task_calls_right(q, states), NEW p, NEW next_states,
         \A c \in Elements(p) : c \in Elements(q) \/ ~Is_task_call(c.entry),
         \A t \in Tasks : next_states[t] = states[t] \/ states[t] \notin {"completed", "closed"}
  PROVE  Task_calls_right(p, next_states)
BY DEF Task_calls_right, Is_task_call

LEMMA Entries_of_jobs ==
  ASSUME NEW j \in Jobs
  PROVE  /\ Entry("Start_queued_task", j) \in Entries /\ ~Is_task_call(Entry("Start_queued_task", j))
         /\ Entry("Below_max_tasks", j) \in Entries /\ ~Is_task_call(Entry("Below_max_tasks", j))
BY DEF Entry, Entries, Is_task_call

LEMMA Entries_of_tasks ==
  ASSUME NEW t \in Tasks, NEW g \in Tasks
  PROVE  /\ Entry("Task_end_completed", t) \in Entries /\ Entry("Task_closed", t) \in Entries
         /\ Entry("onComplete", t) \in Foreign_calls
         /\ Entry("Task_end_completed", t) # Entry("Task_closed", g)
         /\ Entry("Task_end_completed", t) # Entry("onComplete", g)
         /\ Entry("Task_closed", t) # Entry("onComplete", g)
         /\ Entry("Task_end_completed", t) = Entry("Task_end_completed", g) => t = g
         /\ Entry("Task_closed", t) = Entry("Task_closed", g) => t = g
         /\ Entry("onComplete", t) = Entry("onComplete", g) => t = g
BY DEF Entry, Entries, Foreign_calls

LEMMA Running_is_in ==
  \A j : Running(j) = Running_in(task_state, j)
BY DEF Running, Running_in

(* A task gets a state in which it is not running, and was not before.     *)
LEMMA One_task_changes ==
  ASSUME Tasks_right(task_queue, task_state), NEW t \in Tasks, NEW state \in States,
         NEW queues \in [Jobs -> Seq(Queued_tasks)],
         \A j \in Jobs : Are_distinct(queues[j]) /\
           \A x \in Elements(queues[j]) :
             Job_of[x.task] = j /\ [task_state EXCEPT ![t] = state][x.task] = "queued",
         state \in {"running", "completed", "closed"} <=> task_state[t] \in {"running", "completed", "closed"}
  PROVE  Tasks_right(queues, [task_state EXCEPT ![t] = state])
<1>1. task_state \in [Tasks -> States]
  BY DEF Tasks_right
<1>2. \A j : Running_in([task_state EXCEPT ![t] = state], j) = Running_in(task_state, j)
  BY <1>1 DEF Running_in
<1> QED
  BY <1>1, <1>2 DEF Tasks_right

(* The queues when the state of a task that is not queued changes.         *)
LEMMA Not_queued ==
  ASSUME Tasks_right(task_queue, task_state), NEW t \in Tasks, task_state[t] # "queued", NEW state
  PROVE  \A j \in Jobs : \A x \in Elements(task_queue[j]) :
           x.task # t /\ [task_state EXCEPT ![t] = state][x.task] = "queued"
<1>1. \A j \in Jobs : \A x \in Elements(task_queue[j]) : x.task # t /\ task_state[x.task] = "queued"
  BY DEF Tasks_right
<1> QED
  BY <1>1 DEF Tasks_right

(* A task is queued: by a command, or by a script.                         *)
LEMMA enqueue_task_IInv ==
  ASSUME IInv, NEW t \in Tasks, NEW at \in Start_ats[t], enqueue_task(t, at)
  PROVE  IInv'
<1> DEFINE j == Job_of[t]
           tasks == Enqueued(task_queue[j], t, at)
<1>1. j \in Jobs /\ at \in 0 .. Max_time
  BY CallQueueAssumption
<1>2. loop = "executing" /\ task_state[t] = "none" /\ Tasks_right(task_queue, task_state)
  BY DEF enqueue_task, IInv
<1>3. /\ task_queue[j] \in Seq(Queued_tasks) /\ Are_distinct(task_queue[j])
      /\ \A x \in Elements(task_queue[j]) : Job_of[x.task] = j /\ x.task # t
  BY <1>1, <1>2 DEF Tasks_right
<1>4. /\ tasks \in Seq(Queued_tasks) /\ Are_distinct(tasks)
      /\ Elements(tasks) = Elements(task_queue[j]) \cup {[task |-> t, start_at |-> at]}
  BY <1>1, <1>3, Enqueued_tasks
<1>5. /\ task_state' = [task_state EXCEPT ![t] = "queued"]
      /\ task_queue' = [task_queue EXCEPT ![j] = tasks]
      /\ call_at(queue, Entry("Start_queued_task", j), next_start_time(tasks))
      /\ UNCHANGED <<now, loop_vars, signaling>>
  BY DEF enqueue_task
<1> HIDE DEF tasks, j
<1>6. Queue_right(queue, registered) /\ signaled \in BOOLEAN /\ signaling \subseteq Tasks
  BY DEF IInv, Loop_right
<1>7. /\ Queue_right(queue', registered') /\ signaled' \in BOOLEAN
      /\ \A c \in Elements(queue') : c.entry # Entry("Start_queued_task", j) => c \in Elements(queue)
  BY <1>1, <1>4, <1>5, <1>6, call_at_right, next_start_time_type, Entries_of_jobs
<1>8. Tasks_right(task_queue', task_state')
  <2>1. task_queue' \in [Jobs -> Seq(Queued_tasks)]
    BY <1>2, <1>4, <1>5 DEF Tasks_right
  <2>2. task_state[t] \in States /\ task_state \in [Tasks -> States]
    BY <1>2 DEF Tasks_right
  <2>3. \A g \in Jobs : \A x \in Elements(task_queue[g]) : x.task # t /\ task_state'[x.task] = "queued"
    BY <1>2, <1>5, Not_queued
  <2>4. task_state'[t] = "queued" /\ Job_of[t] = j
    BY <1>5, <2>2 DEF j
  <2>5. ASSUME NEW g \in Jobs
        PROVE  /\ Are_distinct(task_queue'[g])
               /\ \A x \in Elements(task_queue'[g]) : Job_of[x.task] = g /\ task_state'[x.task] = "queued"
    <3>1. CASE g = j
      BY <1>2, <1>3, <1>4, <1>5, <2>3, <2>4, <3>1 DEF Tasks_right
    <3>2. CASE g # j
      BY <1>2, <1>5, <2>3, <3>2 DEF Tasks_right
    <3> QED BY <3>1, <3>2
  <2> QED
    BY <1>2, <1>5, <2>1, <2>5, One_task_changes DEF States
<1>9. Task_calls_right(queue', task_state')
  <2>1. Task_calls_right(queue, task_state)
    BY DEF IInv
  <2>2. \A g \in Tasks : task_state'[g] = task_state[g] \/ task_state[g] \notin {"completed", "closed"}
    BY <1>2, <1>5 DEF Tasks_right
  <2> QED BY <1>1, <1>7, <2>1, <2>2, Task_calls_stay, Entries_of_jobs
<1> QED
  BY <1>2, <1>5, <1>6, <1>7, <1>8, <1>9, While_executing DEF IInv

(* A queued task is killed.                                                *)
LEMMA kill_queued_task_IInv ==
  ASSUME IInv, NEW t \in Tasks, kill_queued_task(t)
  PROVE  IInv'
<1> DEFINE j == Job_of[t]
           tasks == Erased(task_queue[j], {i \in DOMAIN task_queue[j] : task_queue[j][i].task = t})
<1>1. j \in Jobs
  BY CallQueueAssumption
<1>2. loop = "executing" /\ task_state[t] = "queued" /\ Tasks_right(task_queue, task_state)
  BY DEF kill_queued_task, IInv
<1>3. task_queue[j] \in Seq(Queued_tasks) /\ Are_distinct(task_queue[j])
  BY <1>1, <1>2 DEF Tasks_right
<1>4. /\ tasks \in Seq(Queued_tasks) /\ Are_distinct(tasks)
      /\ \A x \in Elements(tasks) : x \in Elements(task_queue[j]) /\ x.task # t
  <2>1. tasks = Erased(task_queue[j], Positions_of(task_queue[j], t))
    BY DEF Positions_of
  <2> HIDE DEF tasks
  <2> QED BY <1>3, <2>1, Killed_tasks
<1>5. /\ task_state' = [task_state EXCEPT ![t] = "killed"]
      /\ task_queue' = [task_queue EXCEPT ![j] = tasks]
      /\ call_at(queue, Entry("Start_queued_task", j), next_start_time(tasks))
      /\ UNCHANGED <<now, loop_vars, signaling>>
  BY DEF kill_queued_task
<1> HIDE DEF tasks
<1>6. Queue_right(queue, registered) /\ signaled \in BOOLEAN /\ signaling \subseteq Tasks
  BY DEF IInv, Loop_right
<1>7. /\ Queue_right(queue', registered') /\ signaled' \in BOOLEAN
      /\ \A c \in Elements(queue') : c.entry # Entry("Start_queued_task", j) => c \in Elements(queue)
  BY <1>1, <1>4, <1>5, <1>6, call_at_right, next_start_time_type, Entries_of_jobs
<1>8. Tasks_right(task_queue', task_state')
  <2>1. task_queue' \in [Jobs -> Seq(Queued_tasks)]
    BY <1>2, <1>4, <1>5 DEF Tasks_right
  <2>2. task_state \in [Tasks -> States]
    BY <1>2 DEF Tasks_right
  <2>3. ASSUME NEW g \in Jobs
        PROVE  /\ Are_distinct(task_queue'[g])
               /\ \A x \in Elements(task_queue'[g]) : Job_of[x.task] = g /\ task_state'[x.task] = "queued"
    <3>1. \A x \in Elements(task_queue[g]) : Job_of[x.task] = g /\ task_state[x.task] = "queued"
      BY <1>2 DEF Tasks_right
    <3>2. CASE g = j
      <4>1. \A x \in Elements(tasks) : Job_of[x.task] = g /\ task_state[x.task] = "queued" /\ x.task # t
        BY <1>4, <3>1, <3>2
      <4> QED BY <1>2, <1>4, <1>5, <3>2, <4>1 DEF Tasks_right
    <3>3. CASE g # j
      <4>1. \A x \in Elements(task_queue[g]) : x.task # t
        BY <3>1, <3>3
      <4> QED BY <1>2, <1>5, <3>1, <3>3, <4>1 DEF Tasks_right
    <3> QED BY <3>2, <3>3
  <2> QED
    BY <1>2, <1>5, <2>1, <2>3, One_task_changes DEF States
<1>9. Task_calls_right(queue', task_state')
  <2>1. Task_calls_right(queue, task_state)
    BY DEF IInv
  <2>2. \A g \in Tasks : task_state'[g] = task_state[g] \/ task_state[g] \notin {"completed", "closed"}
    BY <1>2, <1>5 DEF Tasks_right
  <2> QED BY <1>1, <1>7, <2>1, <2>2, Task_calls_stay, Entries_of_jobs
<1> QED
  BY <1>2, <1>5, <1>6, <1>7, <1>8, <1>9, While_executing DEF IInv

(* A job starts k of its tasks, maybe none.                                *)
LEMMA Start_in_call ==
  ASSUME IInv, NEW j \in Jobs, NEW k, Start_first(j, k, task_state),
         k = 0 \/ k = Startable(j, Cardinality(Running(j)))
  PROVE  /\ k \in 0 .. Len(task_queue[j])
         /\ Tasks_right(task_queue', task_state')
         /\ \A t \in Tasks : task_state'[t] = task_state[t] \/ task_state[t] \notin {"completed", "closed"}
<1>1. Tasks_right(task_queue, task_state)
  BY DEF IInv
<1>2. /\ IsFiniteSet(Running_in(task_state, j)) /\ Cardinality(Running_in(task_state, j)) <= Max_tasks[j]
      /\ Running(j) = Running_in(task_state, j)
  BY <1>1, Running_is_in DEF Tasks_right
<1>3. Cardinality(Running_in(task_state, j)) \in Nat
  BY <1>2, FS_CardinalityType
<1>4. Len(task_queue[j]) \in Nat
  BY <1>1, LenProperties DEF Tasks_right
<1>5. k \in 0 .. Len(task_queue[j]) /\ Cardinality(Running_in(task_state, j)) + k <= Max_tasks[j]
  <2>1. CASE k = 0
    BY <1>2, <1>3, <1>4, <2>1
  <2>2. CASE k = Startable(j, Cardinality(Running(j)))
    BY <1>1, <1>2, <1>3, <2>2, Startable_type
  <2> QED BY <2>1, <2>2
<1> QED
  BY <1>1, <1>5, Start_first_right

LEMMA On_start_queued_task_IInv ==
  ASSUME IInv, NEW j \in Jobs, On_start_queued_task(j)
  PROVE  IInv'
<1> DEFINE e  == Entry("Start_queued_task", j)
           at == next_start_time(task_queue[j])
           k  == IF at <= now THEN Startable(j, Cardinality(Running(j))) ELSE 0
           next == next_start_time(Task_queue_after_start(j, k))
<1>1. /\ Pop(e) /\ Start_first(j, k, task_state)
      /\ IF at <= now /\ next = at
           THEN queue' = Tail(queue) /\ UNCHANGED <<registered, signaled>>
           ELSE call_at(Tail(queue), e, next)
      /\ UNCHANGED <<now, loop_vars, signaling>>
  BY DEF On_start_queued_task
<1>2. k = 0 \/ k = Startable(j, Cardinality(Running(j)))
  OBVIOUS
<1> HIDE DEF e, at, k
<1>3. /\ k \in 0 .. Len(task_queue[j])
      /\ Tasks_right(task_queue', task_state')
      /\ \A t \in Tasks : task_state'[t] = task_state[t] \/ task_state[t] \notin {"completed", "closed"}
  BY <1>1, <1>2, Start_in_call
<1>4. next \in 0 .. Never
  <2>1. task_queue[j] \in Seq(Queued_tasks) /\ Are_distinct(task_queue[j])
    BY DEF IInv, Tasks_right
  <2>2. Task_queue_after_start(j, k) \in Seq(Queued_tasks)
    BY <1>3, <2>1, Started_tasks DEF Task_queue_after_start
  <2> QED BY <2>2, next_start_time_type
<1> HIDE DEF next
<1>5. /\ Queue_right(Tail(queue), registered) /\ loop = "executing"
      /\ \A c \in Elements(Tail(queue)) : c \in Elements(queue)
  BY <1>1, Pop_right
<1>6. signaled \in BOOLEAN /\ signaling \subseteq Tasks /\ Task_calls_right(queue, task_state)
  BY DEF IInv, Loop_right
<1>7. e \in Entries /\ ~Is_task_call(e)
  BY Entries_of_jobs DEF e
<1>8. /\ Queue_right(queue', registered') /\ signaled' \in BOOLEAN
      /\ \A c \in Elements(queue') : c.entry # e => c \in Elements(queue)
  <2>1. CASE at <= now /\ next = at
    BY <1>1, <1>5, <1>6, <2>1
  <2>2. CASE ~(at <= now /\ next = at)
    <3>1. call_at(Tail(queue), e, next)
      BY <1>1, <2>2
    <3> QED BY <1>4, <1>5, <1>6, <1>7, <3>1, call_at_right
  <2> QED BY <2>1, <2>2
<1>9. Task_calls_right(queue', task_state')
  BY <1>3, <1>6, <1>7, <1>8, Task_calls_stay
<1> QED
  BY <1>1, <1>3, <1>5, <1>6, <1>8, <1>9, While_executing DEF IInv

LEMMA On_below_max_tasks_IInv ==
  ASSUME IInv, NEW j \in Jobs, On_below_max_tasks(j)
  PROVE  IInv'
<1>1. /\ Pop(Entry("Below_max_tasks", j)) /\ queue' = Tail(queue)
      /\ Start_first(j, Startable(j, Cardinality(Running(j))), task_state)
      /\ UNCHANGED <<now, registered, loop_vars, signaled, signaling>>
  BY DEF On_below_max_tasks
<1>2. /\ Tasks_right(task_queue', task_state')
      /\ \A t \in Tasks : task_state'[t] = task_state[t] \/ task_state[t] \notin {"completed", "closed"}
  BY <1>1, Start_in_call
<1>3. /\ Queue_right(Tail(queue), registered) /\ loop = "executing"
      /\ \A c \in Elements(Tail(queue)) : c \in Elements(queue)
  BY <1>1, Pop_right
<1>4. signaled \in BOOLEAN /\ signaling \subseteq Tasks /\ Task_calls_right(queue, task_state)
  BY DEF IInv, Loop_right
<1>5. Task_calls_right(queue', task_state')
  BY <1>1, <1>2, <1>3, <1>4, Task_calls_stay
<1> QED
  BY <1>1, <1>2, <1>3, <1>4, <1>5, While_executing DEF IInv

-----------------------------------------------------------------------------
(* The operation of a task ends.                                           *)

(* The thread of the future puts its call in front of all later ones.      *)
LEMMA onComplete_IInv ==
  ASSUME IInv, NEW t \in Tasks, onComplete(t)
  PROVE  IInv'
<1> DEFINE e == Entry("onComplete", t)
           x == [entry |-> e, at |-> 0]
<1>1. /\ task_state[t] = "running" /\ task_state' = [task_state EXCEPT ![t] = "completed"]
      /\ queue' = Added(queue, e, 0) /\ signaling' = signaling \cup {t}
      /\ UNCHANGED <<now, registered, loop_vars, signaled, task_queue>>
  BY DEF onComplete
<1>2. /\ Queue_right(queue, registered) /\ Tasks_right(task_queue, task_state) /\ Task_calls_right(queue, task_state)
      /\ Loop_right /\ Sleeps_in_time
  BY DEF IInv
<1>3. e \in Foreign_calls /\ e \notin Entries
  BY Entries_of_tasks, Entries_differ
<1>4. \A c \in Elements(queue) : c.entry # e
  BY <1>1, <1>2 DEF Task_calls_right
<1>5. /\ queue' \in Seq(Calls) /\ In_order(queue')
      /\ Elements(queue') = Elements(queue) \cup {x}
  BY <1>1, <1>2, <1>3, <1>4, Times, Added_queue DEF Queue_right
<1>6. x.entry = e
  OBVIOUS
<1> HIDE DEF x
<1>7. Queue_right(queue', registered')
  BY <1>1, <1>2, <1>3, <1>5, <1>6 DEF Queue_right
<1>8. Tasks_right(task_queue', task_state')
  <2>1. \A j \in Jobs : \A y \in Elements(task_queue[j]) : task_state'[y.task] = "queued"
    BY <1>1, <1>2, Not_queued
  <2>2. /\ task_queue \in [Jobs -> Seq(Queued_tasks)]
        /\ \A j \in Jobs : Are_distinct(task_queue[j]) /\ \A y \in Elements(task_queue[j]) : Job_of[y.task] = j
    BY <1>2 DEF Tasks_right
  <2> QED
    BY <1>1, <1>2, <2>1, <2>2, One_task_changes DEF States
<1>9. Task_calls_right(queue', task_state')
  <2>1. /\ task_state \in [Tasks -> States] /\ task_state'[t] = "completed"
        /\ \A g \in Tasks : g # t => task_state'[g] = task_state[g]
    BY <1>1, <1>2 DEF Tasks_right
  <2>2. \A c \in Elements(queue) : c.entry \notin {e, Entry("Task_end_completed", t), Entry("Task_closed", t)}
    BY <1>1, <1>2 DEF Task_calls_right
  <2>3. \A g \in Tasks : /\ e # Entry("Task_end_completed", g) /\ e # Entry("Task_closed", g)
                         /\ e = Entry("onComplete", g) => g = t
    BY Entries_of_tasks
  <2> HIDE DEF e
  <2> QED BY <1>2, <1>5, <1>6, <2>1, <2>2, <2>3 DEF Task_calls_right
<1>10. Loop_right' /\ Sleeps_in_time'
  <2>1. Loop_right'
    BY <1>1, <1>2 DEF Loop_right, loop_vars
  <2>2. t \in signaling' /\ signaling \subseteq signaling'
    BY <1>1
  <2> QED BY <1>1, <1>2, <1>5, <1>6, <2>1, <2>2 DEF Sleeps_in_time, loop_vars
<1> QED
  BY <1>7, <1>8, <1>9, <1>10 DEF IInv

(* ... and signals the event.                                              *)
LEMMA signal_IInv ==
  ASSUME IInv, NEW t \in Tasks, signal(t)
  PROVE  IInv'
<1>1. /\ signaling' = signaling \ {t} /\ signaled' = TRUE
      /\ UNCHANGED <<now, queue, registered, loop, wait_until, task_queue, task_state>>
  BY DEF signal, call_vars, loop_vars
<1>2. Loop_right' /\ Sleeps_in_time'
  BY <1>1 DEF IInv, Loop_right, Sleeps_in_time
<1> QED
  BY <1>1, <1>2 DEF IInv

(* The call of the thread is followed by the call of the operation.        *)
LEMMA On_complete_IInv ==
  ASSUME IInv, NEW t \in Tasks, On_complete(t)
  PROVE  IInv'
<1> DEFINE e == Entry("Task_end_completed", t)
<1>1. /\ Pop(Entry("onComplete", t)) /\ enqueue_id(Tail(queue), e, 0)
      /\ signaled' = TRUE /\ UNCHANGED <<now, loop_vars, task_queue, task_state, signaling>>
  BY DEF On_complete, task_vars
<1>2. /\ Queue_right(Tail(queue), registered) /\ loop = "executing"
      /\ \A c \in Elements(Tail(queue)) : c \in Elements(queue) /\ c.entry # Entry("onComplete", t)
      /\ \E c \in Elements(queue) : c.entry = Entry("onComplete", t)
  BY <1>1, Pop_right
<1>3. e \in Entries
  BY Entries_of_tasks
<1>4. /\ Queue_right(queue', registered')
      /\ \A c \in Elements(queue') : c.entry # e => c \in Elements(Tail(queue))
  BY <1>1, <1>2, <1>3, Times, enqueue_id_right
<1>5. Task_calls_right(queue', task_state')
  <2>1. Task_calls_right(queue, task_state) /\ task_state[t] = "completed"
    BY <1>2 DEF IInv, Task_calls_right
  <2>2. \A g \in Tasks : /\ e # Entry("onComplete", g) /\ e # Entry("Task_closed", g)
                         /\ e = Entry("Task_end_completed", g) => g = t
    BY Entries_of_tasks
  <2> HIDE DEF e
  <2>3. \A c \in Elements(queue') : c.entry = e \/ (c \in Elements(queue) /\ c.entry # Entry("onComplete", t))
    BY <1>2, <1>4
  <2>4. ASSUME NEW g \in Tasks, NEW c \in Elements(queue')
        PROVE  /\ c.entry \in {Entry("onComplete", g), Entry("Task_end_completed", g)} => task_state[g] = "completed"
               /\ c.entry = Entry("Task_closed", g) => task_state[g] = "closed"
    BY <2>1, <2>2, <2>3 DEF Task_calls_right
  <2>5. ASSUME NEW g \in Tasks, NEW c \in Elements(queue'), NEW d \in Elements(queue'),
               c.entry = Entry("onComplete", g), d.entry = Entry("Task_end_completed", g)
        PROVE  FALSE
    <3>1. c \in Elements(queue) /\ g # t
      BY <2>2, <2>3, <2>5
    <3>2. d \in Elements(queue)
      BY <2>2, <2>3, <2>5, <3>1
    <3> QED BY <2>1, <2>5, <3>1, <3>2 DEF Task_calls_right
  <2> QED BY <1>1, <2>4, <2>5 DEF Task_calls_right
<1>6. Tasks_right(task_queue', task_state') /\ signaling' \subseteq Tasks
  BY <1>1 DEF IInv, Loop_right
<1> QED
  BY <1>1, <1>2, <1>4, <1>5, <1>6, While_executing DEF IInv

(* The task is closed, and calls its job.                                  *)
LEMMA On_task_end_completed_IInv ==
  ASSUME IInv, NEW t \in Tasks, On_task_end_completed(t)
  PROVE  IInv'
<1> DEFINE e == Entry("Task_closed", t)
           f == Entry("Task_end_completed", t)
<1>1. /\ Pop(f) /\ enqueue_id(Tail(queue), e, 0)
      /\ task_state' = [task_state EXCEPT ![t] = "closed"]
      /\ signaled' = TRUE /\ UNCHANGED <<now, loop_vars, task_queue, signaling>>
  BY DEF On_task_end_completed
<1>2. /\ Queue_right(Tail(queue), registered) /\ loop = "executing"
      /\ \A c \in Elements(Tail(queue)) : c \in Elements(queue) /\ c.entry # f
      /\ \E c \in Elements(queue) : c.entry = f
  BY <1>1, Pop_right
<1>3. e \in Entries
  BY Entries_of_tasks
<1>4. /\ Queue_right(queue', registered')
      /\ \A c \in Elements(queue') : c.entry # e => c \in Elements(Tail(queue))
  BY <1>1, <1>2, <1>3, Times, enqueue_id_right
<1>5. /\ Task_calls_right(queue, task_state) /\ Tasks_right(task_queue, task_state)
      /\ task_state[t] = "completed"
  BY <1>2 DEF IInv, Task_calls_right
<1>6. Tasks_right(task_queue', task_state')
  <2>1. \A j \in Jobs : \A y \in Elements(task_queue[j]) : task_state'[y.task] = "queued"
    BY <1>1, <1>5, Not_queued
  <2>2. /\ task_queue \in [Jobs -> Seq(Queued_tasks)]
        /\ \A j \in Jobs : Are_distinct(task_queue[j]) /\ \A y \in Elements(task_queue[j]) : Job_of[y.task] = j
    BY <1>5 DEF Tasks_right
  <2> QED
    BY <1>1, <1>5, <2>1, <2>2, One_task_changes DEF States
<1>7. Task_calls_right(queue', task_state')
  <2>1. /\ task_state'[t] = "closed"
        /\ \A g \in Tasks : g # t => task_state'[g] = task_state[g]
    BY <1>1, <1>5 DEF Tasks_right
  <2>2. \A c \in Elements(queue) : c.entry # Entry("onComplete", t)
    BY <1>2, <1>5 DEF Task_calls_right
  <2>3. \A g \in Tasks : /\ e # Entry("onComplete", g) /\ e # Entry("Task_end_completed", g)
                         /\ e = Entry("Task_closed", g) => g = t
    BY Entries_of_tasks
  <2>4. \A c \in Elements(queue') :
          c.entry = e \/ (c \in Elements(queue) /\ c.entry \notin {Entry("onComplete", t), f})
    BY <1>2, <1>4, <2>2
  <2> HIDE DEF e
  <2>5. ASSUME NEW g \in Tasks, NEW c \in Elements(queue')
        PROVE  /\ c.entry \in {Entry("onComplete", g), Entry("Task_end_completed", g)} => task_state'[g] = "completed"
               /\ c.entry = Entry("Task_closed", g) => task_state'[g] = "closed"
    BY <1>5, <2>1, <2>3, <2>4 DEF Task_calls_right
  <2>6. ASSUME NEW g \in Tasks, NEW c \in Elements(queue'), NEW d \in Elements(queue'),
               c.entry = Entry("onComplete", g), d.entry = Entry("Task_end_completed", g)
        PROVE  FALSE
    <3>1. c \in Elements(queue) /\ d \in Elements(queue)
      BY <2>3, <2>4, <2>6
    <3> QED BY <1>5, <2>6, <3>1 DEF Task_calls_right
  <2> QED BY <2>5, <2>6 DEF Task_calls_right
<1>8. signaling' \subseteq Tasks
  BY <1>1 DEF IInv, Loop_right
<1> QED
  BY <1>1, <1>2, <1>4, <1>6, <1>7, <1>8, While_executing DEF IInv

(* The job loses the task, and starts other ones.                          *)
LEMMA On_task_closed_IInv ==
  ASSUME IInv, NEW t \in Tasks, On_task_closed(t)
  PROVE  IInv'
<1> DEFINE j == Job_of[t]
           left == Running(j) \ {t}
           states == [task_state EXCEPT ![t] = "ended"]
           e == Entry("Task_closed", t)
           b == Entry("Below_max_tasks", j)
           k == Startable(j, Cardinality(left))
<1>1. /\ Pop(e)
      /\ \/ enqueue_id(Tail(queue), b, 0) /\ signaled' = TRUE
         \/ queue' = Tail(queue) /\ UNCHANGED <<registered, signaled>>
      /\ Start_first(j, k, states)
      /\ UNCHANGED <<now, loop_vars, signaling>>
  BY DEF On_task_closed
<1>2. /\ Queue_right(Tail(queue), registered) /\ loop = "executing"
      /\ \A c \in Elements(Tail(queue)) : c \in Elements(queue) /\ c.entry # e
      /\ \E c \in Elements(queue) : c.entry = e
  BY <1>1, Pop_right
<1>3. /\ Task_calls_right(queue, task_state) /\ Tasks_right(task_queue, task_state)
      /\ task_state[t] = "closed" /\ task_state \in [Tasks -> States]
      /\ signaled \in BOOLEAN /\ signaling \subseteq Tasks
  BY <1>2 DEF IInv, Task_calls_right, Tasks_right, Loop_right
<1>4. j \in Jobs
  BY CallQueueAssumption
<1>5. states \in [Tasks -> States] /\ states[t] = "ended" /\ \A g \in Tasks : g # t => states[g] = task_state[g]
  BY <1>3 DEF States
<1>6. left = Running_in(states, j)
  BY <1>3, <1>5 DEF Running, Running_in
<1> HIDE DEF j, left, states
<1>7. Tasks_right(task_queue, states)
  <2>1. \A g \in Jobs : \A x \in Elements(task_queue[g]) : states[x.task] = "queued"
    BY <1>3, Not_queued DEF states
  <2>2. ASSUME NEW g \in Jobs
        PROVE  IsFiniteSet(Running_in(states, g)) /\ Cardinality(Running_in(states, g)) <= Max_tasks[g]
    <3>1. Running_in(states, g) \in SUBSET Running_in(task_state, g)
      BY <1>3, <1>5 DEF Running_in
    <3>2. IsFiniteSet(Running_in(task_state, g)) /\ Cardinality(Running_in(task_state, g)) <= Max_tasks[g]
      BY <1>3 DEF Tasks_right
    <3>3. IsFiniteSet(Running_in(states, g)) /\ Cardinality(Running_in(states, g)) <= Cardinality(Running_in(task_state, g))
      BY <3>1, <3>2, FS_Subset
    <3>4. Cardinality(Running_in(states, g)) \in Nat /\ Cardinality(Running_in(task_state, g)) \in Nat
      BY <3>2, <3>3, FS_CardinalityType
    <3>5. Max_tasks[g] \in Nat
      BY CallQueueAssumption
    <3> QED BY <3>2, <3>3, <3>4, <3>5
  <2> QED BY <1>3, <1>5, <2>1, <2>2 DEF Tasks_right
<1>8. k \in 0 .. Len(task_queue[j]) /\ Cardinality(Running_in(states, j)) + k <= Max_tasks[j]
  <2>1. IsFiniteSet(left) /\ Cardinality(left) <= Max_tasks[j]
    BY <1>4, <1>6, <1>7 DEF Tasks_right
  <2>2. Cardinality(left) \in Nat
    BY <2>1, FS_CardinalityType
  <2> QED BY <1>3, <1>4, <1>6, <2>1, <2>2, Startable_type
<1> HIDE DEF k
<1>9. /\ Tasks_right(task_queue', task_state')
      /\ \A g \in Tasks : task_state'[g] = states[g] \/ (states[g] = "queued" /\ task_state'[g] = "running")
  BY <1>1, <1>4, <1>7, <1>8, Start_first_right
<1>10. b \in Entries /\ ~Is_task_call(b)
  BY <1>4, Entries_of_jobs
<1> HIDE DEF b
<1>11. /\ Queue_right(queue', registered') /\ signaled' \in BOOLEAN
       /\ \A c \in Elements(queue') : c.entry # b => c \in Elements(Tail(queue))
  BY <1>1, <1>2, <1>3, <1>10, Times, enqueue_id_right
<1>12. Task_calls_right(Tail(queue), states)
  <2>1. \A c \in Elements(Tail(queue)) :
          c.entry \notin {Entry("onComplete", t), Entry("Task_end_completed", t), e}
    BY <1>2, <1>3 DEF Task_calls_right
  <2> QED BY <1>2, <1>3, <1>5, <2>1 DEF Task_calls_right
<1>13. Task_calls_right(queue', task_state')
  <2>1. \A g \in Tasks : task_state'[g] = states[g] \/ states[g] \notin {"completed", "closed"}
    BY <1>9
  <2>2. \A c \in Elements(queue') : c \in Elements(Tail(queue)) \/ ~Is_task_call(c.entry)
    BY <1>10, <1>11
  <2> QED BY <1>12, <2>1, <2>2, Task_calls_stay
<1> QED
  BY <1>1, <1>2, <1>3, <1>9, <1>11, <1>13, While_executing DEF IInv

-----------------------------------------------------------------------------
(* The main loop.                                                          *)

(* The end of the sleep is the time of the first call, and no call is      *)
(* earlier.                                                                *)
LEMMA nextTime_is_first ==
  ASSUME Queue_right(queue, registered)
  PROVE  nextTime(queue) \in 0 .. Never /\ \A c \in Elements(queue) : nextTime(queue) <= c.at
<1>1. CASE queue = <<>>
  BY <1>1, Times DEF nextTime, Elements
<1>2. CASE queue # <<>>
  <2>1. queue \in Seq(Calls) /\ In_order(queue)
    BY DEF Queue_right
  <2>2. Head(queue) = queue[1] /\ 1 \in DOMAIN queue /\ DOMAIN queue = 1 .. Len(queue) /\ Len(queue) \in Nat
    BY <1>2, <2>1, Tail_list, LenProperties
  <2>3. \A i \in DOMAIN queue : queue[i].at \in 0 .. Max_time
    <3>1. \A i \in DOMAIN queue : queue[i] \in Calls
      BY <2>1, <2>2, ElementOfSeq
    <3> QED BY <3>1 DEF Calls
  <2>4. \A i \in DOMAIN queue : queue[1].at <= queue[i].at
    <3> TAKE i \in DOMAIN queue
    <3>1. i = 1 \/ 1 < i
      BY <2>2
    <3> QED BY <2>1, <2>2, <2>3, <3>1, Times DEF In_order
  <2>5. nextTime(queue) = queue[1].at
    BY <1>2, <2>2 DEF nextTime
  <2> QED BY <2>2, <2>3, <2>4, <2>5, Times DEF Elements
<1> QED BY <1>1, <1>2

LEMMA Loop_IInv ==
  ASSUME IInv, Begin_turn \/ Nothing_mature \/ onEnteringSleepState \/ wait \/ Tick
  PROVE  IInv'
<1>1. /\ queue' = queue /\ registered' = registered
      /\ task_queue' = task_queue /\ task_state' = task_state /\ signaling' = signaling
  <2>1. CASE Begin_turn
    BY <2>1 DEF Begin_turn, call_vars, task_vars
  <2>2. CASE Nothing_mature
    BY <2>2 DEF Nothing_mature, call_vars, task_vars
  <2>3. CASE onEnteringSleepState
    BY <2>3 DEF onEnteringSleepState, call_vars, task_vars
  <2>4. CASE wait
    BY <2>4 DEF wait, call_vars, task_vars
  <2>5. CASE Tick
    BY <2>5 DEF Tick, call_vars, task_vars
  <2> QED BY <2>1, <2>2, <2>3, <2>4, <2>5
<1> USE DEF IInv
<1>2. Loop_right'
  <2>1. CASE Begin_turn
    BY <1>1, <2>1 DEF Begin_turn, Loop_right
  <2>2. CASE Nothing_mature
    BY <1>1, <2>2 DEF Nothing_mature, Loop_right
  <2>3. CASE onEnteringSleepState
    BY <1>1, <2>3, nextTime_is_first DEF onEnteringSleepState, Loop_right
  <2>4. CASE wait
    BY <1>1, <2>4 DEF wait, Loop_right
  <2>5. CASE Tick
    BY <1>1, <2>5, CallQueueAssumption DEF Tick, Loop_right, loop_vars
  <2> QED BY <2>1, <2>2, <2>3, <2>4, <2>5
<1>3. Sleeps_in_time'
  <2>1. CASE onEnteringSleepState
    BY <1>1, <2>1, nextTime_is_first DEF onEnteringSleepState, Sleeps_in_time
  <2>2. CASE Begin_turn \/ Nothing_mature
    BY <2>2 DEF Begin_turn, Nothing_mature, Sleeps_in_time
  <2>3. CASE wait \/ Tick
    BY <1>1, <2>3 DEF wait, Tick, Sleeps_in_time, loop_vars
  <2> QED BY <2>1, <2>2, <2>3
<1> QED
  BY <1>1, <1>2, <1>3 DEF IInv

LEMMA Next_keeps_IInv == IInv /\ [Next]_vars => IInv'
<1> SUFFICES ASSUME IInv, [Next]_vars PROVE IInv'
  OBVIOUS
<1>1. CASE UNCHANGED vars
  BY <1>1 DEF IInv, Loop_right, Sleeps_in_time, vars, call_vars, loop_vars, task_vars
<1>2. CASE Main_loop \/ Begin_turn \/ Tick
  BY <1>2, Loop_IInv, On_start_queued_task_IInv, On_below_max_tasks_IInv, On_complete_IInv,
     On_task_end_completed_IInv, On_task_closed_IInv DEF Main_loop, Execute_mature_call, Wake
<1>3. ASSUME NEW t \in Tasks,
             \/ onComplete(t) \/ signal(t) \/ kill_queued_task(t)
             \/ \E at \in Start_ats[t] : enqueue_task(t, at)
      PROVE  IInv'
  BY <1>3, onComplete_IInv, signal_IInv, kill_queued_task_IInv, enqueue_task_IInv
<1> QED
  BY <1>1, <1>2, <1>3 DEF Next

LEMMA Invariant == Spec => []IInv
BY Init_IInv, Next_keeps_IInv, PTL DEF Spec

-----------------------------------------------------------------------------
(* Every variable has a value of its type.                                 *)
THEOREM Type_correct == Spec => []TypeOK
BY Invariant, Types_of_IInv, PTL

(* A register knows the call of its entry that is in the queue, at its     *)
(* time; no entry has two calls, and no future is completed by two calls    *)
(* (Timed_call.cxx:80, StandardCallQueue.add, tryCancel).                  *)
THEOREM Registers_keep_to_the_queue == Spec => []Registers_agree_with_queue
<1>1. IInv => Registers_agree_with_queue
  BY DEF IInv, Queue_right, In_order, Elements, Registers_agree_with_queue
<1> QED
  BY <1>1, Invariant, PTL

(* The main thread sleeps through no call that is in the queue, although   *)
(* other threads put theirs into it between its last look at the queue and *)
(* the sleep (SchedulerThreadCallQueue.scala:15).                          *)
THEOREM Sleeps_end_in_time == Spec => []No_call_is_slept_through
<1>1. IInv => No_call_is_slept_through
  BY DEF IInv, Sleeps_in_time, Elements, No_call_is_slept_through
<1> QED
  BY <1>1, Invariant, PTL

(* A job, which is neither stopped nor unstopped here, never runs more     *)
(* tasks at a time than it may (task_to_start, remove_running_task).       *)
Jobs_run_few_tasks == \A j \in Jobs : Cardinality(Running(j)) <= Max_tasks[j]

THEOREM Max_tasks_is_kept == Spec => []Jobs_run_few_tasks
<1>1. IInv => Jobs_run_few_tasks
  BY Running_is_in DEF IInv, Tasks_right, Jobs_run_few_tasks
<1> QED
  BY <1>1, Invariant, PTL
================================================================================

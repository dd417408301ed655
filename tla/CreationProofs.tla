---------------------------- MODULE CreationProofs ----------------------------
(***************************************************************************)
(* Proofs about DeviceCreation and Allocator for any number of wrappers,   *)
(* addresses, plans, native instances and devices, and any capabilities,   *)
(* snapshots and descriptions; and about PhysicalSelection, which chooses  *)
(* the physical device of such a snapshot, for any machines and spans.     *)
(***************************************************************************)
EXTENDS Allocator, PhysicalSelection, FiniteSetTheorems, WellFoundedInduction, TLAPS

\* Every non-empty set of naturals has a least one.
LEMMA LeastNatural ==
    ASSUME NEW S \in SUBSET Nat, S # {}
    PROVE  \E m \in S : \A n \in S : m <= n
<1>1. PICK m \in S : \A n \in S : ~(<<n, m>> \in OpToRel(<, Nat))
  BY NatLessThanWellFounded, WFMin
<1>2. ASSUME NEW n \in S PROVE m <= n
  <2>1. ~(n < m)
    BY <1>1 DEF OpToRel
  <2> QED BY <2>1
<1> QED BY <1>2

(* Induction over the naturals, of a set instead of a predicate.            *)
LEMMA NaturalsByInduction ==
    ASSUME NEW S, 0 \in S, \A n \in Nat : n \in S => n + 1 \in S
    PROVE  \A n \in Nat : n \in S
<1> SUFFICES ASSUME Nat \ S # {} PROVE FALSE
  OBVIOUS
<1>1. PICK m \in Nat \ S : \A n \in Nat \ S : m <= n
  BY LeastNatural
<1>2. m # 0 /\ m - 1 \in Nat /\ m - 1 \notin Nat \ S
  BY <1>1
<1>3. (m - 1) + 1 \in S
  BY <1>2
<1> QED BY <1>1, <1>3

-----------------------------------------------------------------------------
(* Allocations of queues                                                   *)

SameQueue(a, b) == a.family = b.family /\ a.index = b.index

\* One allocation per queue, and the queues of a family are its first ones.
FirstQueues(S) ==
    /\ IsFiniteSet(S)
    /\ \A a \in S : a.family \in Nat /\ a.index \in Nat
    /\ \A a, b \in S : SameQueue(a, b) => a = b
    /\ \A a \in S : \A i \in 0..a.index - 1 : \E b \in S : b.family = a.family /\ b.index = i

(* Sorting loses and repeats nothing.                                       *)
LEMMA InOrderIs ==
    ASSUME NEW S, FirstQueues(S)
    PROVE  LET o == InOrder(S)
           IN  /\ o \in Seq(S) /\ Len(o) = Cardinality(S) /\ Range(o) = S
               /\ \A j, k \in DOMAIN o : j < k => Before(o[j], o[k])
<1> DEFINE n == Cardinality(S)
           Below(a) == {b \in S : Before(b, a)}
           P == [a \in S |-> 1 + Cardinality(Below(a))]
           o == InOrder(S)
<1>1. \A a, b \in S : a = b \/ Before(a, b) \/ Before(b, a)
  BY DEF FirstQueues, SameQueue, Before
<1>2. \A a, b, c \in S : ~Before(a, a) /\ (Before(a, b) /\ Before(b, c) => Before(a, c))
  BY DEF FirstQueues, Before
<1>3. n \in Nat /\ IsFiniteSet(S)
  BY FS_CardinalityType DEF FirstQueues
<1>4. ASSUME NEW a \in S
      PROVE  IsFiniteSet(Below(a)) /\ Cardinality(Below(a)) \in Nat /\ P[a] \in 1..n
  <2>1. Below(a) \subseteq S \ {a}
    BY <1>2
  <2>2. IsFiniteSet(S \ {a}) /\ Cardinality(S \ {a}) = n - 1
    BY <1>3, FS_RemoveElement
  <2>3. IsFiniteSet(Below(a)) /\ Cardinality(Below(a)) <= n - 1
    <3> HIDE DEF Below, n
    <3> QED BY <2>1, <2>2, FS_Subset
  <2>4. Cardinality(Below(a)) \in Nat
    BY <2>3, FS_CardinalityType
  <2> HIDE DEF Below, n
  <2> QED BY <1>3, <2>3, <2>4
<1>5. ASSUME NEW a \in S, NEW b \in S, Before(a, b) PROVE P[a] < P[b]
  <2>1. Below(a) \cup {a} \subseteq Below(b) /\ a \notin Below(a)
    BY <1>2, <1>5
  <2>2. Cardinality(Below(a) \cup {a}) = Cardinality(Below(a)) + 1
    <3> HIDE DEF Below
    <3> QED BY <1>4, <2>1, FS_AddElement
  <2>3. Cardinality(Below(a) \cup {a}) <= Cardinality(Below(b))
    <3> HIDE DEF Below
    <3> QED BY <1>4, <2>1, FS_Subset
  <2>4. Cardinality(Below(a)) \in Nat /\ Cardinality(Below(b)) \in Nat
    BY <1>4
  <2> HIDE DEF Below
  <2> QED BY <2>2, <2>3, <2>4
<1>6. P \in Injection(S, 1..n)
  <2>1. P \in [S -> 1..n]
    BY <1>4
  <2>2. \A a, b \in S : P[a] = P[b] => a = b
    <3> HIDE DEF P
    <3>1. \A a \in S : P[a] \in Nat
      BY <2>1, <1>3
    <3> QED BY <1>1, <1>5, <3>1
  <2> HIDE DEF P
  <2> QED BY <2>1, <2>2 DEF Injection, IsInjective
<1>7. P \in Surjection(S, 1..n)
  <2>1. IsFiniteSet(1..n) /\ Cardinality(1..n) = n
    BY <1>3, FS_Interval
  <2> HIDE DEF P
  <2> QED BY <1>6, <2>1, FS_Injection
<1>8. \A k \in 1..n : \E a \in S : P[a] = k
  <2> HIDE DEF P
  <2> QED BY <1>7 DEF Surjection, Range
<1>9. o = [k \in 1..n |-> CHOOSE a \in S : 1 + Cardinality(Below(a)) = k]
  BY DEF InOrder
<1>10. ASSUME NEW k \in 1..n PROVE o[k] \in S /\ P[o[k]] = k
  <2>1. \E a \in S : 1 + Cardinality(Below(a)) = k
    BY <1>8
  <2>2. o[k] = CHOOSE a \in S : 1 + Cardinality(Below(a)) = k
    BY <1>9
  <2> HIDE DEF Below, o
  <2>3. o[k] \in S /\ 1 + Cardinality(Below(o[k])) = k
    BY <2>1, <2>2
  <2> QED BY <2>3
<1>11. o \in Seq(S) /\ Len(o) = n /\ DOMAIN o = 1..n
  <2>1. o \in [1..n -> S]
    BY <1>9, <1>10
  <2> HIDE DEF o, n
  <2> QED BY <1>3, <2>1
<1> HIDE DEF o, P, n
<1>12. Range(o) = S
  <2>1. ASSUME NEW a \in S PROVE a \in Range(o)
    <3>1. P[a] \in 1..n
      BY <1>4
    <3>2. o[P[a]] = a
      BY <1>6, <1>10, <3>1 DEF Injection, IsInjective
    <3> QED BY <1>11, <3>1, <3>2 DEF Range
  <2> QED BY <1>10, <1>11, <2>1 DEF Range
<1>13. ASSUME NEW j \in 1..n, NEW k \in 1..n, j < k PROVE Before(o[j], o[k])
  <2>1. o[j] # o[k] /\ ~Before(o[k], o[j])
    BY <1>3, <1>5, <1>10, <1>13
  <2> QED BY <1>1, <1>10, <2>1
<1> QED BY <1>11, <1>12, <1>13 DEF o, n

(* In a sorted sequence, the one before a queue that is not its family's    *)
(* first is the queue before it.                                            *)
LEMMA Consecutive ==
    ASSUME NEW S, FirstQueues(S), NEW o \in Seq(S), Range(o) = S,
           \A j, k \in DOMAIN o : j < k => Before(o[j], o[k]),
           NEW k \in 1..Len(o)
    PROVE  /\ o[k].index = 0 => \A j \in 1..k - 1 : o[j].family # o[k].family
           /\ o[k].index # 0 => k # 1 /\ o[k - 1].family = o[k].family
                                      /\ o[k].index = o[k - 1].index + 1
<1>1. /\ Len(o) \in Nat /\ DOMAIN o = 1..Len(o)
      /\ \A j \in 1..Len(o) : o[j] \in S /\ o[j].family \in Nat /\ o[j].index \in Nat
  BY DEF FirstQueues
<1>2. ASSUME o[k].index = 0, NEW j \in 1..k - 1 PROVE o[j].family # o[k].family
  <2>1. j \in 1..Len(o) /\ Before(o[j], o[k])
    BY <1>1
  <2> QED BY <1>1, <1>2, <2>1 DEF Before
<1>3. ASSUME o[k].index # 0
      PROVE  k # 1 /\ o[k - 1].family = o[k].family /\ o[k].index = o[k - 1].index + 1
  <2>1. o[k].index - 1 \in 0..o[k].index - 1
    BY <1>1, <1>3
  <2>2. PICK b \in S : b.family = o[k].family /\ b.index = o[k].index - 1
    <3>1. \A i \in 0..o[k].index - 1 : \E b \in S : b.family = o[k].family /\ b.index = i
      BY <1>1 DEF FirstQueues
    <3> QED BY <2>1, <3>1
  <2>3. PICK j \in 1..Len(o) : b = o[j]
    BY <1>1, <2>2 DEF Range
  <2>4. o[j].family = o[k].family /\ o[j].index = o[k].index - 1
    BY <2>2, <2>3
  <2>5. j < k
    <3>1. ~Before(o[k], o[j]) /\ j # k
      BY <1>1, <2>4 DEF Before
    <3> QED BY <1>1, <3>1
  <2>6. k - 1 \in 1..Len(o) /\ k - 1 < k
    BY <1>1, <2>5
  <2>7. CASE j = k - 1
    BY <1>1, <2>4, <2>5, <2>7
  <2>8. CASE j < k - 1
    <3>1. Before(o[j], o[k - 1]) /\ Before(o[k - 1], o[k])
      BY <1>1, <2>6, <2>8
    <3> QED BY <1>1, <2>4, <2>6, <3>1 DEF Before
  <2> QED BY <1>1, <2>5, <2>7, <2>8
<1> QED BY <1>2, <1>3

Groups == [family : Nat, count : Nat, priority_offset : Nat]

\* groups are those of the first n elements of o.
GroupsOf(groups, o, n) ==
    /\ groups \in Seq(Groups)
    /\ \A k \in 1..n : \E g \in DOMAIN groups :
         /\ groups[g].family = o[k].family /\ o[k].index < groups[g].count
         /\ groups[g].priority_offset + o[k].index + 1 = k
    /\ groups = <<>> <=> n = 0
    /\ n # 0 => LET last == groups[Len(groups)]
                IN  /\ last.family = o[n].family /\ last.count = o[n].index + 1
                    /\ last.priority_offset + last.count = n

\* The last group has one more queue.
Grown(more, groups) ==
    LET l == Len(groups)
    IN  /\ more \in Seq(Groups) /\ Len(more) = l
        /\ \A g \in 1..l : g # l => more[g] = groups[g]
        /\ more[l].family = groups[l].family /\ more[l].count = groups[l].count + 1
        /\ more[l].priority_offset = groups[l].priority_offset

LEMMA GroupGrows ==
    ASSUME NEW groups \in Seq(Groups), groups # <<>>,
           NEW x, groups[Len(groups)].family = x.family
    PROVE  Grown(Group(groups, x), groups)
<1>1. PICK l : l = Len(groups)
  OBVIOUS
<1>2. PICK more : more = Group(groups, x)
  OBVIOUS
<1> DEFINE new == [family |-> groups[l].family, count |-> groups[l].count + 1,
                   priority_offset |-> groups[l].priority_offset]
<1>3. l \in Nat /\ l > 0 /\ l \in 1..l /\ DOMAIN groups = 1..l /\ groups \in [1..l -> Groups]
  BY <1>1
<1>4. more = [groups EXCEPT ![l].count = @ + 1]
  BY <1>1, <1>2, <1>3 DEF Group
<1>5. groups[l] \in Groups
  BY <1>3
<1>6. groups[l] = [family |-> groups[l].family, count |-> groups[l].count,
                   priority_offset |-> groups[l].priority_offset]
  BY <1>5 DEF Groups
<1>7. [groups[l] EXCEPT !.count = @ + 1] = new
  BY <1>6
<1>8. /\ new \in Groups /\ new.family = groups[l].family /\ new.count = groups[l].count + 1
      /\ new.priority_offset = groups[l].priority_offset
  BY <1>5 DEF Groups
<1>9. more = [groups EXCEPT ![l] = new]
  BY <1>4, <1>7
<1> HIDE DEF new
<1>10. /\ more \in [1..l -> Groups] /\ more[l] = new
       /\ \A g \in 1..l : g # l => more[g] = groups[g]
  BY <1>3, <1>8, <1>9
<1>11. more \in Seq(Groups) /\ Len(more) = l
  BY <1>3, <1>10
<1> QED BY <1>1, <1>2, <1>8, <1>10, <1>11 DEF Grown

\* A group begins after those of the last one.
Begun(more, groups, x) ==
    LET l == Len(groups)
    IN  /\ more \in Seq(Groups) /\ Len(more) = l + 1
        /\ \A g \in 1..l : more[g] = groups[g]
        /\ more[l + 1].family = x.family /\ more[l + 1].count = 1
        /\ more[l + 1].priority_offset =
             IF l = 0 THEN 0 ELSE groups[l].priority_offset + groups[l].count

LEMMA GroupBegins ==
    ASSUME NEW groups \in Seq(Groups), NEW x, x.family \in Nat,
           groups = <<>> \/ groups[Len(groups)].family # x.family
    PROVE  Begun(Group(groups, x), groups, x)
<1>1. PICK l : l = Len(groups)
  OBVIOUS
<1> DEFINE before == IF l = 0 THEN 0 ELSE groups[l].priority_offset + groups[l].count
           new == [family |-> x.family, count |-> 1, priority_offset |-> before]
<1>2. l \in Nat /\ (l # 0 => l \in 1..l /\ groups[l] \in Groups /\ groups # <<>>)
  BY <1>1
<1>3. before \in Nat
  BY <1>2 DEF Groups
<1>4. Group(groups, x) = Append(groups, new)
  BY <1>1, <1>2 DEF Group
<1>5. new \in Groups /\ new.family = x.family /\ new.count = 1 /\ new.priority_offset = before
  BY <1>3 DEF Groups
<1> HIDE DEF new, before
<1>6. /\ Append(groups, new) \in Seq(Groups) /\ Len(Append(groups, new)) = l + 1
      /\ \A g \in 1..l : Append(groups, new)[g] = groups[g]
      /\ Append(groups, new)[l + 1] = new
  BY <1>1, <1>2, <1>5
<1> QED BY <1>1, <1>4, <1>5, <1>6 DEF Begun, before

LEMMA GroupStep ==
    ASSUME NEW S, FirstQueues(S), NEW o \in Seq(S), Range(o) = S,
           \A j, k \in DOMAIN o : j < k => Before(o[j], o[k]),
           NEW n \in Nat, n + 1 <= Len(o), NEW groups, GroupsOf(groups, o, n)
    PROVE  GroupsOf(Group(groups, o[n + 1]), o, n + 1)
<1>1. /\ Len(o) \in Nat /\ n + 1 \in 1..Len(o) /\ n + 1 # 0
      /\ \A k \in 1..n + 1 : k \in 1..Len(o) /\ o[k].family \in Nat /\ o[k].index \in Nat
  BY DEF FirstQueues
<1>2. PICK x : x = o[n + 1]
  OBVIOUS
<1>3. x.family \in Nat /\ x.index \in Nat
  BY <1>1, <1>2
<1>4. /\ x.index = 0 => \A k \in 1..n : o[k].family # x.family
      /\ x.index # 0 => n # 0 /\ o[n].family = x.family /\ x.index = o[n].index + 1
  <2>1. (n + 1) - 1 = n
    OBVIOUS
  <2>2. n + 1 # 1 => n # 0
    OBVIOUS
  <2> QED BY <1>1, <1>2, <2>1, <2>2, Consecutive
<1>5. PICK l : l = Len(groups)
  OBVIOUS
<1>6. groups \in Seq(Groups) /\ (l = 0 <=> n = 0) /\ l \in Nat
  BY <1>5 DEF GroupsOf
<1>7. DOMAIN groups = 1..l /\ \A g \in 1..l : groups[g] \in Groups
  BY <1>5, <1>6
<1>8. \A k \in 1..n : \E g \in 1..l :
         /\ groups[g].family = o[k].family /\ o[k].index < groups[g].count
         /\ groups[g].priority_offset + o[k].index + 1 = k
  BY <1>7 DEF GroupsOf
<1>9. n # 0 => /\ groups[l].family = o[n].family /\ groups[l].count = o[n].index + 1
               /\ groups[l].priority_offset + groups[l].count = n
               /\ groups[l].priority_offset \in Nat
  <2>1. n # 0 => /\ groups[l].family = o[n].family /\ groups[l].count = o[n].index + 1
                 /\ groups[l].priority_offset + groups[l].count = n
    BY <1>5 DEF GroupsOf
  <2>2. n # 0 => l \in 1..l
    BY <1>6
  <2>3. n # 0 => groups[l] \in Groups
    BY <1>7, <2>2
  <2> QED BY <2>1, <2>3 DEF Groups
<1>10. PICK more : more = Group(groups, x)
  OBVIOUS
<1>11. CASE x.index # 0
  <2>1. n # 0 /\ l # 0 /\ l \in 1..l /\ groups[l].family = x.family /\ groups[l].count = x.index
        /\ groups[l].priority_offset \in Nat /\ groups[l].priority_offset + x.index = n
    BY <1>1, <1>4, <1>6, <1>9, <1>11
  <2>2. /\ more \in Seq(Groups) /\ Len(more) = l
        /\ \A g \in 1..l : g # l => more[g] = groups[g]
        /\ more[l].family = x.family /\ more[l].count = groups[l].count + 1
        /\ more[l].priority_offset = groups[l].priority_offset
    <3>1. groups # <<>> /\ groups[Len(groups)].family = x.family
      BY <1>5, <1>6, <2>1
    <3>2. Grown(more, groups)
      BY <1>6, <1>10, <3>1, GroupGrows
    <3> QED BY <1>5, <2>1, <3>2 DEF Grown
  <2>3. DOMAIN more = 1..l /\ more # <<>>
    BY <2>1, <2>2
  <2>4. ASSUME NEW k \in 1..n + 1
        PROVE  \E g \in 1..l : /\ more[g].family = o[k].family /\ o[k].index < more[g].count
                               /\ more[g].priority_offset + o[k].index + 1 = k
    <3>1. CASE k = n + 1
      <4>1. o[k] = x
        BY <1>2, <3>1
      <4>2. /\ more[l].family = o[k].family /\ o[k].index < more[l].count
            /\ more[l].priority_offset + o[k].index + 1 = k
        BY <1>3, <2>1, <2>2, <3>1, <4>1
      <4> QED BY <2>1, <4>2
    <3>2. CASE k \in 1..n
      <4>1. PICK g \in 1..l : /\ groups[g].family = o[k].family /\ o[k].index < groups[g].count
                              /\ groups[g].priority_offset + o[k].index + 1 = k
        BY <1>8, <3>2
      <4>2. CASE g = l
        <5>1. o[k].index \in Nat
          BY <1>1
        <5>2. /\ more[l].family = o[k].family /\ o[k].index < more[l].count
              /\ more[l].priority_offset + o[k].index + 1 = k
          BY <1>3, <2>1, <2>2, <4>1, <4>2, <5>1
        <5> QED BY <2>1, <5>2
      <4>3. CASE g # l
        BY <2>2, <4>1, <4>3
      <4> QED BY <4>2, <4>3
    <3> QED BY <3>1, <3>2
  <2>5. /\ more[Len(more)].family = x.family /\ more[Len(more)].count = x.index + 1
        /\ more[Len(more)].priority_offset + more[Len(more)].count = n + 1
    <3>1. /\ more[l].count = x.index + 1
          /\ more[l].priority_offset + more[l].count = n + 1
      BY <1>3, <2>1, <2>2
    <3> QED BY <2>2, <3>1
  <2>6. GroupsOf(more, o, n + 1)
    <3>1. x.family = o[n + 1].family /\ x.index = o[n + 1].index
      BY <1>2
    <3>2. more = <<>> <=> n + 1 = 0
      BY <1>1, <2>3
    <3> QED BY <2>2, <2>3, <2>4, <2>5, <3>1, <3>2 DEF GroupsOf
  <2> QED BY <1>2, <1>10, <2>6
<1>12. CASE x.index = 0
  <2>1. l # 0 => groups[l].family # x.family
    <3>1. n # 0 => n \in 1..n
      OBVIOUS
    <3> QED BY <1>4, <1>6, <1>9, <1>12, <3>1
  <2>2. /\ more \in Seq(Groups) /\ Len(more) = l + 1
        /\ \A g \in 1..l : more[g] = groups[g]
        /\ more[l + 1].family = x.family /\ more[l + 1].count = 1
        /\ l = 0 => more[l + 1].priority_offset = 0
        /\ l # 0 => more[l + 1].priority_offset = groups[l].priority_offset + groups[l].count
    <3>1. groups = <<>> \/ groups[Len(groups)].family # x.family
      BY <1>5, <1>6, <2>1
    <3>2. Begun(more, groups, x)
      BY <1>3, <1>6, <1>10, <3>1, GroupBegins
    <3> QED BY <1>5, <3>2 DEF Begun
  <2>3. more[l + 1].priority_offset = n
    BY <1>6, <1>9, <2>2
  <2>4. DOMAIN more = 1..l + 1 /\ more # <<>> /\ l + 1 \in 1..l + 1 /\ \A g \in 1..l : g \in 1..l + 1
    BY <1>6, <2>2
  <2>5. ASSUME NEW k \in 1..n + 1
        PROVE  \E g \in 1..l + 1 : /\ more[g].family = o[k].family /\ o[k].index < more[g].count
                                   /\ more[g].priority_offset + o[k].index + 1 = k
    <3>1. CASE k = n + 1
      <4>1. o[k] = x
        BY <1>2, <3>1
      <4>2. /\ more[l + 1].family = o[k].family /\ o[k].index < more[l + 1].count
            /\ more[l + 1].priority_offset + o[k].index + 1 = k
        BY <1>12, <2>2, <2>3, <3>1, <4>1
      <4> QED BY <2>4, <4>2
    <3>2. CASE k \in 1..n
      <4>1. PICK g \in 1..l : /\ groups[g].family = o[k].family /\ o[k].index < groups[g].count
                              /\ groups[g].priority_offset + o[k].index + 1 = k
        BY <1>8, <3>2
      <4> QED BY <2>2, <2>4, <4>1
    <3> QED BY <3>1, <3>2
  <2>6. /\ more[Len(more)].family = x.family /\ more[Len(more)].count = x.index + 1
        /\ more[Len(more)].priority_offset + more[Len(more)].count = n + 1
    BY <1>12, <2>2, <2>3
  <2>7. GroupsOf(more, o, n + 1)
    <3>1. x.family = o[n + 1].family /\ x.index = o[n + 1].index
      BY <1>2
    <3>2. more = <<>> <=> n + 1 = 0
      BY <1>1, <2>4
    <3> QED BY <2>2, <2>4, <2>5, <2>6, <3>1, <3>2 DEF GroupsOf
  <2> QED BY <1>2, <1>10, <2>7
<1> QED BY <1>11, <1>12

(* The groups that createDevice() asks for hold every queue at its place.   *)
LEMMA InfosHoldQueues ==
    ASSUME NEW S, FirstQueues(S), NEW o, o = InOrder(S), NEW k \in DOMAIN o
    PROVE  LET infos == QueueInfos(o)
           IN  \E g \in DOMAIN infos : /\ infos[g].family = o[k].family
                                       /\ o[k].index < Len(infos[g].priorities)
                                       /\ infos[g].priorities[o[k].index + 1] = o[k].priority
<1>1. /\ o \in Seq(S) /\ Range(o) = S
      /\ \A i, j \in DOMAIN o : i < j => Before(o[i], o[j])
  BY InOrderIs
<1> DEFINE Is(f, m) == f = [n \in 0..m |-> IF n = 0 THEN <<>> ELSE Group(f[n - 1], o[n])]
           grouped == CHOOSE f : Is(f, Len(o))
           groups == grouped[Len(o)]
<1>2. \E f : Is(f, Len(o))
  <2> DEFINE Reached == {m \in Nat : \E f : Is(f, m)}
  <2>1. 0 \in Reached
    <3>1. Is([n \in 0..0 |-> <<>>], 0)
      OBVIOUS
    <3> QED BY <3>1
  <2>2. ASSUME NEW m \in Nat, m \in Reached PROVE m + 1 \in Reached
    <3>1. PICK f : Is(f, m)
      BY <2>2
    <3> DEFINE h == [n \in 0..m + 1 |-> IF n <= m THEN f[n] ELSE Group(f[m], o[n])]
    <3>2. (\A n \in 0..m : h[n] = f[n]) /\ h[m + 1] = Group(f[m], o[m + 1])
      OBVIOUS
    <3>3. \A n \in 0..m : f[n] = IF n = 0 THEN <<>> ELSE Group(f[n - 1], o[n])
      BY <3>1
    <3>4. ASSUME NEW n \in 0..m + 1 PROVE h[n] = IF n = 0 THEN <<>> ELSE Group(h[n - 1], o[n])
      <4>1. CASE n = m + 1
        <5>1. n # 0 /\ n - 1 = m /\ h[n - 1] = f[m]
          BY <3>2, <4>1
        <5> HIDE DEF h
        <5> QED BY <3>2, <4>1, <5>1
      <4>2. CASE n \in 0..m
        <5>1. n # 0 => h[n - 1] = f[n - 1]
          BY <3>2, <4>2
        <5> HIDE DEF h
        <5> QED BY <3>2, <3>3, <4>2, <5>1
      <4> QED BY <4>1, <4>2
    <3>5. Is(h, m + 1)
      BY <3>4
    <3> HIDE DEF Is, h
    <3> QED BY <3>5
  <2> HIDE DEF Reached
  <2>3. Len(o) \in Reached
    BY <1>1, <2>1, <2>2, NaturalsByInduction
  <2> QED BY <2>3 DEF Reached
<1>3. Is(grouped, Len(o))
  BY <1>2
<1>4. QueueInfos(o) = [g \in DOMAIN groups |->
           [family |-> groups[g].family,
            priorities |-> [j \in 1..groups[g].count |->
                              o[groups[g].priority_offset + j].priority]]]
  BY DEF QueueInfos
<1> HIDE DEF grouped
<1> DEFINE Good == {n \in Nat : n <= Len(o) => GroupsOf(grouped[n], o, n)}
<1>5. 0 \in Good
  <2>1. grouped[0] = <<>>
    BY <1>1, <1>3
  <2>2. GroupsOf(<<>>, o, 0)
    BY DEF GroupsOf
  <2> HIDE DEF Is
  <2> QED BY <2>1, <2>2
<1>6. ASSUME NEW n \in Nat, n \in Good PROVE n + 1 \in Good
  <2> SUFFICES ASSUME n + 1 <= Len(o) PROVE GroupsOf(grouped[n + 1], o, n + 1)
    OBVIOUS
  <2>1. GroupsOf(grouped[n], o, n)
    BY <1>1, <1>6
  <2>2. grouped[n + 1] = Group(grouped[n], o[n + 1])
    <3>1. n + 1 \in 0..Len(o) /\ n + 1 # 0 /\ (n + 1) - 1 = n
      BY <1>1
    <3> QED BY <1>3, <3>1
  <2> HIDE DEF Is
  <2> QED BY <1>1, <2>1, <2>2, GroupStep
<1> HIDE DEF Good
<1>7. Len(o) \in Good
  BY <1>1, <1>5, <1>6, NaturalsByInduction
<1>8. GroupsOf(groups, o, Len(o))
  BY <1>1, <1>7 DEF Good
<1> HIDE DEF groups, Is
<1>9. k \in 1..Len(o) /\ o[k].index \in Nat
  BY <1>1 DEF FirstQueues
<1>10. PICK g \in DOMAIN groups : /\ groups[g].family = o[k].family /\ o[k].index < groups[g].count
                                  /\ groups[g].priority_offset + o[k].index + 1 = k
  BY <1>8, <1>9 DEF GroupsOf
<1>11. groups[g].count \in Nat /\ groups[g].priority_offset \in Nat
  <2>1. groups[g] \in Groups
    BY <1>8, <1>10 DEF GroupsOf
  <2> QED BY <2>1 DEF Groups
<1>12. PICK info : info = QueueInfos(o)[g]
  OBVIOUS
<1>13. info = [family |-> groups[g].family,
               priorities |-> [j \in 1..groups[g].count |->
                                 o[groups[g].priority_offset + j].priority]]
  BY <1>4, <1>10, <1>12
<1>14. g \in DOMAIN QueueInfos(o)
  BY <1>4, <1>10
<1>15. Len(info.priorities) = groups[g].count
  BY <1>11, <1>13
<1>16. info.priorities[o[k].index + 1] = o[k].priority
  <2>1. o[k].index + 1 \in 1..groups[g].count /\ groups[g].priority_offset + (o[k].index + 1) = k
    BY <1>9, <1>10, <1>11
  <2> QED BY <1>13, <2>1
<1>17. info.family = o[k].family
  BY <1>10, <1>13
<1> QED BY <1>10, <1>12, <1>14, <1>15, <1>16, <1>17

-----------------------------------------------------------------------------

\* What resolving leaves of the queues of a plan: its family's first ones in order,
\* each caller's at the priority the caller asked for.
Served(p) ==
    /\ FirstQueues(Range(p.allocations))
    /\ p.allocations = InOrder(Range(p.allocations))
    /\ \A id \in DOMAIN p.assignments :
         /\ p.assignments[id] \in DOMAIN p.allocations
         /\ \E q \in p.requested.queue_requests :
              q.caller_id = id /\ q.priority = p.allocations[p.assignments[id]].priority

LEMMA ChoicesServe ==
    ASSUME NEW c \in Range(Capabilities) \cup Snapshots, NEW d \in Descriptions,
           NEW choice \in QueueChoices(c, d),
           NEW p, p.requested = d, p.allocations = Allocations(choice),
           p.assignments = Assignments(choice)
    PROVE  Served(p)
<1> DEFINE wanted == DOMAIN choice
           A(q) == [family |-> choice[q][1], index |-> choice[q][2], priority |-> q.priority]
           S == {A(q) : q \in wanted}
           coordinates == {x \in (DOMAIN c.families) \X (0..Max(Range(c.families) \cup {0})) :
                             x[2] < c.families[x[1]]}
<1>1. /\ wanted \subseteq d.queue_requests /\ choice \in [wanted -> coordinates]
      /\ \A q, r \in wanted : choice[q] = choice[r] => q.priority = r.priority
      /\ \A q \in wanted : \A i \in 0..choice[q][2] - 1 :
                 \E r \in wanted : choice[r] = <<choice[q][1], i>>
  <2>1. /\ choice \in UNION {[a -> coordinates] : a \in {a \in SUBSET d.queue_requests :
                                                         a # {} /\ Required(d) \subseteq a}}
        /\ \A q, r \in wanted : choice[q] = choice[r] => q.priority = r.priority
        /\ \A q \in wanted : \A i \in 0..choice[q][2] - 1 :
                 \E r \in wanted : choice[r] = <<choice[q][1], i>>
    BY DEF QueueChoices
  <2> HIDE DEF coordinates
  <2>2. PICK a \in SUBSET d.queue_requests : choice \in [a -> coordinates]
    BY <2>1
  <2> QED BY <2>1, <2>2
<1>2. c.families \in Seq(Nat) /\ IsFiniteSet(d.queue_requests)
  BY CreationAssumption
<1>3. \A q \in wanted : /\ choice[q] = <<choice[q][1], choice[q][2]>>
                       /\ choice[q][1] \in Nat /\ choice[q][2] \in Nat
  <2>1. DOMAIN c.families \subseteq Nat
    BY <1>2
  <2>2. ASSUME NEW q \in wanted
        PROVE  choice[q] \in (DOMAIN c.families) \X (0..Max(Range(c.families) \cup {0}))
    BY <1>1, <2>2
  <2> HIDE DEF wanted
  <2>3. ASSUME NEW x \in Nat, NEW b, NEW i \in 0..b PROVE i \in Nat
    OBVIOUS
  <2> QED BY <2>1, <2>2, <2>3
<1> HIDE DEF wanted, coordinates
<1>4. IsFiniteSet(S)
  <2>1. IsFiniteSet(wanted)
    BY <1>1, <1>2, FS_Subset
  <2>2. [q \in wanted |-> A(q)] \in Surjection(wanted, S)
    <3> HIDE DEF A
    <3> QED BY DEF Surjection, Range
  <2> HIDE DEF S, A
  <2> QED BY <2>1, <2>2, FS_Surjection
<1>5. ASSUME NEW a \in S, NEW b \in S, SameQueue(a, b) PROVE a = b
  <2>1. PICK q \in wanted : a = A(q)
    OBVIOUS
  <2>2. PICK r \in wanted : b = A(r)
    OBVIOUS
  <2>3. choice[q] = choice[r]
    BY <1>3, <1>5, <2>1, <2>2 DEF SameQueue
  <2> QED BY <1>1, <2>1, <2>2, <2>3
<1>6. ASSUME NEW a \in S, NEW i \in 0..a.index - 1 PROVE \E b \in S : b.family = a.family /\ b.index = i
  <2>1. PICK q \in wanted : a = A(q)
    OBVIOUS
  <2>2. a.index = choice[q][2] /\ a.family = choice[q][1]
    BY <2>1
  <2>3. PICK r \in wanted : choice[r] = <<choice[q][1], i>>
    BY <1>1, <1>6, <2>2
  <2>4. A(r) \in S /\ A(r).family = a.family /\ A(r).index = i
    BY <2>2, <2>3
  <2> QED BY <2>4
<1>7. FirstQueues(S)
  BY <1>3, <1>4, <1>5, <1>6 DEF FirstQueues
<1>8. p.allocations = InOrder(S)
  BY DEF Allocations, wanted
<1> HIDE DEF S
<1>9. Range(p.allocations) = S /\ DOMAIN p.allocations = DOMAIN InOrder(S)
  BY <1>7, <1>8, InOrderIs
<1>10. ASSUME NEW id \in DOMAIN p.assignments
       PROVE  /\ p.assignments[id] \in DOMAIN p.allocations
              /\ \E q \in p.requested.queue_requests :
                   q.caller_id = id /\ q.priority = p.allocations[p.assignments[id]].priority
  <2> DEFINE first == CHOOSE q \in wanted : q.caller_id = id
             At(k, q) == /\ p.allocations[k].family = choice[q][1]
                         /\ p.allocations[k].index = choice[q][2]
             found(q) == CHOOSE k \in DOMAIN p.allocations : At(k, q)
  <2>1. id \in {q.caller_id : q \in wanted} /\ p.assignments[id] = found(first)
    BY DEF Assignments, wanted
  <2>2. first \in wanted /\ first.caller_id = id
    BY <2>1
  <2> HIDE DEF first
  <2>3. A(first) \in S /\ A(first).family = choice[first][1] /\ A(first).index = choice[first][2]
        /\ A(first).priority = first.priority
    BY <2>2 DEF S
  <2>4. \E k \in DOMAIN p.allocations : p.allocations[k] = A(first)
    BY <1>9, <2>3 DEF Range
  <2>5. found(first) \in DOMAIN p.allocations /\ At(found(first), first)
    <3> HIDE DEF A
    <3> QED BY <2>3, <2>4
  <2> HIDE DEF found
  <2>6. p.allocations[found(first)] \in S
    BY <1>9, <2>5 DEF Range
  <2>7. p.allocations[found(first)] = A(first)
    <3> HIDE DEF A
    <3> QED BY <1>7, <2>3, <2>5, <2>6 DEF FirstQueues, SameQueue
  <2> HIDE DEF A
  <2> QED BY <1>1, <2>1, <2>2, <2>3, <2>5, <2>7
<1> QED BY <1>7, <1>8, <1>9, <1>10 DEF Served

(* What resolveDevice() puts into a plan.                                   *)
LEMMA PlanFields ==
    ASSUME NEW parent, NEW instance, NEW gpu, NEW c \in Range(Capabilities) \cup Snapshots,
           NEW d \in Descriptions, NEW resolution \in Resolutions[c][d]
    PROVE  LET p == Plan(parent, instance, gpu, resolution)
           IN  /\ p.parent = parent /\ p.instance = instance /\ p.gpu = gpu
               /\ p.api_version = c.api_version /\ p.requested = d
               /\ p.extensions = EnabledExtensions(c, d) /\ p.features = Effective(c, d)
               /\ ResolveError(c, d) = "success" /\ Served(p)
               /\ {"parent", "instance", "gpu", "allocations"} \subseteq DOMAIN p
<1>1. resolution \in {Resolution(c, d, choice) :
            choice \in IF ResolveError(c, d) = "success" THEN QueueChoices(c, d) ELSE {}}
  BY DEF Resolutions
<1>2. PICK choice \in QueueChoices(c, d) :
        resolution = Resolution(c, d, choice) /\ ResolveError(c, d) = "success"
  BY <1>1
<1>3. PICK p : p = Plan(parent, instance, gpu, resolution)
  OBVIOUS
<1>4. /\ p.requested = d /\ p.allocations = Allocations(choice)
      /\ p.assignments = Assignments(choice)
  BY <1>2, <1>3 DEF Plan, Resolution
<1>5. Served(p)
  BY <1>4, ChoicesServe
<1> QED BY <1>2, <1>3, <1>5 DEF Plan, Resolution

-----------------------------------------------------------------------------
(* The inductive invariant of DeviceCreation                               *)

\* A native instance is owned by one wrapper, through one address.
InstancesInv ==
    /\ instances \in 0..MaxInstances
    /\ implementation \in [Instances -> InstanceImpls \cup {NoImpl}]
    /\ native \in [InstanceImpls -> 0..instances]
    /\ \A m \in InstanceImpls : native[m] # 0 <=> \E i \in Instances : implementation[i] = m
    /\ \A i, j \in Instances : i # j /\ implementation[i] = implementation[j] =>
         implementation[i] = NoImpl
    /\ \A m, n \in InstanceImpls : native[m] = native[n] /\ native[m] # 0 => m = n

\* What a plan enables is what resolving its request for its GPU decided.
Sound(p) ==
    LET c == Capabilities[p.gpu]
    IN  /\ p.gpu \in Gpus /\ p.requested \in Descriptions
        /\ ResolveError(c, p.requested) = "success"
        /\ p.api_version = c.api_version
        /\ p.extensions = EnabledExtensions(c, p.requested)
        /\ p.features = Effective(c, p.requested)
        /\ Served(p)

\* A plan from a candidate: no address but its parent's ever holds its native
\* instance, though that address may come to hold another one.
Rooted(p) ==
    /\ p.instance \in 1..instances /\ p.parent \in InstanceImpls
    /\ \A m \in InstanceImpls : native[m] = p.instance => m = p.parent
    /\ p.allocations # <<>> => Sound(p)

PlansInv ==
    /\ DOMAIN plans = Slots
    /\ \A s \in Slots : Exists(plans[s]) =>
        /\ {"parent", "instance", "gpu", "allocations"} \subseteq DOMAIN plans[s]
        /\ plans[s].gpu # NoGpu => Rooted(plans[s])

\* The native device of an implementation c is alive, was created from its plan
\* and in an instance that still lives at the address c remembers.
Backed(c) ==
    /\ c.native \in DOMAIN vulkan /\ vulkan[c.native].alive
    /\ vulkan[c.native].instance = c.plan.instance
    /\ vulkan[c.native].gpu = c.plan.gpu
    /\ vulkan[c.native].requested = c.plan.requested
    /\ vulkan[c.native].info = CreateInfo(c.plan)
    /\ c.parent \in InstanceImpls /\ native[c.parent] = c.plan.instance
    /\ c.plan.instance # 0
    /\ Sound(c.plan)

DevicesInv ==
    /\ device \in [Devices -> DeviceImpls \cup {NoImpl}]
    /\ \A d, e \in Devices : d # e /\ device[d] = device[e] => device[d] = NoImpl
    /\ DOMAIN content = DeviceImpls
    /\ vulkan \in Seq({vulkan[k] : k \in DOMAIN vulkan})
    /\ \A d \in Devices : Valid(d) => Backed(content[device[d]])
    /\ \A d, e \in Devices : Valid(d) /\ Valid(e) /\ d # e =>
         content[device[d]].native # content[device[e]].native
    /\ \A k \in Alive : \E d \in Devices : Valid(d) /\ content[device[d]].native = k

CreationInv == InstancesInv /\ PlansInv /\ DevicesInv

\* An implementation holds the views of its plan's queues.
QueuesInv ==
    \A m \in DeviceImpls : content[m] # Nothing =>
        content[m].queues = Queues(content[m].native, m, content[m].plan)

-----------------------------------------------------------------------------
(* Sequences of native devices                                             *)

LEMMA Appended ==
    ASSUME NEW s, s \in Seq({s[k] : k \in DOMAIN s}), NEW x, NEW t, t = Append(s, x)
    PROVE  /\ Len(s) \in Nat /\ DOMAIN s = 1..Len(s)
           /\ Len(t) = Len(s) + 1 /\ DOMAIN t = 1..Len(t)
           /\ \A k \in 1..Len(s) : t[k] = s[k]
           /\ t[Len(t)] = x
           /\ t \in Seq({t[k] : k \in DOMAIN t})
<1> DEFINE S == {s[k] : k \in DOMAIN s} \cup {x}
<1>1. s \in Seq(S)
  OBVIOUS
<1>2. t \in Seq(S) /\ Len(t) = Len(s) + 1
  BY <1>1
<1>3. /\ Len(s) \in Nat /\ DOMAIN s = 1..Len(s) /\ DOMAIN t = 1..Len(t)
      /\ \A k \in 1..Len(s) : t[k] = s[k]
      /\ t[Len(t)] = x
  BY <1>1, <1>2
<1>4. t \in Seq({t[k] : k \in DOMAIN t})
  BY <1>2, <1>3
<1> QED BY <1>2, <1>3, <1>4

LEMMA Rewritten ==
    ASSUME NEW s, s \in Seq({s[k] : k \in DOMAIN s}), NEW t, DOMAIN t = DOMAIN s,
           t = [k \in DOMAIN t |-> t[k]]
    PROVE  t \in Seq({t[k] : k \in DOMAIN t})
<1>1. Len(s) \in Nat /\ DOMAIN t = 1..Len(s)
  OBVIOUS
<1> QED BY <1>1

-----------------------------------------------------------------------------
(* What the invariant says                                                 *)

LEMMA InstancesAreTheirs == CreationInv => DeviceIsFromItsInstance
<1> SUFFICES ASSUME CreationInv PROVE DeviceIsFromItsInstance
  OBVIOUS
<1> USE DEF CreationInv, InstancesInv, PlansInv, DevicesInv
<1>1. ASSUME NEW i \in Instances, NEW s \in Slots, MayCreate(s)
      PROVE  CreateError(i, plans[s]) = "parent_mismatch" <=>
                /\ implementation[i] # NoImpl /\ plans[s].gpu # NoGpu
                /\ native[implementation[i]] # plans[s].instance
  <2>1. CreateError(i, plans[s]) = "parent_mismatch" <=>
          /\ implementation[i] # NoImpl /\ plans[s].gpu # NoGpu
          /\ plans[s].parent # implementation[i]
    BY DEF CreateError
  <2>2. ASSUME implementation[i] # NoImpl, plans[s].gpu # NoGpu
        PROVE  plans[s].parent # implementation[i] <=>
                 native[implementation[i]] # plans[s].instance
    <3>1. Rooted(plans[s]) /\ \E m \in InstanceImpls : native[m] = plans[s].instance
      BY <1>1, <2>2 DEF MayCreate, ParentLives
    <3>2. native[plans[s].parent] = plans[s].instance
      BY <3>1 DEF Rooted
    <3> QED BY <2>2, <3>1, <3>2 DEF Rooted
  <2> QED BY <2>1, <2>2
<1>2. ASSUME NEW d \in Devices, Valid(d)
      PROVE  LET impl == content[device[d]]
             IN  /\ vulkan[impl.native].instance = impl.plan.instance
                 /\ \A i \in Instances :
                      DeviceCorrelated(d, i) <=>
                         /\ implementation[i] # NoImpl
                         /\ native[implementation[i]] = impl.plan.instance
  <2>1. Backed(content[device[d]])
    BY <1>2
  <2> QED BY <1>2, <2>1 DEF Backed, DeviceCorrelated
<1> QED BY <1>1, <1>2 DEF DeviceIsFromItsInstance

LEMMA DevicesAreOwned == CreationInv => NativeDevicesAreOwned
BY DEF CreationInv, DevicesInv, NativeDevicesAreOwned, Backed, Alive

(* A plan that resolving made enables what was asked for.                   *)
LEMMA SoundPlans ==
    ASSUME NEW p, Sound(p)
    PROVE  LET c == Capabilities[p.gpu]
               r == p.requested
               info == CreateInfo(p)
           IN  /\ info.features = (r.required_features \cup r.optional_features) \cap c.features
               /\ r.required_features \subseteq info.features
               /\ info.chain \subseteq c.versions
               /\ info.extensions = Range(r.required_extensions \o r.optional_extensions)
                                       \cap Range(c.extensions)
               /\ Range(r.required_extensions) \subseteq info.extensions
               /\ ~PrerequisiteMissing(info.features)
<1> DEFINE c == Capabilities[p.gpu]
           r == p.requested
           info == CreateInfo(p)
<1>1. /\ p.gpu \in Gpus /\ r \in Descriptions
      /\ c.versions \subseteq {11, 12, 13}
      /\ \A f \in c.features : f[1] = 10 \/ f[1] \in c.versions
  BY CreationAssumption DEF Sound
<1>2. /\ Range(r.required_extensions) \subseteq Range(c.extensions)
      /\ \A f \in r.required_features : Supported(c, f)
      /\ ~PrerequisiteMissing(Effective(c, r))
  BY DEF Sound, ResolveError
<1>3. /\ p.features = Effective(c, r) /\ p.extensions = EnabledExtensions(c, r)
  BY DEF Sound
<1>4. /\ info.chain = FeatureChain(p) /\ info.extensions = p.extensions
      /\ info.features = {f \in p.features : f[1] = 10 \/ f[1] \in FeatureChain(p)}
  BY DEF CreateInfo
<1>5. Effective(c, r) = (r.required_features \cup r.optional_features) \cap c.features
  BY <1>1 DEF Effective, Supported
<1>6. info.features = Effective(c, r)
  BY <1>1, <1>3, <1>4, <1>5 DEF FeatureChain
<1>7. info.chain \subseteq c.versions
  BY <1>1, <1>3, <1>4, <1>5 DEF FeatureChain
<1>8. r.required_features \subseteq info.features
  BY <1>2, <1>6 DEF Effective
<1>9. Range(r.required_extensions) \subseteq Range(r.required_extensions \o r.optional_extensions)
  <2> DEFINE a == r.required_extensions
             b == r.optional_extensions
  <2>1. a \in Seq(STRING) /\ b \in Seq(STRING)
    BY <1>1, CreationAssumption
  <2>2. DOMAIN a \subseteq DOMAIN (a \o b) /\ \A k \in DOMAIN a : (a \o b)[k] = a[k]
    <3> HIDE DEF a, b, r, c, info
    <3> QED BY <2>1
  <2>3. ASSUME NEW x \in Range(a) PROVE x \in Range(a \o b)
    <3> HIDE DEF a, b, r, c, info
    <3>1. PICK k \in DOMAIN a : x = a[k]
      BY <2>3 DEF Range
    <3> QED BY <2>2, <3>1 DEF Range
  <2> QED BY <2>3
<1> QED BY <1>2, <1>3, <1>4, <1>5, <1>6, <1>7, <1>8, <1>9 DEF EnabledExtensions

LEMMA QueuesServe == CreationInv /\ QueuesInv => QueuesServeTheirCallers
<1> SUFFICES ASSUME CreationInv, QueuesInv, NEW d \in Devices, Valid(d), NEW id \in CallerIds
             PROVE  LET impl == content[device[d]]
                        created == vulkan[impl.native].info.queues
                    IN  IF id \notin DOMAIN impl.plan.assignments THEN Queue(d, id) = NoView
                        ELSE /\ Queue(d, id).native = impl.native
                             /\ \A e \in Devices : Correlated(Queue(d, id), e) <=> e = d
                             /\ \E g \in DOMAIN created, q \in impl.plan.requested.queue_requests :
                                  /\ created[g].family = Queue(d, id).family
                                  /\ Queue(d, id).index < Len(created[g].priorities)
                                  /\ q.caller_id = id
                                  /\ created[g].priorities[Queue(d, id).index + 1] = q.priority
  BY DEF QueuesServeTheirCallers
<1> DEFINE m == device[d]
           impl == content[m]
           p == impl.plan
           o == p.allocations
           created == vulkan[impl.native].info.queues
<1>1. m \in DeviceImpls /\ Backed(impl) /\ Served(p) /\ impl.native \in Nat \ {0}
  <2>1. m \in DeviceImpls /\ Backed(impl) /\ DOMAIN vulkan \subseteq Nat \ {0}
    BY DEF CreationInv, DevicesInv, Valid
  <2> HIDE DEF m
  <2> QED BY <2>1 DEF Backed, Sound
<1>2. impl.queues = Queues(impl.native, m, p)
  BY <1>1 DEF QueuesInv, Nothing
<1>3. FirstQueues(Range(o)) /\ o = InOrder(Range(o)) /\ OrderedAllocations(p) = o
  BY <1>1 DEF Served, OrderedAllocations
<1>4. created = QueueInfos(o)
  BY <1>1, <1>3 DEF Backed, CreateInfo
<1>5. impl.queues = [k \in DOMAIN o |->
        [native |-> impl.native, parent |-> m, family |-> o[k].family, index |-> o[k].index]]
  BY <1>2, <1>3 DEF Queues
<1>6. CASE id \notin DOMAIN p.assignments
  BY <1>6 DEF Queue
<1>7. CASE id \in DOMAIN p.assignments
  <2>1. PICK k \in DOMAIN o : k = p.assignments[id]
    BY <1>1, <1>7 DEF Served
  <2>2. PICK a : a = o[k]
    OBVIOUS
  <2>3. PICK q \in p.requested.queue_requests : q.caller_id = id /\ q.priority = a.priority
    BY <1>1, <1>7, <2>1, <2>2 DEF Served
  <2>4. PICK views : views = impl.queues
    OBVIOUS
  <2>5. /\ DOMAIN views = DOMAIN o
        /\ \A j \in DOMAIN o : /\ views[j].family = o[j].family /\ views[j].index = o[j].index
                               /\ views[j].native = impl.native /\ views[j].parent = m
    <3> HIDE DEF impl, o, m
    <3> QED BY <1>5, <2>4
  <2> DEFINE hits == {j \in DOMAIN views : views[j].family = a.family /\ views[j].index = a.index}
  <2>6. k \in hits /\ hits \in SUBSET Nat
    <3>1. DOMAIN o \subseteq Nat
      BY <1>3, InOrderIs
    <3> HIDE DEF o
    <3> QED BY <2>1, <2>2, <2>5, <3>1
  <2>7. Min(hits) \in hits
    <3> HIDE DEF hits
    <3> QED BY <2>6, LeastNatural DEF Min
  <2>8. PICK v : v = views[Min(hits)]
    OBVIOUS
  <2>9. Queue(d, id) = v
    BY <1>7, <2>1, <2>2, <2>4, <2>6, <2>8 DEF Queue
  <2>10. v.family = a.family /\ v.index = a.index /\ v.native = impl.native /\ v.parent = m
    <3> HIDE DEF o, impl, m
    <3> QED BY <2>5, <2>7, <2>8
  <2> HIDE DEF hits
  <2>11. v # NoView
    BY <1>1, <2>10 DEF NoView
  <2>12. \A e \in Devices : Correlated(v, e) <=> e = d
    BY <2>10, <2>11 DEF Correlated, Valid, CreationInv, DevicesInv
  <2>13. PICK g \in DOMAIN created : /\ created[g].family = o[k].family
                                     /\ o[k].index < Len(created[g].priorities)
                                     /\ created[g].priorities[o[k].index + 1] = o[k].priority
    <3> HIDE DEF o, created
    <3> QED BY <1>3, <1>4, InfosHoldQueues
  <2> QED BY <1>7, <2>2, <2>3, <2>9, <2>10, <2>12, <2>13
<1> QED BY <1>6, <1>7

LEMMA AskedIsEnabled == CreationInv => EnablesWhatWasAsked
<1> SUFFICES ASSUME CreationInv PROVE EnablesWhatWasAsked
  OBVIOUS
<1>1. ASSUME NEW k \in Alive
      PROVE  \E p : /\ Sound(p) /\ vulkan[k].gpu = p.gpu /\ vulkan[k].requested = p.requested
                    /\ vulkan[k].info = CreateInfo(p)
  <2>1. PICK d \in Devices : Valid(d) /\ content[device[d]].native = k
    BY DEF CreationInv, DevicesInv
  <2>2. Backed(content[device[d]])
    BY <2>1 DEF CreationInv, DevicesInv
  <2> QED BY <2>1, <2>2 DEF Backed
<1> QED BY <1>1, SoundPlans DEF EnablesWhatWasAsked

-----------------------------------------------------------------------------
(* Initial states and steps                                                *)

LEMMA CreationStarts == Init => CreationInv
<1> SUFFICES ASSUME Init PROVE CreationInv
  OBVIOUS
<1>1. InstancesInv
  BY CreationAssumption DEF Init, InstancesInv
<1>2. PlansInv
  BY DEF Init, PlansInv, NoPlan, Exists
<1>3. DevicesInv
  BY CreationAssumption DEF Init, DevicesInv, Valid, Alive
<1> QED BY <1>1, <1>2, <1>3 DEF CreationInv

(* A plan and an implementation outlive whatever their instance outlives.   *)
LEMMA RootedKept ==
    ASSUME NEW p, Rooted(p), InstancesInv, instances' \in Nat, instances' >= instances,
           \A m \in InstanceImpls : native'[m] = p.instance => native[m] = p.instance
    PROVE  Rooted(p)'
BY DEF Rooted, InstancesInv, Sound

LEMMA BackedKept ==
    ASSUME NEW c, Backed(c), c.native \in DOMAIN vulkan',
           vulkan'[c.native] = vulkan[c.native], native'[c.parent] = native[c.parent]
    PROVE  Backed(c)'
BY DEF Backed, Sound, CreateInfo

(* The devices are untouched by what happens to instances without devices.  *)
LEMMA DevicesUntouched ==
    ASSUME DevicesInv, UNCHANGED deviceVars,
           \A d \in Devices : Valid(d) =>
             native'[content[device[d]].parent] = native[content[device[d]].parent]
    PROVE  DevicesInv'
<1>1. ASSUME NEW d \in Devices, Valid(d) PROVE Backed(content[device[d]])'
  <2>1. Backed(content[device[d]])
    BY <1>1 DEF DevicesInv
  <2>2. content[device[d]].native \in DOMAIN vulkan
    BY <2>1 DEF Backed
  <2> QED BY <1>1, <2>1, <2>2, BackedKept DEF deviceVars
<1> QED BY <1>1 DEF DevicesInv, deviceVars, Valid, Alive

LEMMA CreateInstanceStep ==
    ASSUME CreationInv, NEW i \in Instances, CreateInstance(i)
    PROVE  CreationInv'
<1> USE DEF CreationInv
<1>1. PICK m \in InstanceImpls :
        /\ native[m] = 0
        /\ implementation' = [implementation EXCEPT ![i] = m]
        /\ native' = [native EXCEPT ![m] = instances + 1]
  BY DEF CreateInstance
<1>2. /\ instances \in Nat /\ instances < MaxInstances /\ implementation[i] = NoImpl
      /\ instances' = instances + 1 /\ UNCHANGED <<plans, deviceVars>>
  BY CreationAssumption DEF CreateInstance, InstancesInv
<1>3. InstancesInv'
  <2>1. m # NoImpl /\ \A j \in Instances : implementation[j] # m
    BY <1>1, CreationAssumption DEF InstancesInv
  <2>2. instances' \in 0..MaxInstances /\ native' \in [InstanceImpls -> 0..instances']
    BY <1>1, <1>2, CreationAssumption DEF InstancesInv
  <2>3. implementation' \in [Instances -> InstanceImpls \cup {NoImpl}]
    BY <1>1 DEF InstancesInv
  <2>4. \A n \in InstanceImpls :
          native'[n] # 0 <=> \E j \in Instances : implementation'[j] = n
    BY <1>1, <1>2, <2>1, CreationAssumption DEF InstancesInv
  <2>5. \A j, k \in Instances : j # k /\ implementation'[j] = implementation'[k] =>
          implementation'[j] = NoImpl
    BY <1>1, <2>1 DEF InstancesInv
  <2>6. \A n, o \in InstanceImpls : native'[n] = native'[o] /\ native'[n] # 0 => n = o
    BY <1>1, <1>2 DEF InstancesInv
  <2> QED BY <2>2, <2>3, <2>4, <2>5, <2>6 DEF InstancesInv
<1>4. PlansInv'
  <2>1. ASSUME NEW p, Rooted(p) PROVE Rooted(p)'
    <3>1. \A n \in InstanceImpls : native'[n] = p.instance => native[n] = p.instance
      BY <1>1, <1>2, <2>1 DEF Rooted, InstancesInv
    <3> QED BY <1>2, <2>1, <3>1, RootedKept
  <2> QED BY <1>2, <2>1 DEF PlansInv
<1>5. DevicesInv'
  BY <1>1, <1>2, DevicesUntouched DEF DevicesInv, Backed
<1> QED BY <1>3, <1>4, <1>5

(* An instance ends, and with it what the wrapper that gives up its address *)
(* reached; its devices are gone by then.                                   *)
LEMMA InstanceEnds ==
    ASSUME CreationInv, NEW m \in InstanceImpls \cup {NoImpl}, MayEnd(m), native' = Ended(m),
           UNCHANGED <<instances, plans, deviceVars>>
    PROVE  PlansInv' /\ DevicesInv'
<1> USE DEF CreationInv
<1>1. \A n \in InstanceImpls : native'[n] = IF n = m THEN 0 ELSE native[n]
  BY DEF Ended
<1>2. PlansInv'
  <2>1. ASSUME NEW p, Rooted(p) PROVE Rooted(p)'
    <3>1. \A n \in InstanceImpls : native'[n] = p.instance => native[n] = p.instance
      BY <1>1, <2>1 DEF Rooted, InstancesInv
    <3>2. instances' \in Nat /\ instances' >= instances
      BY CreationAssumption DEF InstancesInv
    <3> QED BY <2>1, <3>1, <3>2, RootedKept
  <2> QED BY <2>1 DEF PlansInv
<1>3. ASSUME NEW d \in Devices, Valid(d) PROVE content[device[d]].parent # m
  <2>1. Backed(content[device[d]])
    BY <1>3 DEF DevicesInv
  <2>2. content[device[d]].native \in DevicesOf(native[content[device[d]].parent])
    BY <2>1 DEF Backed, DevicesOf
  <2> QED BY <2>1, <2>2 DEF MayEnd, Backed
<1>4. \A d \in Devices : Valid(d) =>
        native'[content[device[d]].parent] = native[content[device[d]].parent]
  BY <1>1, <1>3 DEF DevicesInv, Backed
<1> QED BY <1>2, <1>4, DevicesUntouched

LEMMA InstanceSteps ==
    ASSUME CreationInv,
           \/ \E from, to \in Instances : MoveInstance(from, to)
           \/ \E i \in Instances : DestroyInstance(i)
    PROVE  CreationInv'
<1> USE DEF CreationInv
<1>1. CASE \E from, to \in Instances : MoveInstance(from, to)
  <2>1. PICK from \in Instances, to \in Instances : MoveInstance(from, to)
    BY <1>1
  <2>2. PlansInv' /\ DevicesInv'
    BY <2>1, InstanceEnds DEF MoveInstance, InstancesInv
  <2>3. InstancesInv'
    <3>1. /\ from # to /\ instances' = instances
          /\ \A n \in InstanceImpls : native'[n] = IF n = implementation[to] THEN 0 ELSE native[n]
          /\ \A i \in Instances : implementation'[i] =
               IF i = from THEN NoImpl ELSE IF i = to THEN implementation[from]
               ELSE implementation[i]
      BY <2>1 DEF MoveInstance, Ended, InstancesInv
    <3>2. /\ instances' \in 0..MaxInstances
          /\ implementation' \in [Instances -> InstanceImpls \cup {NoImpl}]
          /\ native' \in [InstanceImpls -> 0..instances']
      BY <2>1, CreationAssumption DEF MoveInstance, Ended, InstancesInv
    <3>3. ASSUME NEW n \in InstanceImpls
          PROVE  native'[n] # 0 <=> \E i \in Instances : implementation'[i] = n
      <4>1. n # NoImpl
        BY CreationAssumption
      <4>2. native[n] # 0 <=> \E i \in Instances : implementation[i] = n
        BY DEF InstancesInv
      <4>3. CASE n = implementation[to]
        <5>1. \A i \in Instances : i # to => implementation[i] # n
          BY <4>1, <4>3 DEF InstancesInv
        <5> QED BY <3>1, <4>1, <4>3, <5>1
      <4>4. CASE n # implementation[to]
        <5>1. native'[n] = native[n]
          BY <3>1, <4>4
        <5>2. ASSUME NEW i \in Instances, implementation[i] = n
              PROVE  implementation'[IF i = from THEN to ELSE i] = n
          BY <3>1, <4>4, <5>2
        <5>3. ASSUME NEW i \in Instances, implementation'[i] = n
              PROVE  implementation[IF i = to THEN from ELSE i] = n
          BY <3>1, <4>1, <5>3
        <5> QED BY <4>2, <5>1, <5>2, <5>3
      <4> QED BY <4>3, <4>4
    <3>4. \A i, j \in Instances : i # j /\ implementation'[i] = implementation'[j] =>
            implementation'[i] = NoImpl
      BY <3>1 DEF InstancesInv
    <3>5. \A n, o \in InstanceImpls : native'[n] = native'[o] /\ native'[n] # 0 => n = o
      BY <3>1 DEF InstancesInv
    <3> QED BY <3>2, <3>3, <3>4, <3>5 DEF InstancesInv
  <2> QED BY <2>2, <2>3
<1>2. CASE \E i \in Instances : DestroyInstance(i)
  <2>1. PICK i \in Instances : DestroyInstance(i)
    BY <1>2
  <2>2. PlansInv' /\ DevicesInv'
    BY <2>1, InstanceEnds DEF DestroyInstance, InstancesInv
  <2>3. InstancesInv'
    BY <2>1, CreationAssumption DEF DestroyInstance, Ended, InstancesInv
  <2> QED BY <2>2, <2>3
<1> QED BY <1>1, <1>2

LEMMA ResolveStep ==
    ASSUME CreationInv, NEW s \in Slots, NEW parent, NEW instance, NEW gpu,
           NEW c \in Range(Capabilities) \cup Snapshots, NEW d \in Descriptions,
           Resolve(s, parent, instance, gpu, c, d),
           gpu # NoGpu =>
             /\ gpu \in Gpus /\ c = Capabilities[gpu]
             /\ parent \in InstanceImpls /\ instance = native[parent] /\ instance # 0
    PROVE  CreationInv'
<1> USE DEF CreationInv
<1>1. PICK resolution \in Resolutions[c][d] :
        plans' = [plans EXCEPT ![s] = Plan(parent, instance, gpu, resolution)]
  BY DEF Resolve
<1> DEFINE p == Plan(parent, instance, gpu, resolution)
<1>2. /\ p.parent = parent /\ p.instance = instance /\ p.gpu = gpu
      /\ p.api_version = c.api_version /\ p.requested = d
      /\ p.extensions = EnabledExtensions(c, d) /\ p.features = Effective(c, d)
      /\ ResolveError(c, d) = "success" /\ Served(p)
      /\ {"parent", "instance", "gpu", "allocations"} \subseteq DOMAIN p
  BY PlanFields
<1> HIDE DEF p
<1>3. UNCHANGED <<instanceVars, deviceVars>>
  BY DEF Resolve
<1>4. InstancesInv'
  BY <1>3 DEF InstancesInv, instanceVars
<1>5. ASSUME gpu # NoGpu PROVE Rooted(p)
  BY <1>2, <1>5 DEF Rooted, Sound, InstancesInv
<1>6. PlansInv'
  <2>1. ASSUME NEW q, Rooted(q) PROVE Rooted(q)'
    BY <1>3, <2>1 DEF Rooted, Sound, instanceVars
  <2> QED BY <1>1, <1>2, <1>5, <2>1 DEF PlansInv, p
<1>7. DevicesInv'
  BY <1>3, DevicesUntouched DEF instanceVars
<1> QED BY <1>4, <1>6, <1>7

LEMMA ResolveSteps ==
    ASSUME CreationInv,
           \/ \E s \in Slots, i \in Instances, g \in Gpus, d \in Descriptions :
                ResolveCandidate(s, i, g, d)
           \/ \E s \in Slots, c \in Snapshots, d \in Descriptions : ResolveSnapshot(s, c, d)
    PROVE  CreationInv'
<1>1. CASE \E s \in Slots, i \in Instances, g \in Gpus, d \in Descriptions :
             ResolveCandidate(s, i, g, d)
  <2>1. PICK s \in Slots, i \in Instances, g \in Gpus, d \in Descriptions :
          ResolveCandidate(s, i, g, d)
    BY <1>1
  <2>2. /\ implementation[i] \in InstanceImpls /\ native[implementation[i]] # 0
        /\ Resolve(s, implementation[i], native[implementation[i]], g, Capabilities[g], d)
    BY <2>1 DEF ResolveCandidate, CreationInv, InstancesInv
  <2>3. Capabilities[g] \in Range(Capabilities) \cup Snapshots
    BY DEF Range, Gpus
  <2> QED BY <2>2, <2>3, ResolveStep
<1>2. CASE \E s \in Slots, c \in Snapshots, d \in Descriptions : ResolveSnapshot(s, c, d)
  BY <1>2, ResolveStep DEF ResolveSnapshot
<1> QED BY <1>1, <1>2

LEMMA MovePlanAwayStep ==
    ASSUME CreationInv, NEW s \in Slots, MovePlanAway(s)
    PROVE  CreationInv'
<1> USE DEF CreationInv
<1>1. UNCHANGED <<instanceVars, deviceVars>> /\ plans' = [plans EXCEPT ![s] = MovedFrom(plans[s])]
  BY DEF MovePlanAway
<1> DEFINE p == plans[s]
           q == MovedFrom(plans[s])
<1>2. /\ DOMAIN q = DOMAIN p
      /\ {"parent", "instance", "gpu", "allocations"} \subseteq DOMAIN p
      /\ q.parent = p.parent /\ q.instance = p.instance /\ q.gpu = p.gpu /\ q.allocations = <<>>
  BY DEF MovedFrom, MovePlanAway, PlansInv
<1>3. ASSUME p.gpu # NoGpu PROVE Rooted(q)
  BY <1>2, <1>3 DEF Rooted, PlansInv, MovePlanAway
<1> HIDE DEF p, q
<1>4. PlansInv'
  <2>1. ASSUME NEW r, Rooted(r) PROVE Rooted(r)'
    BY <1>1, <2>1 DEF Rooted, Sound, instanceVars
  <2> QED BY <1>1, <1>2, <1>3, <2>1 DEF PlansInv, p, q
<1>5. DevicesInv'
  BY <1>1, DevicesUntouched DEF instanceVars
<1>6. InstancesInv'
  BY <1>1 DEF InstancesInv, instanceVars
<1> QED BY <1>4, <1>5, <1>6

(* A plan that createDevice() accepts is sound and its instance lives.      *)
LEMMA Accepted ==
    ASSUME CreationInv, NEW i \in Instances, NEW s \in Slots, MayCreate(s),
           CreateError(i, plans[s]) = "success"
    PROVE  LET p == plans[s]
           IN  /\ Sound(p) /\ implementation[i] \in InstanceImpls
               /\ native[implementation[i]] = p.instance /\ p.instance # 0
<1> DEFINE p == plans[s]
<1>1. /\ implementation[i] # NoImpl /\ p.gpu # NoGpu /\ p.parent = implementation[i]
      /\ p.allocations # <<>>
  BY DEF CreateError, InvalidStructure
<1>2. Exists(p) /\ \E m \in InstanceImpls : native[m] = p.instance
  BY <1>1 DEF MayCreate, ParentLives
<1>3. Rooted(p)
  BY <1>1, <1>2 DEF CreationInv, PlansInv
<1> QED BY <1>1, <1>2, <1>3 DEF Rooted, CreationInv, InstancesInv

(* The plans and the instances are untouched by what happens to devices.    *)
LEMMA InstancesUntouched ==
    ASSUME InstancesInv, PlansInv, UNCHANGED <<instanceVars, plans>>
    PROVE  InstancesInv' /\ PlansInv'
<1>1. ASSUME NEW r, Rooted(r) PROVE Rooted(r)'
  BY <1>1 DEF Rooted, Sound, instanceVars
<1> QED BY <1>1 DEF InstancesInv, PlansInv, instanceVars

LEMMA CreateUnwindsStep ==
    ASSUME CreationInv, NEW i \in Instances, NEW s \in Slots, CreateUnwinds(i, s)
    PROVE  CreationInv'
<1>1. /\ vulkan' = Append(vulkan, Destroyed) /\ UNCHANGED <<instanceVars, plans, device, content>>
      /\ InstancesInv /\ PlansInv /\ DevicesInv
  BY DEF CreateUnwinds, CreationInv
<1>2. /\ Len(vulkan) \in Nat /\ DOMAIN vulkan = 1..Len(vulkan)
      /\ Len(vulkan') = Len(vulkan) + 1 /\ DOMAIN vulkan' = 1..Len(vulkan')
      /\ \A k \in 1..Len(vulkan) : vulkan'[k] = vulkan[k]
      /\ vulkan'[Len(vulkan')] = Destroyed
      /\ vulkan' \in Seq({vulkan'[k] : k \in DOMAIN vulkan'})
  BY <1>1, Appended DEF DevicesInv
<1>3. ASSUME NEW d \in Devices, Valid(d)' PROVE Valid(d) /\ Backed(content[device[d]])'
  <2>1. Valid(d) /\ Backed(content[device[d]])
    BY <1>1, <1>3 DEF Valid, DevicesInv
  <2>2. content[device[d]].native \in 1..Len(vulkan)
    BY <1>2, <2>1 DEF Backed
  <2>3. /\ content[device[d]].native \in DOMAIN vulkan'
        /\ vulkan'[content[device[d]].native] = vulkan[content[device[d]].native]
    BY <1>2, <2>2
  <2> QED BY <1>1, <2>1, <2>3, BackedKept DEF instanceVars
<1>4. \A k \in Alive' : k \in Alive
  BY <1>2 DEF Alive, Destroyed
<1>5. DevicesInv'
  BY <1>1, <1>2, <1>3, <1>4 DEF DevicesInv, Valid
<1> QED BY <1>1, <1>5, InstancesUntouched DEF CreationInv

LEMMA CreateStep ==
    ASSUME CreationInv, NEW d \in Devices, NEW i \in Instances, NEW s \in Slots, Create(d, i, s)
    PROVE  CreationInv'
<1>1. /\ vulkan' = Append(vulkan, Native(i, plans[s])) /\ UNCHANGED <<instanceVars, plans>>
      /\ InstancesInv /\ PlansInv /\ DevicesInv /\ ~Valid(d)
  BY DEF Create, CreationInv
<1>2. PICK m \in DeviceImpls :
        /\ content[m] = Nothing
        /\ content' = [content EXCEPT ![m] =
             [native |-> Len(vulkan'), plan |-> plans[s], parent |-> implementation[i],
              queues |-> Queues(Len(vulkan'), m, plans[s])]]
        /\ device' = [device EXCEPT ![d] = m]
  BY DEF Create
\* The plan, the native device and the implementation, as they are now.
<1>3. PICK p : p = plans[s]
  OBVIOUS
<1>4. PICK x : x = Native(i, p)
  OBVIOUS
<1>5. PICK c : c = [native |-> Len(vulkan'), plan |-> p, parent |-> implementation[i],
                    queues |-> Queues(Len(vulkan'), m, p)]
  OBVIOUS
<1>6. /\ Len(vulkan) \in Nat /\ DOMAIN vulkan = 1..Len(vulkan)
      /\ Len(vulkan') = Len(vulkan) + 1 /\ DOMAIN vulkan' = 1..Len(vulkan')
      /\ \A k \in 1..Len(vulkan) : vulkan'[k] = vulkan[k]
      /\ vulkan'[Len(vulkan')] = x
      /\ vulkan' \in Seq({vulkan'[k] : k \in DOMAIN vulkan'})
  <2>1. vulkan' = Append(vulkan, x) /\ vulkan \in Seq({vulkan[k] : k \in DOMAIN vulkan})
    BY <1>1, <1>3, <1>4 DEF DevicesInv
  <2> QED BY <2>1, Appended
<1>7. Sound(p) /\ implementation[i] \in InstanceImpls
      /\ native[implementation[i]] = p.instance /\ p.instance # 0
  BY <1>3, Accepted DEF Create
<1>8. /\ x.alive /\ x.instance = p.instance /\ x.gpu = p.gpu /\ x.requested = p.requested
      /\ x.info = CreateInfo(p)
  BY <1>4, <1>7 DEF Native
<1>9. /\ c.native = Len(vulkan') /\ c.plan = p /\ c.parent = implementation[i]
      /\ content' = [content EXCEPT ![m] = c]
  BY <1>2, <1>3, <1>5
<1>10. m # NoImpl /\ \A e \in Devices : device[e] # m
  <2>1. m # NoImpl
    BY CreationAssumption
  <2>2. ASSUME NEW e \in Devices, device[e] = m PROVE FALSE
    <3>1. Backed(content[m])
      BY <1>1, <2>1, <2>2 DEF DevicesInv, Valid
    <3> QED BY <1>2, <1>6, <3>1 DEF Backed, Nothing
  <2> QED BY <2>1, <2>2
<1>11. Backed(c)'
  <2>1. c.native \in DOMAIN vulkan' /\ vulkan'[c.native] = x
    BY <1>6, <1>9
  <2>2. native'[c.parent] = native[c.parent]
    BY <1>1 DEF instanceVars
  <2>3. Sound(p)' /\ CreateInfo(p)' = CreateInfo(p)
    BY <1>7 DEF Sound, CreateInfo
  <2> QED BY <1>7, <1>8, <1>9, <2>1, <2>2, <2>3 DEF Backed
<1>12. /\ device'[d] = m /\ content'[m] = c
       /\ \A e \in Devices : e # d => device'[e] = device[e]
       /\ \A n \in DeviceImpls : n # m => content'[n] = content[n]
  BY <1>1, <1>2, <1>9 DEF DevicesInv
<1>13. ASSUME NEW e \in Devices, e # d, Valid(e)
       PROVE  /\ content'[device'[e]] = content[device[e]]
              /\ content[device[e]].native \in 1..Len(vulkan)
              /\ Backed(content[device[e]])'
  <2>1. PICK b : b = content[device[e]]
    OBVIOUS
  <2>2. Backed(b) /\ b.native \in 1..Len(vulkan)
    BY <1>1, <1>6, <1>13, <2>1 DEF DevicesInv, Backed
  <2>3. content'[device'[e]] = b
    BY <1>1, <1>10, <1>12, <1>13, <2>1 DEF DevicesInv, Valid
  <2>4. b.native \in DOMAIN vulkan' /\ vulkan'[b.native] = vulkan[b.native]
    BY <1>6, <2>2
  <2>5. Backed(b)'
    BY <1>1, <2>2, <2>4, BackedKept DEF instanceVars
  <2> QED BY <2>1, <2>2, <2>3, <2>5
<1>14. DevicesInv'
  <2>1. /\ device' \in [Devices -> DeviceImpls \cup {NoImpl}] /\ DOMAIN content' = DeviceImpls
        /\ \A e, f \in Devices : e # f /\ device'[e] = device'[f] => device'[e] = NoImpl
    BY <1>1, <1>2, <1>10, <1>12 DEF DevicesInv
  <2>2. ASSUME NEW e \in Devices, Valid(e)' PROVE Backed(content[device[e]])'
    BY <1>11, <1>12, <1>13, <2>2 DEF Valid
  <2>3. \A e, f \in Devices : Valid(e)' /\ Valid(f)' /\ e # f =>
          content'[device'[e]].native # content'[device'[f]].native
    BY <1>1, <1>6, <1>9, <1>12, <1>13 DEF DevicesInv, Valid
  <2>4. ASSUME NEW k \in Alive'
        PROVE  \E e \in Devices : Valid(e)' /\ content'[device'[e]].native = k
    <3>1. CASE k = Len(vulkan')
      BY <1>9, <1>10, <1>12, <3>1 DEF Valid
    <3>2. CASE k # Len(vulkan')
      <4>1. k \in Alive
        BY <1>6, <3>2 DEF Alive
      <4>2. PICK e \in Devices : Valid(e) /\ content[device[e]].native = k
        BY <1>1, <4>1 DEF DevicesInv
      <4> QED BY <1>1, <1>12, <1>13, <4>2 DEF Valid
    <3> QED BY <3>1, <3>2
  <2> QED BY <1>6, <2>1, <2>2, <2>3, <2>4 DEF DevicesInv
<1> QED BY <1>1, <1>14, InstancesUntouched DEF CreationInv

(* The wrapper g gives up what it held, which ends; every other one holds   *)
(* what it or, after a move, another one held.                              *)
LEMMA DeviceEnds ==
    ASSUME CreationInv, NEW g \in Devices, NEW from \in Devices, EndImpl(device[g]),
           UNCHANGED <<instanceVars, plans>>,
           device' = [device EXCEPT ![g] = IF from = g THEN NoImpl ELSE device[from],
                                    ![from] = NoImpl]
    PROVE  CreationInv'
<1>1. InstancesInv /\ PlansInv /\ DevicesInv
  BY DEF CreationInv
<1>2. PICK m : m = device[g]
  OBVIOUS
<1>3. PICK ended : ended = IF m = NoImpl THEN 0 ELSE content[m].native
  OBVIOUS
<1>4. /\ \A n \in DeviceImpls : n # m => content'[n] = content[n]
      /\ DOMAIN content' = DeviceImpls /\ DOMAIN vulkan' = DOMAIN vulkan
      /\ \A k \in DOMAIN vulkan : k # ended => vulkan'[k] = vulkan[k]
      /\ m # NoImpl => \A k \in DOMAIN vulkan : k = ended => vulkan'[k] = Destroyed
      /\ vulkan' = [k \in DOMAIN vulkan' |-> vulkan'[k]]
  BY <1>2, <1>3 DEF EndImpl
<1>5. vulkan' \in Seq({vulkan'[k] : k \in DOMAIN vulkan'})
  BY <1>1, <1>4, Rewritten DEF DevicesInv
<1>6. \A k \in DOMAIN vulkan : k \in Nat \ {0}
  BY <1>1 DEF DevicesInv
\* The wrapper that held before what e holds now.
<1> DEFINE source(e) == IF e = g THEN from ELSE e
<1>7. ASSUME NEW e \in Devices, Valid(e)'
      PROVE  /\ source(e) \in Devices /\ source(e) # g
             /\ Valid(source(e)) /\ device'[e] = device[source(e)]
  BY <1>1, <1>7 DEF DevicesInv, Valid
<1>8. ASSUME NEW e \in Devices, e # g, Valid(e)
      PROVE  /\ content'[device[e]] = content[device[e]]
             /\ content[device[e]].native \in DOMAIN vulkan
             /\ content[device[e]].native # ended
  <2>1. device[e] # m /\ device[e] \in DeviceImpls
    BY <1>1, <1>2, <1>8 DEF DevicesInv, Valid
  <2>2. content[device[e]].native \in DOMAIN vulkan
    BY <1>1, <1>8 DEF DevicesInv, Backed
  <2>3. content[device[e]].native # ended
    BY <1>1, <1>2, <1>3, <1>6, <1>8, <2>2 DEF DevicesInv, Valid
  <2> QED BY <1>4, <2>1, <2>2, <2>3
<1>9. ASSUME NEW e \in Devices, Valid(e)'
      PROVE  Backed(content[device[e]])' /\ content'[device'[e]] = content[device[source(e)]]
  <2>1. PICK b : b = content[device[source(e)]]
    OBVIOUS
  <2>2. content'[device'[e]] = b /\ b.native \in DOMAIN vulkan /\ b.native # ended
    BY <1>7, <1>8, <1>9, <2>1
  <2>3. Backed(b)
    BY <1>1, <1>7, <1>9, <2>1 DEF DevicesInv
  <2>4. Backed(b)'
    BY <1>4, <2>2, <2>3, BackedKept DEF instanceVars
  <2> QED BY <2>1, <2>2, <2>4
<1>10. /\ device' \in [Devices -> DeviceImpls \cup {NoImpl}]
       /\ \A e, f \in Devices : e # f /\ device'[e] = device'[f] => device'[e] = NoImpl
  BY <1>1 DEF DevicesInv
<1>11. ASSUME NEW e \in Devices, NEW f \in Devices, Valid(e)', Valid(f)', e # f
       PROVE  content'[device'[e]].native # content'[device'[f]].native
  <2>1. source(e) # source(f)
    <3>1. (e # from /\ f # from) \/ from = g
      BY <1>11, <1>1 DEF DevicesInv, Valid
    <3> QED BY <3>1, <1>7, <1>11
  <2> QED BY <1>1, <1>7, <1>9, <1>11, <2>1 DEF DevicesInv
<1>12. ASSUME NEW k \in Alive'
       PROVE  \E e \in Devices : Valid(e)' /\ content'[device'[e]].native = k
  <2>1. k \in DOMAIN vulkan /\ vulkan'[k].alive
    BY <1>4, <1>12 DEF Alive
  <2>2. CASE m = NoImpl
    <3>1. k \in Alive
      BY <1>3, <1>4, <1>6, <2>1, <2>2 DEF Alive
    <3>2. PICK e \in Devices : Valid(e) /\ content[device[e]].native = k
      BY <1>1, <3>1 DEF DevicesInv
    <3>3. e # g
      BY <1>2, <2>2, <3>2 DEF Valid
    <3> DEFINE h == IF e = from THEN g ELSE e
    <3>4. h \in Devices /\ device'[h] = device[e]
      BY <1>1, <3>3 DEF DevicesInv
    <3> QED BY <1>8, <3>2, <3>3, <3>4 DEF Valid
  <2>3. CASE m # NoImpl
    <3>1. k # ended
      BY <1>4, <2>1, <2>3 DEF Destroyed
    <3>2. k \in Alive
      BY <1>4, <2>1, <3>1 DEF Alive
    <3>3. PICK e \in Devices : Valid(e) /\ content[device[e]].native = k
      BY <1>1, <3>2 DEF DevicesInv
    <3>4. e # g
      BY <1>2, <1>3, <2>3, <3>1, <3>3
    <3> DEFINE h == IF e = from THEN g ELSE e
    <3>5. h \in Devices /\ device'[h] = device[e]
      BY <1>1, <3>4 DEF DevicesInv
    <3> QED BY <1>8, <3>3, <3>4, <3>5 DEF Valid
  <2> QED BY <2>2, <2>3
<1>13. DevicesInv'
  BY <1>4, <1>5, <1>9, <1>10, <1>11, <1>12 DEF DevicesInv
<1> QED BY <1>1, <1>13, InstancesUntouched DEF CreationInv

LEMMA DeviceSteps ==
    ASSUME CreationInv,
           \/ \E from, to \in Devices : MoveDevice(from, to)
           \/ \E d \in Devices : DestroyDevice(d)
    PROVE  CreationInv'
<1>1. CASE \E from, to \in Devices : MoveDevice(from, to)
  BY <1>1, DeviceEnds DEF MoveDevice
<1>2. CASE \E d \in Devices : DestroyDevice(d)
  <2>1. PICK d \in Devices : DestroyDevice(d)
    BY <1>2
  <2>2. device' = [device EXCEPT ![d] = IF d = d THEN NoImpl ELSE device[d], ![d] = NoImpl]
    BY <2>1 DEF DestroyDevice
  <2> QED BY <2>1, <2>2, DeviceEnds DEF DestroyDevice
<1> QED BY <1>1, <1>2

LEMMA CreationStutters == CreationInv /\ UNCHANGED vars => CreationInv'
<1> SUFFICES ASSUME CreationInv, UNCHANGED vars PROVE CreationInv'
  OBVIOUS
<1>1. InstancesInv' /\ PlansInv'
  BY InstancesUntouched DEF CreationInv, vars
<1>2. DevicesInv'
  BY DevicesUntouched DEF CreationInv, vars, instanceVars
<1> QED BY <1>1, <1>2 DEF CreationInv

LEMMA CreationKept == CreationInv /\ [Next]_vars => CreationInv'
<1> SUFFICES ASSUME CreationInv, [Next]_vars PROVE CreationInv'
  OBVIOUS
<1>1. ASSUME NEW i \in Instances, CreateInstance(i) PROVE CreationInv'
  BY <1>1, CreateInstanceStep
<1>2. ASSUME NEW i \in Instances, NEW s \in Slots, CreateUnwinds(i, s) PROVE CreationInv'
  BY <1>2, CreateUnwindsStep
<1>3. ASSUME NEW d \in Devices, NEW i \in Instances, NEW s \in Slots, Create(d, i, s)
      PROVE  CreationInv'
  BY <1>3, CreateStep
<1>4. ASSUME NEW s \in Slots, MovePlanAway(s) PROVE CreationInv'
  BY <1>4, MovePlanAwayStep
<1>5. ASSUME NEW s \in Slots, ResolveFails \/ CreateFails(s) \/ UNCHANGED vars
      PROVE  CreationInv'
  BY <1>5, CreationStutters DEF ResolveFails, CreateFails
<1>6. CASE ResolveFails \/ UNCHANGED vars
  BY <1>6, CreationStutters DEF ResolveFails
<1> QED BY <1>1, <1>2, <1>3, <1>4, <1>5, <1>6, InstanceSteps, ResolveSteps, DeviceSteps DEF Next

(* A new implementation gets its views, and they stay as they are.          *)
LEMMA QueuesKept ==
    ASSUME DOMAIN content = DeviceImpls, QueuesInv, [Next]_vars
    PROVE  QueuesInv'
<1>1. ASSUME NEW d \in Devices, NEW i \in Instances, NEW s \in Slots, Create(d, i, s)
      PROVE  QueuesInv'
  <2>1. PICK m \in DeviceImpls : \E c :
          /\ c = [native |-> Len(vulkan'), plan |-> plans[s], parent |-> implementation[i],
                  queues |-> Queues(Len(vulkan'), m, plans[s])]
          /\ content' = [content EXCEPT ![m] = c]
    BY <1>1 DEF Create
  <2>2. PICK c : c.queues = Queues(c.native, m, c.plan) /\ content' = [content EXCEPT ![m] = c]
    BY <2>1
  <2>3. content'[m] = c /\ \A n \in DeviceImpls : n # m => content'[n] = content[n]
    BY <2>2
  <2>4. ASSUME NEW n \in DeviceImpls, content'[n] # Nothing
        PROVE  content'[n].queues = Queues(content'[n].native, n, content'[n].plan)
    BY <2>2, <2>3, <2>4 DEF QueuesInv
  <2>5. \A x, n, p : Queues(x, n, p)' = Queues(x, n, p)
    BY DEF Queues, OrderedAllocations
  <2> QED BY <2>4, <2>5 DEF QueuesInv
<1>2. ASSUME NEW m, EndImpl(m) PROVE QueuesInv'
  BY <1>2 DEF EndImpl, QueuesInv, Queues, OrderedAllocations
<1>3. ASSUME content' = content PROVE QueuesInv'
  BY <1>3 DEF QueuesInv, Queues, OrderedAllocations
<1> QED BY <1>1, <1>2, <1>3 DEF Next, vars, deviceVars, CreateInstance, DestroyInstance,
         MoveInstance, ResolveCandidate, ResolveSnapshot, Resolve, ResolveFails, MovePlanAway,
         CreateFails, CreateUnwinds, MoveDevice, DestroyDevice

(* Native devices are numbered, and never forgotten.                        *)
LEMMA DevicesAreNumbered ==
    ASSUME DevicesInv, [Next]_vars
    PROVE  DOMAIN vulkan \subseteq DOMAIN vulkan'
<1>1. CASE \E x : vulkan' = Append(vulkan, x)
  BY <1>1, Appended DEF DevicesInv
<1>2. CASE \E m : EndImpl(m)
  BY <1>2 DEF EndImpl
<1>3. CASE vulkan' = vulkan
  BY <1>3
<1> QED BY <1>1, <1>2, <1>3 DEF Next, vars, deviceVars, CreateInstance, DestroyInstance,
      MoveInstance, ResolveCandidate, ResolveSnapshot, Resolve, ResolveFails, MovePlanAway,
      CreateFails, CreateUnwinds, Create, MoveDevice, DestroyDevice

-----------------------------------------------------------------------------
(* The inductive invariant of Allocator                                    *)

\* What a VmaAllocator v was created with is what its native device was.
Grounded(v) ==
    LET n == vulkan[v.native]
    IN  /\ v.native \in DOMAIN vulkan
        /\ n.alive /\ n.instance = v.instance /\ n.gpu = v.gpu
        /\ v.version <= InstancePlans[n.instance].api_version
        /\ v.version <= Capabilities[n.gpu].api_version
        /\ "buffer_device_address" \in v.flags => BufferDeviceAddress \in n.info.features
        /\ "maintenance4" \in v.flags => Maintenance4 \in n.info.features
        /\ "memory_budget" \in v.flags =>
            /\ "budget" \in n.info.extensions
            /\ \/ InstancePlans[n.instance].api_version >= 11
               \/ "properties2" \in InstancePlans[n.instance].extensions
        /\ v.version = 10 =>
            /\ "bind_memory2" \in v.flags => "bind_memory2" \in n.info.extensions
            /\ "dedicated_allocation" \in v.flags =>
                {"dedicated_allocation", "memory_requirements2"} \subseteq n.info.extensions

AllocatorsInv ==
    /\ allocator \in [Allocators -> VmaHandles \cup {NoHandle}]
    /\ DOMAIN vma = VmaHandles
    /\ \A a, b \in Allocators : a # b /\ allocator[a] = allocator[b] => allocator[a] = NoHandle
    /\ \A h \in VmaHandles : vma[h] # Nothing <=> \E a \in Allocators : allocator[a] = h
    /\ \A h \in Existing : Grounded(vma[h])

LEMMA AllocatorsAreGrounded ==
    AllocatorsInv => AllocatorsStandOnTheirParents /\ FlagsAreEnabled
<1> SUFFICES ASSUME AllocatorsInv PROVE AllocatorsStandOnTheirParents /\ FlagsAreEnabled
  OBVIOUS
<1>1. /\ Existing = {allocator[a] : a \in {a \in Allocators : allocator[a] # NoHandle}}
      /\ \A a, b \in {a \in Allocators : allocator[a] # NoHandle} :
           a # b => allocator[a] # allocator[b]
  BY AllocatorAssumption DEF AllocatorsInv, Existing
<1>2. \A h \in Existing : Grounded(vma[h])
  BY DEF AllocatorsInv
<1>3. AllocatorsStandOnTheirParents
  BY <1>1, <1>2 DEF AllocatorsStandOnTheirParents, Grounded
<1>4. FlagsAreEnabled
  BY <1>2 DEF FlagsAreEnabled, Grounded
<1> QED BY <1>3, <1>4

(* createAllocator() accepts only what the device was created with.         *)
LEMMA AcceptedIsGrounded ==
    ASSUME CreationInv, NEW i \in Instances, NEW j \in Instances, NEW g \in Gpus,
           NEW d \in Devices, NEW x \in AllocatorDescriptions,
           AllocatorError(i, j, g, d, x) = "success"
    PROVE  LET v == [native |-> content[device[d]].native,
                     instance |-> native[implementation[i]],
                     gpu |-> g, flags |-> x.flags, version |-> Version(x)]
           IN  Grounded(v) /\ v # Nothing
<1> DEFINE c == content[device[d]]
           p == c.plan
           n == vulkan[c.native]
           v == [native |-> c.native, instance |-> native[implementation[i]],
                 gpu |-> g, flags |-> x.flags, version |-> Version(x)]
<1>1. /\ implementation[i] # NoImpl /\ Valid(d)
      /\ ~ParentMismatch(i, j, g, d) /\ ~UnsupportedVersion(i, d, x)
      /\ \A flag \in x.flags : Evidenced(flag, Version(x), p, InstancePlan(i).extensions)
  BY DEF AllocatorError, DevicePlan
<1>2. Backed(c)
  BY <1>1 DEF CreationInv, DevicesInv
<1>3. c.parent = implementation[i] /\ p.gpu = g
  BY <1>1 DEF ParentMismatch, DeviceCorrelated, DevicePlan
<1>4. /\ c.native \in DOMAIN vulkan /\ n.alive /\ n.instance = p.instance /\ n.gpu = g
      /\ n.info = CreateInfo(p) /\ native[implementation[i]] = p.instance
      /\ Sound(p) /\ p.api_version = Capabilities[g].api_version
  BY <1>2, <1>3 DEF Backed, Sound
<1>5. c.native # 0 /\ native[implementation[i]] \in 1..MaxInstances
  BY <1>1, <1>4, CreationAssumption DEF CreationInv, InstancesInv, DevicesInv
<1>6. /\ Version(x) \in 10..13 /\ Version(x) <= InstancePlan(i).api_version
      /\ Version(x) <= p.api_version
      /\ InstancePlan(i) = InstancePlans[n.instance] /\ InstancePlan(i).api_version \in Nat
      /\ p.api_version \in Nat
  <2>1. InstancePlan(i).api_version \in Nat /\ InstancePlan(i) = InstancePlans[n.instance]
    BY <1>4, <1>5, AllocatorAssumption DEF InstancePlan
  <2>2. p.api_version \in Nat
    BY <1>4, CreationAssumption
  <2>3. Version(x) \in Nat
    BY AllocatorAssumption DEF Version, default_allocator_api_version
  <2>4. /\ Version(x) \in 10..13 /\ ~(Version(x) > InstancePlan(i).api_version)
        /\ ~(Version(x) > p.api_version)
    BY <1>1 DEF UnsupportedVersion, DevicePlan
  <2> HIDE DEF p
  <2> QED BY <2>1, <2>2, <2>3, <2>4
<1>7. p.features \subseteq n.info.features /\ p.extensions = n.info.extensions
  <2>1. /\ n.info.features = (p.requested.required_features \cup p.requested.optional_features)
                               \cap Capabilities[p.gpu].features
        /\ p.features = Effective(Capabilities[p.gpu], p.requested)
    BY <1>4, SoundPlans DEF Sound
  <2>2. n.info.extensions = p.extensions
    BY <1>4 DEF CreateInfo
  <2> HIDE DEF c, p, n
  <2>3. p.features \subseteq n.info.features
    BY <2>1 DEF Effective, Supported
  <2> QED BY <2>2, <2>3
<1>8. /\ v.native = c.native /\ v.instance = native[implementation[i]] /\ v.gpu = g
      /\ v.flags = x.flags /\ v.version = Version(x)
  OBVIOUS
<1>9. v # Nothing
  BY <1>5, <1>8 DEF Nothing
<1> HIDE DEF c, p, n, v
<1>10. /\ "buffer_device_address" \in v.flags => BufferDeviceAddress \in p.features
       /\ "maintenance4" \in v.flags => Maintenance4 \in p.features
       /\ "memory_budget" \in v.flags =>
            /\ "budget" \in p.extensions
            /\ Version(x) >= 11 \/ "properties2" \in InstancePlan(i).extensions
       /\ v.version = 10 =>
            /\ "bind_memory2" \in v.flags => "bind_memory2" \in p.extensions
            /\ "dedicated_allocation" \in v.flags =>
                {"dedicated_allocation", "memory_requirements2"} \subseteq p.extensions
  BY <1>1, <1>6, <1>8 DEF Evidenced
<1>11. Grounded(v)
  <2>1. vulkan[v.native] = n
    BY <1>8 DEF n
  <2>2. /\ v.version <= InstancePlans[n.instance].api_version
        /\ v.version <= Capabilities[n.gpu].api_version
        /\ Version(x) >= 11 => InstancePlans[n.instance].api_version >= 11
    BY <1>4, <1>6, <1>8
  <2> QED BY <1>4, <1>6, <1>7, <1>8, <1>10, <2>1, <2>2 DEF Grounded
<1> QED BY <1>9, <1>11 DEF v, c

LEMMA CreateAllocatorStep ==
    ASSUME CreationInv, AllocatorsInv, NEW a \in Allocators, NEW i \in Instances,
           NEW j \in Instances, NEW g \in Gpus, NEW d \in Devices,
           NEW x \in AllocatorDescriptions, CreateAllocator(a, i, j, g, d, x)
    PROVE  AllocatorsInv'
<1>1. PICK v : /\ v = [native |-> content[device[d]].native,
                       instance |-> native[implementation[i]],
                       gpu |-> g, flags |-> x.flags, version |-> Version(x)]
               /\ Grounded(v) /\ v # Nothing
  BY AcceptedIsGrounded DEF CreateAllocator
<1>2. PICK h \in VmaHandles : /\ vma[h] = Nothing /\ vma' = [vma EXCEPT ![h] = v]
                              /\ allocator' = [allocator EXCEPT ![a] = h]
  BY <1>1 DEF CreateAllocator
<1>3. allocator[a] = NoHandle /\ vulkan' = vulkan
  BY DEF CreateAllocator, vars, deviceVars
<1>4. h # NoHandle /\ \A b \in Allocators : allocator[b] # h
  BY <1>2, AllocatorAssumption DEF AllocatorsInv
<1>5. /\ allocator' \in [Allocators -> VmaHandles \cup {NoHandle}] /\ DOMAIN vma' = VmaHandles
      /\ \A b, c \in Allocators : b # c /\ allocator'[b] = allocator'[c] =>
           allocator'[b] = NoHandle
  BY <1>2, <1>4 DEF AllocatorsInv
<1>6. ASSUME NEW k \in VmaHandles
      PROVE  vma'[k] # Nothing <=> \E b \in Allocators : allocator'[b] = k
  <2>1. CASE k = h
    BY <1>1, <1>2, <2>1 DEF AllocatorsInv
  <2>2. CASE k # h
    <3>1. vma'[k] = vma[k] /\ k # NoHandle
      BY <1>2, <2>2, AllocatorAssumption DEF AllocatorsInv
    <3> QED BY <1>2, <1>3, <2>2, <3>1 DEF AllocatorsInv
  <2> QED BY <2>1, <2>2
<1>7. ASSUME NEW k \in Existing' PROVE Grounded(vma[k])'
  <2>1. Grounded(v)'
    BY <1>1, <1>3 DEF Grounded
  <2>2. CASE k = h
    BY <1>2, <2>1, <2>2 DEF AllocatorsInv
  <2>3. CASE k # h
    <3>1. k \in Existing /\ vma'[k] = vma[k]
      BY <1>2, <2>3 DEF Existing, AllocatorsInv
    <3>2. PICK w : w = vma[k]
      OBVIOUS
    <3>3. Grounded(w)'
      BY <1>3, <3>1, <3>2 DEF Grounded, AllocatorsInv
    <3> QED BY <3>1, <3>2, <3>3
  <2> QED BY <2>2, <2>3
<1> QED BY <1>5, <1>6, <1>7 DEF AllocatorsInv

(* The wrapper g gives up its handle, which VMA destroys.                    *)
LEMMA AllocatorEnds ==
    ASSUME AllocatorsInv, NEW g \in Allocators, NEW from \in Allocators, UNCHANGED vars,
           DOMAIN vma' = VmaHandles,
           \A h \in VmaHandles : vma'[h] = IF h = allocator[g] THEN Nothing ELSE vma[h],
           allocator' = [allocator EXCEPT ![g] = IF from = g THEN NoHandle ELSE allocator[from],
                                          ![from] = NoHandle]
    PROVE  AllocatorsInv'
<1>1. vulkan' = vulkan
  BY DEF vars, deviceVars
<1>2. \A b \in Allocators : allocator'[b] =
        IF b = from THEN NoHandle ELSE IF b = g THEN allocator[from] ELSE allocator[b]
  BY DEF AllocatorsInv
<1>3. /\ allocator' \in [Allocators -> VmaHandles \cup {NoHandle}] /\ DOMAIN vma' = VmaHandles
      /\ \A b, c \in Allocators : b # c /\ allocator'[b] = allocator'[c] =>
           allocator'[b] = NoHandle
  BY <1>2 DEF AllocatorsInv
<1>4. ASSUME NEW k \in VmaHandles
      PROVE  vma'[k] # Nothing <=> \E b \in Allocators : allocator'[b] = k
  <2>1. k # NoHandle
    BY AllocatorAssumption
  <2>2. vma[k] # Nothing <=> \E b \in Allocators : allocator[b] = k
    BY DEF AllocatorsInv
  <2>3. CASE k = allocator[g]
    <3>1. \A b \in Allocators : b # g => allocator[b] # k
      BY <2>1, <2>3 DEF AllocatorsInv
    <3>2. vma'[k] = Nothing
      BY <2>3
    <3>3. ASSUME NEW b \in Allocators PROVE allocator'[b] # k
      <4>1. CASE b = from
        <5>1. allocator'[b] = NoHandle
          BY <1>2, <4>1
        <5> QED BY <2>1, <5>1
      <4>2. CASE b # from /\ b = g
        <5>1. allocator'[b] = allocator[from] /\ from # g
          BY <1>2, <4>2
        <5> QED BY <3>1, <5>1
      <4>3. CASE b # from /\ b # g
        BY <1>2, <3>1, <4>3
      <4> QED BY <4>1, <4>2, <4>3
    <3> QED BY <3>2, <3>3
  <2>4. CASE k # allocator[g]
    <3>1. vma'[k] = vma[k]
      BY <2>4
    <3>2. ASSUME NEW b \in Allocators, allocator[b] = k
          PROVE  allocator'[IF b = from THEN g ELSE b] = k
      BY <1>2, <2>4, <3>2
    <3>3. ASSUME NEW b \in Allocators, allocator'[b] = k
          PROVE  allocator[IF b = g THEN from ELSE b] = k
      <4>1. b # from
        BY <1>2, <2>1, <3>3
      <4>2. allocator'[b] = IF b = g THEN allocator[from] ELSE allocator[b]
        BY <1>2, <4>1
      <4> QED BY <3>3, <4>2
    <3>4. (\E b \in Allocators : allocator[b] = k) <=> \E b \in Allocators : allocator'[b] = k
      <4>1. ASSUME NEW b \in Allocators, allocator[b] = k
            PROVE  \E c \in Allocators : allocator'[c] = k
        <5>1. PICK c \in Allocators : c = IF b = from THEN g ELSE b
          OBVIOUS
        <5>2. allocator'[c] = k
          BY <3>2, <4>1, <5>1
        <5> QED BY <5>2
      <4>2. ASSUME NEW b \in Allocators, allocator'[b] = k
            PROVE  \E c \in Allocators : allocator[c] = k
        <5>1. PICK c \in Allocators : c = IF b = g THEN from ELSE b
          OBVIOUS
        <5>2. allocator[c] = k
          BY <3>3, <4>2, <5>1
        <5> QED BY <5>2
      <4> QED BY <4>1, <4>2
    <3> QED BY <2>2, <3>1, <3>4
  <2> QED BY <2>3, <2>4
<1>5. ASSUME NEW k \in Existing' PROVE Grounded(vma[k])'
  <2>1. k \in Existing /\ vma'[k] = vma[k]
    BY <1>5 DEF Existing
  <2>2. PICK w : w = vma[k]
    OBVIOUS
  <2>3. Grounded(w)'
    BY <1>1, <2>1, <2>2 DEF Grounded, AllocatorsInv
  <2> QED BY <2>1, <2>2, <2>3
<1> QED BY <1>3, <1>4, <1>5 DEF AllocatorsInv

(* What an allocator stands on outlives whatever else the application does. *)
LEMMA ParentStepKeeps ==
    ASSUME CreationInv, AllocatorsInv, ParentStep
    PROVE  AllocatorsInv'
<1>1. /\ [Next]_vars /\ allocator' = allocator /\ vma' = vma
      /\ \A h \in Existing : vulkan'[vma[h].native] = vulkan[vma[h].native]
  BY DEF ParentStep, allocatorVars
<1>2. DOMAIN vulkan \subseteq DOMAIN vulkan'
  BY <1>1, DevicesAreNumbered DEF CreationInv
<1>3. Existing' = Existing
  BY <1>1 DEF Existing
<1>4. ASSUME NEW h \in Existing PROVE Grounded(vma[h])'
  <2>1. Grounded(vma[h])
    BY DEF AllocatorsInv
  <2> QED BY <1>1, <1>2, <2>1 DEF Grounded
<1> QED BY <1>1, <1>3, <1>4 DEF AllocatorsInv

LEMMA AllocatorsKept ==
    CreationInv /\ AllocatorsInv /\ [AllocatorNext]_allVars => CreationInv' /\ AllocatorsInv'
<1> SUFFICES ASSUME CreationInv, AllocatorsInv, [AllocatorNext]_allVars
             PROVE  CreationInv' /\ AllocatorsInv'
  OBVIOUS
<1>1. [Next]_vars
  BY DEF AllocatorNext, ParentStep, CreateAllocatorFails, CreateAllocator, MoveAllocator,
         DestroyAllocator, allVars
<1>2. CreationInv'
  BY <1>1, CreationKept
<1>3. CASE ParentStep
  BY <1>2, <1>3, ParentStepKeeps
<1>4. CASE UNCHANGED allVars
  BY <1>2, <1>4 DEF allVars, allocatorVars, vars, deviceVars, AllocatorsInv, Existing, Grounded
<1>5. CASE \E a \in Allocators, i, j \in Instances, g \in Gpus, d \in Devices,
             x \in AllocatorDescriptions : CreateAllocator(a, i, j, g, d, x)
  BY <1>2, <1>5, CreateAllocatorStep
<1>6. CASE \E from, to \in Allocators : MoveAllocator(from, to)
  BY <1>2, <1>6, AllocatorEnds DEF MoveAllocator
<1>7. ASSUME NEW a \in Allocators, DestroyAllocator(a) PROVE AllocatorsInv'
  <2>1. vma' = [vma EXCEPT ![allocator[a]] = Nothing] /\ UNCHANGED vars
        /\ allocator' = [allocator EXCEPT ![a] = IF a = a THEN NoHandle ELSE allocator[a],
                                          ![a] = NoHandle]
    BY <1>7 DEF DestroyAllocator
  <2>2. /\ DOMAIN vma' = VmaHandles
        /\ \A h \in VmaHandles : vma'[h] = IF h = allocator[a] THEN Nothing ELSE vma[h]
    BY <2>1 DEF AllocatorsInv
  <2> QED BY <2>1, <2>2, AllocatorEnds
<1>8. CASE \E j \in Instances : CreateAllocatorFails(j)
  BY <1>4, <1>8 DEF CreateAllocatorFails
<1> QED BY <1>2, <1>3, <1>4, <1>5, <1>6, <1>7, <1>8 DEF AllocatorNext

-----------------------------------------------------------------------------
(* Theorems                                                                *)

LEMMA CreationHolds == Spec => []CreationInv
BY CreationStarts, CreationKept, PTL DEF Spec

\* An instance's and a device's correlatedWith() answers, and the refusal of a
\* plan, tell native instances apart for any number of wrappers, addresses, and
\* moves (device.cpp:1657-1659, 1832-1834).
THEOREM DevicesKnowTheirInstance == Spec => []DeviceIsFromItsInstance
BY CreationHolds, InstancesAreTheirs, PTL

\* createDevice(), its failures, moves and destruction strand no native device
\* and share none, for any number of them (device.cpp:1807-1815, 1983-2003).
THEOREM NoDeviceIsStranded == Spec => []NativeDevicesAreOwned
BY CreationHolds, DevicesAreOwned, PTL

\* Every native device was asked for what its request and its GPU have in
\* common, for any capabilities, snapshots and descriptions
\* (device.cpp, resolve_device_impl; logical-device.md).
THEOREM OnlyRequestsAreEnabled == Spec => []EnablesWhatWasAsked
BY CreationHolds, AskedIsEnabled, PTL

LEMMA QueuesHold == Spec => []QueuesInv
<1>1. Init => QueuesInv
  BY DEF Init, QueuesInv
<1>2. CreationInv => DOMAIN content = DeviceImpls
  BY DEF CreationInv, DevicesInv
<1> QED BY <1>1, <1>2, CreationHolds, QueuesKept, PTL DEF Spec

\* Device::queue() gives every accepted caller the native queue that was created
\* at the priority the caller asked for, and nothing to any other, for any
\* capabilities, requests, wrappers and moves (device.cpp:1797-1800, 1836-1857,
\* 1882-1939).
THEOREM EveryCallerIsServed == Spec => []QueuesServeTheirCallers
BY CreationHolds, QueuesHold, QueuesServe, PTL

LEMMA AllocatorHolds == AllocatorSpec => [](CreationInv /\ AllocatorsInv)
<1>1. AllocatorInit => CreationInv /\ AllocatorsInv
  <2>1. AllocatorInit => CreationInv
    BY CreationStarts DEF AllocatorInit
  <2>2. AllocatorInit => AllocatorsInv
    BY AllocatorAssumption DEF AllocatorInit, AllocatorsInv, Existing
  <2> QED BY <2>1, <2>2
<1> QED BY <1>1, AllocatorsKept, PTL DEF AllocatorSpec

\* A VmaAllocator has one wrapper and stands on a living device, GPU and
\* instance at a version they have, for any number of wrappers of all three and
\* any moves of them (allocator.cpp:116-132, 193-199).
THEOREM AllocatorsAreGroundedForever == AllocatorSpec => []AllocatorsStandOnTheirParents
BY AllocatorHolds, AllocatorsAreGrounded, PTL

\* VMA is promised nothing that the device and the instance were not created
\* with, for any plans, capabilities and flags (allocator.md:48-53).
THEOREM FlagsAreBacked == AllocatorSpec => []FlagsAreEnabled
BY AllocatorHolds, AllocatorsAreGrounded, PTL

-----------------------------------------------------------------------------
(* Selection of a physical device                                          *)

\* The sequence holds what the others holds at these places, each once.
Picks(chosen, seq, places) ==
    \E f \in [1..Len(chosen) -> places] :
        /\ \A j \in 1..Len(chosen) : chosen[j] = seq[f[j]]
        /\ \A j, k \in 1..Len(chosen) : f[j] = f[k] => j = k
        /\ \A i \in places : \E j \in 1..Len(chosen) : f[j] = i

(* One more place.                                                          *)
LEMMA PicksOneMore ==
    ASSUME NEW T, NEW seq \in Seq(T), NEW chosen \in Seq(T), NEW places, Picks(chosen, seq, places),
           NEW n \in DOMAIN seq, n \notin places
    PROVE  Append(chosen, seq[n]) \in Seq(T) /\ Picks(Append(chosen, seq[n]), seq, places \cup {n})
<1> DEFINE m == Len(chosen)
           more == Append(chosen, seq[n])
<1>1. PICK f \in [1..m -> places] :
        /\ \A j \in 1..m : chosen[j] = seq[f[j]]
        /\ \A j, k \in 1..m : f[j] = f[k] => j = k
        /\ \A i \in places : \E j \in 1..m : f[j] = i
  BY DEF Picks
<1>2. /\ m \in Nat /\ more \in Seq(T) /\ Len(more) = m + 1 /\ more[m + 1] = seq[n]
      /\ \A j \in 1..m : more[j] = chosen[j]
  OBVIOUS
<1> DEFINE g == [j \in 1..m + 1 |-> IF j = m + 1 THEN n ELSE f[j]]
<1> HIDE DEF m, more
<1>3. \A j \in 1..m + 1 : j = m + 1 \/ j \in 1..m
  BY <1>2
<1>4. /\ m + 1 \in 1..m + 1 /\ g[m + 1] = n
      /\ \A j \in 1..m : j \in 1..m + 1 /\ g[j] = f[j] /\ f[j] \in places
  <2>1. m + 1 \in 1..m + 1 /\ \A j \in 1..m : j \in 1..m + 1 /\ j # m + 1
    BY <1>2
  <2>2. \A j \in 1..m : f[j] \in places
    BY <1>1
  <2> QED BY <2>1, <2>2
<1>5. g \in [1..m + 1 -> places \cup {n}]
  BY <1>1, <1>3
<1> HIDE DEF g
<1>6. \A j \in 1..m + 1 : more[j] = seq[g[j]]
  BY <1>1, <1>2, <1>3, <1>4
<1>7. \A j, k \in 1..m + 1 : g[j] = g[k] => j = k
  BY <1>1, <1>3, <1>4
<1>8. \A i \in places \cup {n} : \E j \in 1..m + 1 : g[j] = i
  BY <1>1, <1>4
<1>9. Picks(more, seq, places \cup {n})
  <2>1. /\ g \in [1..Len(more) -> places \cup {n}]
        /\ \A j \in 1..Len(more) : more[j] = seq[g[j]]
        /\ \A j, k \in 1..Len(more) : g[j] = g[k] => j = k
        /\ \A i \in places \cup {n} : \E j \in 1..Len(more) : g[j] = i
    BY <1>2, <1>5, <1>6, <1>7, <1>8
  <2> QED BY <2>1, Zenon DEF Picks
<1> QED BY <1>2, <1>9 DEF more

(* What the loops gather.                                                   *)
LEMMA GatheredIs ==
    ASSUME NEW T, NEW seq \in Seq(T), NEW places \in SUBSET (DOMAIN seq)
    PROVE  Gathered(seq, places) \in Seq(T) /\ Picks(Gathered(seq, places), seq, places)
<1> DEFINE Step(q, n) == IF n \in places THEN Append(q, seq[n]) ELSE q
           Is(g, m) == g = [n \in 0..m |-> IF n = 0 THEN <<>> ELSE Step(g[n - 1], n)]
           gathered == CHOOSE g : Is(g, Len(seq))
           Upto(n) == {i \in places : i <= n}
<1>1. \E g : Is(g, Len(seq))
  <2> DEFINE Defined == {m \in Nat : \E g : Is(g, m)}
  <2>1. 0 \in Defined
    <3>1. Is([n \in 0..0 |-> <<>>], 0)
      OBVIOUS
    <3> QED BY <3>1
  <2>2. ASSUME NEW m \in Nat, m \in Defined PROVE m + 1 \in Defined
    <3>1. PICK g : Is(g, m)
      BY <2>2
    <3> DEFINE h == [n \in 0..m + 1 |-> IF n <= m THEN g[n] ELSE Step(g[m], n)]
    <3>2. \A n \in 0..m : h[n] = g[n]
      OBVIOUS
    <3>3. h[m + 1] = Step(g[m], m + 1)
      OBVIOUS
    <3>4. \A n \in 0..m : g[n] = IF n = 0 THEN <<>> ELSE Step(g[n - 1], n)
      BY <3>1
    <3> HIDE DEF Step
    <3>5. ASSUME NEW n \in 0..m + 1 PROVE h[n] = IF n = 0 THEN <<>> ELSE Step(h[n - 1], n)
      <4>1. CASE n = m + 1
        <5>1. n # 0 /\ n - 1 = m /\ h[n - 1] = g[m]
          BY <3>2, <4>1
        <5> QED BY <3>3, <4>1, <5>1
      <4>2. CASE n \in 0..m
        <5>1. n # 0 => h[n - 1] = g[n - 1]
          BY <3>2, <4>2
        <5> QED BY <3>2, <3>4, <4>2, <5>1
      <4> QED BY <4>1, <4>2
    <3>6. Is(h, m + 1)
      BY <3>5
    <3> HIDE DEF Is, h
    <3> QED BY <3>6
  <2> HIDE DEF Defined
  <2>3. Len(seq) \in Defined
    BY <2>1, <2>2, NaturalsByInduction
  <2> QED BY <2>3 DEF Defined
<1>2. Is(gathered, Len(seq))
  BY <1>1
<1>3. Gathered(seq, places) = gathered[Len(seq)]
  BY DEF Gathered
<1> HIDE DEF gathered
<1> DEFINE Holds(n) == gathered[n] \in Seq(T) /\ Picks(gathered[n], seq, Upto(n))
           Good == {n \in Nat : n <= Len(seq) => Holds(n)}
<1>4. 0 \in Good
  <2>1. gathered[0] = <<>>
    BY <1>2
  <2>2. Upto(0) = {} /\ <<>> \in Seq(T) /\ Len(<<>>) = 0
    OBVIOUS
  <2>3. Picks(<<>>, seq, {})
    <3>1. <<>> \in [1..0 -> {}]
      OBVIOUS
    <3> QED BY <3>1 DEF Picks
  <2> HIDE DEF Upto
  <2> QED BY <2>1, <2>2, <2>3
<1>5. ASSUME NEW n \in Nat, n \in Good PROVE n + 1 \in Good
  <2> SUFFICES ASSUME n + 1 <= Len(seq) PROVE Holds(n + 1)
    OBVIOUS
  <2>1. Holds(n) /\ n + 1 \in DOMAIN seq
    BY <1>5
  <2>2. gathered[n + 1] = Step(gathered[n], n + 1)
    <3> DEFINE k == n + 1
    <3>1. k \in 0..Len(seq) /\ k # 0 /\ k - 1 = n
      BY <2>1
    <3> HIDE DEF k
    <3>2. gathered[k] = Step(gathered[k - 1], k)
      BY <1>2, <3>1
    <3> QED BY <3>1, <3>2 DEF k
  <2>3. n + 1 \notin Upto(n)
    OBVIOUS
  <2>4. CASE n + 1 \in places
    <3>1. Upto(n + 1) = Upto(n) \cup {n + 1}
      BY <2>4
    <3>2. gathered[n + 1] = Append(gathered[n], seq[n + 1])
      BY <2>2, <2>4
    <3> HIDE DEF Upto, Good
    <3> QED BY <2>1, <2>3, <3>1, <3>2, PicksOneMore
  <2>5. CASE n + 1 \notin places
    <3>1. Upto(n + 1) = Upto(n)
      BY <2>5
    <3>2. gathered[n + 1] = gathered[n]
      BY <2>2, <2>5
    <3> HIDE DEF Upto, Good
    <3> QED BY <2>1, <3>1, <3>2
  <2> QED BY <2>4, <2>5
<1> HIDE DEF Good
<1>6. Len(seq) \in Good
  BY <1>4, <1>5, NaturalsByInduction
<1>7. Holds(Len(seq))
  BY <1>6 DEF Good
<1>8. Upto(Len(seq)) = places
  OBVIOUS
<1> QED BY <1>3, <1>7, <1>8

\* The test is which of the chosen are in the set, and these places are left.
Narrows(T, seq, places, chosen, set, test, left) ==
    /\ seq \in Seq(T) /\ places \subseteq DOMAIN seq
    /\ chosen \in Seq(T) /\ Picks(chosen, seq, places)
    /\ \A j : j \in test <=> j \in DOMAIN chosen /\ chosen[j] \in set
    /\ \A i : i \in left <=> i \in places /\ seq[i] \in set

(* What is gathered of what was gathered.                                   *)
LEMMA GatheredTwice ==
    ASSUME NEW T, NEW seq, NEW places, NEW chosen, NEW set, NEW test, NEW left,
           Narrows(T, seq, places, chosen, set, test, left)
    PROVE  Gathered(chosen, test) \in Seq(T) /\ Picks(Gathered(chosen, test), seq, left)
<1> USE DEF Narrows
<1> DEFINE again == Gathered(chosen, test)
<1>1. again \in Seq(T) /\ Picks(again, chosen, test)
  <2>1. test \in SUBSET (DOMAIN chosen)
    OBVIOUS
  <2> QED BY <2>1, GatheredIs
<1> HIDE DEF again
<1>2. PICK f \in [1..Len(chosen) -> places] :
        /\ \A j \in 1..Len(chosen) : chosen[j] = seq[f[j]]
        /\ \A j, k \in 1..Len(chosen) : f[j] = f[k] => j = k
        /\ \A i \in places : \E j \in 1..Len(chosen) : f[j] = i
  BY DEF Picks
<1>3. PICK g \in [1..Len(again) -> test] :
        /\ \A j \in 1..Len(again) : again[j] = chosen[g[j]]
        /\ \A j, k \in 1..Len(again) : g[j] = g[k] => j = k
        /\ \A i \in test : \E j \in 1..Len(again) : g[j] = i
  BY <1>1 DEF Picks
<1> DEFINE h == [j \in 1..Len(again) |-> f[g[j]]]
<1>4. \A j : j \in test <=> j \in 1..Len(chosen) /\ chosen[j] \in set
  OBVIOUS
<1>5. \A j \in 1..Len(again) : g[j] \in 1..Len(chosen) /\ f[g[j]] \in left
  BY <1>2, <1>3, <1>4
<1>6. h \in [1..Len(again) -> left]
  BY <1>5
<1>7. \A j \in 1..Len(again) : again[j] = seq[h[j]]
  BY <1>2, <1>3, <1>5
<1>8. \A j, k \in 1..Len(again) : h[j] = h[k] => j = k
  BY <1>2, <1>3, <1>5
<1>9. ASSUME NEW i \in left PROVE \E j \in 1..Len(again) : h[j] = i
  <2>1. PICK k \in 1..Len(chosen) : f[k] = i
    BY <1>2
  <2>2. k \in test
    BY <1>2, <1>4, <2>1
  <2> QED BY <1>3, <2>1, <2>2
<1> HIDE DEF h
<1> QED BY <1>1, <1>6, <1>7, <1>8, <1>9 DEF Picks, again

\* An answer of selectPhysicalDevice() when these places of the span are left.
Decides(answer, seq, places) ==
    /\ (answer.kind = "no_match") <=> (places = {})
    /\ (answer.kind = "ambiguous_match") <=> (Cardinality(places) > 1)
    /\ (answer.kind = "selected") <=>
            \E i \in places : places = {i} /\ answer.device = seq[i].device
    /\ answer.kind # "invalid_requirements"

(* The candidates of a vector are as many as the places they come from.     *)
LEMMA SoleDecides ==
    ASSUME NEW T, NEW seq \in Seq(T), NEW places \in SUBSET (DOMAIN seq),
           NEW chosen \in Seq(T), Picks(chosen, seq, places), NEW reason
    PROVE  Decides(Sole(chosen, reason), seq, places)
<1> DEFINE n == Len(chosen)
<1>1. PICK f \in [1..n -> places] :
        /\ \A j \in 1..n : chosen[j] = seq[f[j]]
        /\ \A j, k \in 1..n : f[j] = f[k] => j = k
        /\ \A i \in places : \E j \in 1..n : f[j] = i
  BY DEF Picks
<1>2. n \in Nat /\ (chosen = <<>> <=> n = 0)
  OBVIOUS
<1>3. IsFiniteSet(places) /\ Cardinality(places) = n
  <2> HIDE DEF n
  <2>1. IsFiniteSet(1..n) /\ Cardinality(1..n) = n
    BY <1>2, FS_Interval
  <2>2. f \in Injection(1..n, places) /\ f \in Surjection(1..n, places)
    BY <1>1 DEF Injection, Surjection, IsInjective, Range
  <2> QED BY <2>1, <2>2, FS_Surjection
<1>4. CASE n = 0
  <2>1. places = {}
    BY <1>1, <1>4
  <2>2. Sole(chosen, reason) = Refused("no_match")
    BY <1>2, <1>4 DEF Sole
  <2> HIDE DEF n
  <2> QED BY <1>3, <1>4, <2>1, <2>2 DEF Decides, Refused
<1>5. CASE n = 1
  <2>1. f[1] \in places /\ chosen[1] = seq[f[1]] /\ places = {f[1]}
    BY <1>1, <1>5
  <2>2. Sole(chosen, reason) = Selected(seq[f[1]], reason)
    BY <1>2, <1>5, <2>1 DEF Sole
  <2> HIDE DEF n
  <2> QED BY <1>3, <1>5, <2>1, <2>2 DEF Decides, Selected
<1>6. CASE n > 1
  <2>1. places # {} /\ \A i : places # {i}
    BY <1>1, <1>6
  <2>2. Sole(chosen, reason) = Refused("ambiguous_match")
    <3>1. n # 0 /\ n # 1
      <4> HIDE DEF n
      <4> QED BY <1>2, <1>6
    <3>2. chosen # <<>> /\ Len(chosen) # 1
      BY <1>2, <3>1
    <3> QED BY <3>2 DEF Sole
  <2> HIDE DEF n
  <2>3. Cardinality(places) > 1
    BY <1>3, <1>6
  <2>4. ~ \E i \in places : places = {i} /\ Sole(chosen, reason).device = seq[i].device
    BY <2>1, Zenon
  <2>5. Sole(chosen, reason).kind = "ambiguous_match"
    BY <2>2 DEF Refused
  <2> QED BY <2>1, <2>3, <2>4, <2>5 DEF Decides
<1> HIDE DEF n
<1> QED BY <1>2, <1>4, <1>5, <1>6

Families == [flags : SUBSET STRING, count : Nat]
Natives == [api : {10, 11, 12, 13}, uuid : Uuids, type : STRING, extensions : SUBSET STRING,
            families : Seq(Families)]

(* An element of a sequence.                                                *)
LEMMA ElementOf ==
    ASSUME NEW T, NEW s \in Seq(T), NEW k \in DOMAIN s
    PROVE  s[k] \in T
OBVIOUS

\* What a candidate can be.
Observable == {Snapshot(plan, k, machine[k]) : k \in DOMAIN machine}

\* What was asked last was answered from the inventory as it is.
Answered ==
    \/ /\ asked.kind = "span" /\ asked.span \in Seq(DOMAIN inventory) /\ asked.policy \in Policies
       /\ result = Select(CandidatesOf(asked.span), asked.requirements, asked.policy)
    \/ /\ asked.kind = "chosen" /\ asked.policy = NoPolicy
       /\ \E k \in DOMAIN inventory :
            asked.span = <<k>> /\ result = SelectOne(inventory[k], asked.requirements)

\* The inventory is of the first devices, and each was asked what could be asked.
SelectionInv ==
    /\ machine \in Machines
    /\ inventory \in Seq(Observable) /\ Len(inventory) <= Len(machine)
    /\ \A k \in DOMAIN inventory :
        inventory[k] = Snapshot(plan, k, machine[k]) /\ Chains(plan, k, machine[k]) \subseteq chained
    /\ chained \subseteq UNION {Chains(plan, k, machine[k]) : k \in DOMAIN machine}
    /\ phase = "answered" => asked.requirements \in Requirements /\ Answered

(* A snapshot has the UUID exactly when it was queried, and the rest always.*)
LEMMA SnapshotsTell ==
    ASSUME SelectionInv, NEW k \in DOMAIN inventory
    PROVE  /\ k \in DOMAIN machine /\ inventory[k].device = k
           /\ \A u : MatchesAvailableUuid(inventory[k], u) <=> Identified(k, u)
           /\ \A r \in Requirements : Matches(inventory[k], r) <=> Meets(k, r)
<1> DEFINE c == inventory[k]
           available == "id" \in Availability(plan, machine[k])
<1>1. k \in DOMAIN machine
  <2>1. machine \in Seq(Natives)
    BY SelectionAssumption DEF SelectionInv, Natives, Families
  <2>2. Len(inventory) \in Nat /\ Len(machine) \in Nat /\ Len(inventory) <= Len(machine)
    BY <2>1 DEF SelectionInv
  <2>3. DOMAIN inventory = 1..Len(inventory) /\ DOMAIN machine = 1..Len(machine)
    BY <2>1 DEF SelectionInv
  <2> QED BY <2>2, <2>3
<1>2. c = Snapshot(plan, k, machine[k])
  BY DEF SelectionInv
<1>3. /\ c.device = k /\ c.api = machine[k].api /\ c.type = machine[k].type
      /\ c.extensions = machine[k].extensions /\ c.families = machine[k].families
      /\ c.id_properties_available = available
      /\ c.device_uuid = IF available THEN machine[k].uuid ELSE ZeroUuid
  BY <1>2 DEF Snapshot
<1>4. <<k, "id">> \in chained <=> available
  <2>1. ASSUME available PROVE <<k, "id">> \in chained
    <3>1. <<k, "id">> \in Chains(plan, k, machine[k])
      BY <2>1 DEF Chains
    <3> QED BY <3>1 DEF SelectionInv
  <2>2. ASSUME <<k, "id">> \in chained PROVE available
    <3>1. PICK j \in DOMAIN machine : <<k, "id">> \in Chains(plan, j, machine[j])
      BY <2>2 DEF SelectionInv
    <3>2. j = k /\ "id" \in Availability(plan, machine[j])
      BY <3>1 DEF Chains
    <3> QED BY <3>2
  <2> HIDE DEF available
  <2> QED BY <2>1, <2>2
<1> HIDE DEF c, available
<1>5. \A u : MatchesAvailableUuid(c, u) <=> Identified(k, u)
  BY <1>3, <1>4 DEF MatchesAvailableUuid, Identified
<1>6. ASSUME NEW r \in Requirements PROVE Matches(c, r) <=> Meets(k, r)
  <2> DEFINE D == Decisions(c, r)
             Api(v) == [kind |-> "api_version", required |-> TRUE, supported |-> c.api >= v]
             Uuid(u) == [kind |-> "uuid", required |-> TRUE, supported |-> MatchesAvailableUuid(c, u)]
             Type(t) == [kind |-> "type", required |-> TRUE, supported |-> c.type = t]
             Extension(e) == [kind |-> "extension", required |-> e \in r.required_extensions,
                              supported |-> e \in c.extensions]
             Needs(q) == [kind |-> "queue", required |-> TRUE, supported |-> HasQueue(c, q)]
             Likes(q) == [kind |-> "queue", required |-> FALSE, supported |-> HasQueue(c, q)]
  <2>1. D = {Api(v) : v \in r.minimum_api_version} \cup {Uuid(u) : u \in r.required_device_uuid}
            \cup {Type(t) : t \in r.required_device_type}
            \cup {Extension(e) : e \in r.required_extensions \cup r.optional_extensions}
            \cup {Needs(q) : q \in r.required_queues} \cup {Likes(q) : q \in r.optional_queues}
    BY DEF Decisions
  <2>2. \A q \in r.required_queues : HasQueue(c, q) <=>
            \E f \in DOMAIN machine[k].families :
                /\ q.flags \subseteq machine[k].families[f].flags
                /\ q.count <= machine[k].families[f].count
    <3>1. \A q \in r.required_queues : q.count \in Nat
      BY SelectionAssumption
    <3>2. \A f \in DOMAIN machine[k].families : machine[k].families[f].count \in Nat
      <4>1. machine[k] \in Natives
        <5>1. machine \in Seq(Natives)
          BY SelectionAssumption DEF SelectionInv, Natives, Families
        <5> QED BY <1>1, <5>1, ElementOf
      <4>2. machine[k].families \in Seq(Families)
        BY <4>1 DEF Natives
      <4>3. \A f \in DOMAIN machine[k].families : machine[k].families[f] \in Families
        BY <4>2, ElementOf
      <4> QED BY <4>3 DEF Families
    <3> QED BY <1>3, <3>1, <3>2 DEF HasQueue, QueueSatisfies
  <2> DEFINE All == /\ \A v \in r.minimum_api_version : c.api >= v
                    /\ \A u \in r.required_device_uuid : MatchesAvailableUuid(c, u)
                    /\ \A t \in r.required_device_type : c.type = t
                    /\ \A e \in r.required_extensions : e \in c.extensions
                    /\ \A q \in r.required_queues : HasQueue(c, q)
  <2>3. ASSUME All PROVE \A d \in D : d.required => d.supported
    <3> SUFFICES ASSUME NEW d \in D, d.required PROVE d.supported
      OBVIOUS
    <3>1. CASE \E v \in r.minimum_api_version : d = Api(v)
      <4>1. PICK v \in r.minimum_api_version : d = Api(v)
        BY <3>1
      <4>2. c.api >= v
        BY <2>3
      <4>3. d.supported = (c.api >= v)
        BY <4>1
      <4> QED BY <4>2, <4>3
    <3>2. CASE \E u \in r.required_device_uuid : d = Uuid(u)
      <4>1. PICK u \in r.required_device_uuid : d = Uuid(u)
        BY <3>2
      <4>2. MatchesAvailableUuid(c, u)
        BY <2>3
      <4>3. d.supported = (MatchesAvailableUuid(c, u))
        BY <4>1
      <4> QED BY <4>2, <4>3
    <3>3. CASE \E t \in r.required_device_type : d = Type(t)
      <4>1. PICK t \in r.required_device_type : d = Type(t)
        BY <3>3
      <4>2. c.type = t
        BY <2>3
      <4>3. d.supported = (c.type = t)
        BY <4>1
      <4> QED BY <4>2, <4>3
    <3>4. CASE \E e \in r.required_extensions \cup r.optional_extensions : d = Extension(e)
      <4>1. PICK e \in r.required_extensions \cup r.optional_extensions : d = Extension(e)
        BY <3>4
      <4>2. d.required = (e \in r.required_extensions) /\ d.supported = (e \in c.extensions)
        BY <4>1
      <4>3. e \in r.required_extensions => e \in c.extensions
        BY <2>3
      <4> QED BY <4>2, <4>3
    <3>5. CASE \E q \in r.required_queues : d = Needs(q)
      <4>1. PICK q \in r.required_queues : d = Needs(q)
        BY <3>5
      <4>2. HasQueue(c, q)
        BY <2>3
      <4>3. d.supported = (HasQueue(c, q))
        BY <4>1
      <4> QED BY <4>2, <4>3
    <3>6. CASE \E q \in r.optional_queues : d = Likes(q)
      BY <3>6
    <3> HIDE DEF D, Api, Uuid, Type, Extension, Needs, Likes
    <3> QED BY <2>1, <3>1, <3>2, <3>3, <3>4, <3>5, <3>6
  <2>4. ASSUME \A d \in D : d.required => d.supported PROVE All
    <3>1. ASSUME NEW v \in r.minimum_api_version PROVE c.api >= v
      <4>1. Api(v) \in D
        BY <2>1
      <4>2. Api(v).required => Api(v).supported
        BY <2>4, <4>1, Zenon
      <4> QED BY <4>2
    <3>2. ASSUME NEW u \in r.required_device_uuid PROVE MatchesAvailableUuid(c, u)
      <4>1. Uuid(u) \in D
        BY <2>1
      <4>2. Uuid(u).required => Uuid(u).supported
        BY <2>4, <4>1, Zenon
      <4> QED BY <4>2
    <3>3. ASSUME NEW t \in r.required_device_type PROVE c.type = t
      <4>1. Type(t) \in D
        BY <2>1
      <4>2. Type(t).required => Type(t).supported
        BY <2>4, <4>1, Zenon
      <4> QED BY <4>2
    <3>4. ASSUME NEW e \in r.required_extensions PROVE e \in c.extensions
      <4>1. Extension(e) \in D
        BY <2>1
      <4>2. Extension(e).required => Extension(e).supported
        BY <2>4, <4>1, Zenon
      <4> QED BY <4>2
    <3>5. ASSUME NEW q \in r.required_queues PROVE HasQueue(c, q)
      <4>1. Needs(q) \in D
        BY <2>1
      <4>2. Needs(q).required => Needs(q).supported
        BY <2>4, <4>1, Zenon
      <4> QED BY <4>2
    <3> HIDE DEF D
    <3> QED BY <3>1, <3>2, <3>3, <3>4, <3>5
  <2>5. All <=> Meets(k, r)
    <3>1. r.required_device_type \subseteq {machine[k].type}
            <=> \A t \in r.required_device_type : c.type = t
      BY <1>3
    <3> QED BY <1>3, <1>5, <2>2, <3>1 DEF Meets
  <2> HIDE DEF All
  <2> QED BY <2>3, <2>4, <2>5 DEF Matches
<1> QED BY <1>1, <1>3, <1>5, <1>6 DEF c

-----------------------------------------------------------------------------
\* The places of the span that the requirements leave, and a UUID of these.
Fits(span, r) == {i \in DOMAIN span : Meets(span[i], r)}
Named(span, r, u) == {i \in Fits(span, r) : Identified(span[i], u)}

(* The vectors of selectPhysicalDevice() hold what the properties speak of. *)
LEMMA MatchesArePlaces ==
    ASSUME SelectionInv, NEW span \in Seq(DOMAIN inventory), NEW r \in Requirements,
           NEW c, c = CandidatesOf(span),
           NEW matches, matches = Gathered(c, {k \in DOMAIN c : Matches(c[k], r)})
    PROVE  /\ c \in Seq(Observable) /\ DOMAIN c = DOMAIN span
           /\ \A i \in DOMAIN span : c[i] = inventory[span[i]] /\ c[i].device = span[i]
           /\ matches \in Seq(Observable) /\ Picks(matches, c, Fits(span, r))
           /\ \A u : /\ WithUuid(matches, u) \in Seq(Observable)
                     /\ Picks(WithUuid(matches, u), c, Named(span, r, u))
<1>1. /\ DOMAIN c = DOMAIN span
      /\ \A i \in DOMAIN span : span[i] \in DOMAIN inventory /\ c[i] = inventory[span[i]]
  BY DEF CandidatesOf
<1>2. c \in Seq(Observable)
  <2>1. inventory \in Seq(Observable)
    BY DEF SelectionInv
  <2>2. \A k \in DOMAIN inventory : inventory[k] \in Observable
    BY <2>1
  <2> HIDE DEF Observable
  <2>3. c \in [1..Len(span) -> Observable]
    BY <1>1, <2>2 DEF CandidatesOf
  <2> QED BY <2>3
<1>3. \A i \in DOMAIN span : c[i].device = span[i]
  BY <1>1, SnapshotsTell
<1>4. {k \in DOMAIN c : Matches(c[k], r)} = Fits(span, r)
  BY <1>1, SnapshotsTell DEF Fits
<1>5. matches \in Seq(Observable) /\ Picks(matches, c, Fits(span, r))
  <2>1. Fits(span, r) \in SUBSET (DOMAIN c)
    BY <1>1 DEF Fits
  <2> HIDE DEF Observable
  <2> QED BY <1>2, <1>4, <2>1, GatheredIs
<1>6. ASSUME NEW u PROVE /\ WithUuid(matches, u) \in Seq(Observable)
                         /\ Picks(WithUuid(matches, u), c, Named(span, r, u))
  <2> DEFINE set == {s \in Observable : MatchesAvailableUuid(s, u)}
             test == {k \in DOMAIN matches : matches[k] \in set}
  <2>1. WithUuid(matches, u) = Gathered(matches, test)
    <3>1. \A k \in DOMAIN matches : matches[k] \in Observable
      BY <1>5
    <3>2. test = {k \in DOMAIN matches : MatchesAvailableUuid(matches[k], u)}
      BY <3>1
    <3> HIDE DEF test
    <3> QED BY <3>2 DEF WithUuid
  <2>2. \A i : i \in Named(span, r, u) <=> i \in Fits(span, r) /\ c[i] \in set
    <3>1. \A i \in DOMAIN span : c[i] \in Observable
      BY <1>1, <1>2
    <3>2. \A i \in Fits(span, r) : c[i] \in set <=> Identified(span[i], u)
      BY <1>1, <3>1, SnapshotsTell DEF Fits
    <3> HIDE DEF set
    <3> QED BY <3>2 DEF Named
  <2>3. Fits(span, r) \in SUBSET (DOMAIN c)
    BY <1>1 DEF Fits
  <2> HIDE DEF set, Observable
  <2>4. \A j : j \in test <=> j \in DOMAIN matches /\ matches[j] \in set
    OBVIOUS
  <2> HIDE DEF test
  <2>5. /\ Gathered(matches, test) \in Seq(Observable)
        /\ Picks(Gathered(matches, test), c, Named(span, r, u))
    <3>1. Narrows(Observable, c, Fits(span, r), matches, set, test, Named(span, r, u))
      BY <1>2, <1>5, <2>2, <2>3, <2>4 DEF Narrows
    <3> QED BY <3>1, GatheredTwice
  <2> QED BY <2>1, <2>5
<1> QED BY <1>1, <1>2, <1>3, <1>5, <1>6

(* Nothing was gathered exactly if there is no place.                       *)
LEMMA NothingPicked ==
    ASSUME NEW T, NEW chosen \in Seq(T), NEW seq, NEW places, Picks(chosen, seq, places)
    PROVE  chosen = <<>> <=> places = {}
<1>1. PICK f \in [1..Len(chosen) -> places] : \A i \in places : \E j \in 1..Len(chosen) : f[j] = i
  BY DEF Picks
<1>2. Len(chosen) \in Nat /\ (chosen = <<>> <=> Len(chosen) = 0)
  OBVIOUS
<1>3. chosen = <<>> <=> 1..Len(chosen) = {}
  BY <1>2
<1> QED BY <1>1, <1>3


(* The span overload of selectPhysicalDevice().                             *)
LEMMA SpanIsDecided ==
    ASSUME SelectionInv, NEW span \in Seq(DOMAIN inventory), NEW r \in Requirements,
           NEW p \in Policies, asked.kind # "chosen",
           ~InvalidRequirements(r), ~InvalidPolicy(r, p)
    PROVE  Decides(Select(CandidatesOf(span), r, p), CandidatesOf(span), Eligible(span, r, p))
<1> DEFINE c == CandidatesOf(span)
           fits == Fits(span, r)
           matches == Gathered(c, {k \in DOMAIN c : Matches(c[k], r)})
           first == {k \in DOMAIN p.uuid_order :
                        /\ Named(span, r, p.uuid_order[k]) # {}
                        /\ \A j \in 1..k - 1 : Named(span, r, p.uuid_order[j]) = {}}
           answer == Select(c, r, p)
<1>1. /\ c \in Seq(Observable) /\ DOMAIN c = DOMAIN span
      /\ matches \in Seq(Observable) /\ Picks(matches, c, fits)
      /\ \A u : /\ WithUuid(matches, u) \in Seq(Observable)
                /\ Picks(WithUuid(matches, u), c, Named(span, r, u))
  BY MatchesArePlaces
<1>2. fits \in SUBSET (DOMAIN c) /\ \A u : Named(span, r, u) \in SUBSET (DOMAIN c)
  BY <1>1 DEF Fits, Named
<1>3. Eligible(span, r, p) =
        IF p = NoPolicy THEN fits
        ELSE UNION ({Named(span, r, u) : u \in p.explicit_uuid}
                    \cup {Named(span, r, p.uuid_order[k]) : k \in first})
  BY DEF Eligible, Fits, Named
<1>4. answer = IF matches = <<>> THEN Refused("no_match")
               ELSE IF p.explicit_uuid # {}
                 THEN Sole(WithUuid(matches, CHOOSE u \in p.explicit_uuid : TRUE), "explicit_uuid")
               ELSE IF p.uuid_order # <<>> THEN ByOrder(matches, p.uuid_order)
               ELSE Sole(matches, "sole_match")
  BY DEF Select
<1>5. p \in [explicit_uuid : SUBSET Uuids, uuid_order : Seq(Uuids)]
      /\ \A u, v \in p.explicit_uuid : u = v
  BY SelectionAssumption
<1>6. p.explicit_uuid = {} \/ p.uuid_order = <<>>
  BY DEF InvalidPolicy
<1>7. p = NoPolicy <=> p.explicit_uuid = {} /\ p.uuid_order = <<>>
  BY <1>5 DEF NoPolicy
<1> HIDE DEF c, fits, matches, first, answer, Observable
<1>8. CASE matches = <<>>
  <2>1. fits = {}
    BY <1>1, <1>8, NothingPicked
  <2>2. \A u : Named(span, r, u) = {}
    BY <2>1 DEF Named, fits
  <2>3. Eligible(span, r, p) = {}
    BY <1>3, <2>1, <2>2
  <2>4. Cardinality({}) = 0
    BY FS_EmptySet
  <2> QED BY <1>4, <1>8, <2>3, <2>4 DEF Decides, Refused, answer, c
<1>9. CASE matches # <<>> /\ p.explicit_uuid # {}
  <2> DEFINE u == CHOOSE u \in p.explicit_uuid : TRUE
  <2>1. u \in p.explicit_uuid /\ p.explicit_uuid = {u}
    BY <1>5, <1>9
  <2> HIDE DEF u
  <2>2. first = {}
    BY <1>6, <1>9 DEF first
  <2>3. Eligible(span, r, p) = Named(span, r, u)
    BY <1>3, <1>7, <1>9, <2>1, <2>2
  <2>4. answer = Sole(WithUuid(matches, u), "explicit_uuid")
    BY <1>4, <1>9 DEF u
  <2>5. Decides(answer, c, Named(span, r, u))
    BY <1>1, <1>2, <2>4, SoleDecides
  <2> QED BY <2>3, <2>5 DEF answer, c
<1>10. CASE matches # <<>> /\ p.explicit_uuid = {} /\ p.uuid_order # <<>>
  <2> DEFINE order == p.uuid_order
             hits == {k \in DOMAIN order : WithUuid(matches, order[k]) # <<>>}
             least == CHOOSE k \in hits : \A j \in hits : k <= j
  <2>1. order \in Seq(Uuids) /\ Len(order) \in Nat /\ DOMAIN order = 1..Len(order)
    BY <1>5
  <2>2. answer = ByOrder(matches, order)
    BY <1>4, <1>10
  <2>3. Eligible(span, r, p) = UNION {Named(span, r, order[k]) : k \in first}
    BY <1>3, <1>7, <1>10
  <2> HIDE DEF order
  <2>4. hits = {k \in DOMAIN order : Named(span, r, order[k]) # {}}
    <3>1. \A k \in DOMAIN order : WithUuid(matches, order[k]) = <<>> <=> Named(span, r, order[k]) = {}
      BY <1>1, NothingPicked
    <3> QED BY <3>1
  <2>5. first = {k \in hits : \A j \in hits : k <= j}
    <3>1. first = {k \in DOMAIN order : /\ Named(span, r, order[k]) # {}
                                        /\ \A j \in 1..k - 1 : Named(span, r, order[j]) = {}}
      BY DEF first, order
    <3>2. ASSUME NEW k \in hits PROVE k \in first <=> \A j \in hits : k <= j
      <4>1. k \in 1..Len(order)
        BY <2>1, <2>4
      <4>2. k \in first <=> \A j \in 1..k - 1 : j \notin hits
        <5>1. \A j \in 1..k - 1 : j \in DOMAIN order
          BY <2>1, <4>1
        <5>2. \A j \in DOMAIN order : j \in hits <=> Named(span, r, order[j]) # {}
          BY <2>4
        <5>3. k \in DOMAIN order
          BY <2>4
        <5> HIDE DEF hits
        <5> QED BY <3>1, <5>1, <5>2, <5>3
      <4>3. \A j \in hits : j \in 1..Len(order)
        BY <2>1, <2>4
      <4> HIDE DEF hits
      <4> QED BY <2>1, <4>1, <4>2, <4>3
    <3>3. first \subseteq hits
      BY <2>4, <3>1
    <3> HIDE DEF hits
    <3> QED BY <3>2, <3>3
  <2>6. CASE hits = {}
    <3>1. Eligible(span, r, p) = {}
      BY <2>3, <2>5, <2>6
    <3>2. answer = Refused("no_match")
      BY <2>2, <2>6 DEF ByOrder
    <3>3. Cardinality({}) = 0
      BY FS_EmptySet
    <3> QED BY <3>1, <3>2, <3>3 DEF Decides, Refused, answer, c
  <2>7. CASE hits # {}
    <3>1. hits \in SUBSET Nat
      BY <2>1
    <3>2. least \in hits /\ \A j \in hits : least <= j
      <4> HIDE DEF hits
      <4>1. \E k \in hits : \A j \in hits : k <= j
        BY <2>7, <3>1, LeastNatural
      <4> QED BY <4>1
    <3>3. answer = Sole(WithUuid(matches, order[least]), "uuid_order")
      BY <2>2, <2>7 DEF ByOrder
    <3> HIDE DEF hits, least
    <3>4. first = {least}
      <4>1. least \in first
        BY <2>5, <3>2
      <4>2. ASSUME NEW k \in first PROVE k = least
        <5>1. k \in Nat /\ least \in Nat /\ k <= least /\ least <= k
          BY <2>5, <3>1, <3>2
        <5> QED BY <5>1
      <4> QED BY <4>1, <4>2
    <3>5. Eligible(span, r, p) = Named(span, r, order[least])
      BY <2>3, <3>4
    <3>6. Decides(answer, c, Named(span, r, order[least]))
      BY <1>1, <1>2, <3>3, SoleDecides
    <3> QED BY <3>5, <3>6 DEF answer, c
  <2> QED BY <2>6, <2>7
<1>11. CASE matches # <<>> /\ p.explicit_uuid = {} /\ p.uuid_order = <<>>
  <2>1. Eligible(span, r, p) = fits
    BY <1>3, <1>7, <1>11
  <2>2. answer = Sole(matches, "sole_match")
    BY <1>4, <1>11
  <2>3. Decides(answer, c, fits)
    BY <1>1, <1>2, <2>2, SoleDecides
  <2> QED BY <2>1, <2>3 DEF answer, c
<1> QED BY <1>8, <1>9, <1>10, <1>11

(* The overload for one candidate, whose span is of that candidate alone.   *)
LEMMA ChosenIsDecided ==
    ASSUME SelectionInv, NEW k \in DOMAIN inventory, NEW r \in Requirements,
           NEW span, span = <<k>>, asked.kind = "chosen", ~InvalidRequirements(r)
    PROVE  Decides(SelectOne(inventory[k], r), CandidatesOf(span), Eligible(span, r, NoPolicy))
<1> DEFINE answer == SelectOne(inventory[k], r)
           places == Eligible(span, r, NoPolicy)
<1>1. inventory[k].device = k /\ (Matches(inventory[k], r) <=> Meets(k, r))
  BY SnapshotsTell
<1>2. DOMAIN span = {1} /\ span[1] = k
  OBVIOUS
<1>3. CandidatesOf(span)[1] = inventory[k]
  BY <1>2 DEF CandidatesOf
<1>4. places = {i \in DOMAIN span : Meets(span[i], r)}
  BY DEF Eligible
<1>5. Cardinality({}) = 0 /\ Cardinality({1}) = 1
  BY FS_EmptySet, FS_Singleton
<1> HIDE DEF places
<1>6. CASE Meets(k, r)
  <2>1. places = {1}
    BY <1>2, <1>4, <1>6
  <2>2. answer = Selected(inventory[k], "explicit_candidate")
    BY <1>1, <1>6 DEF SelectOne
  <2> HIDE DEF answer
  <2>3. answer.kind = "selected" /\ answer.device = CandidatesOf(span)[1].device
    BY <1>3, <2>2 DEF Selected
  <2>4. \E i \in places : places = {i} /\ answer.device = CandidatesOf(span)[i].device
    BY <2>1, <2>3
  <2>5. places # {} /\ ~(Cardinality(places) > 1)
    BY <1>5, <2>1
  <2> QED BY <2>3, <2>4, <2>5 DEF Decides, answer, places
<1>7. CASE ~Meets(k, r)
  <2>1. places = {}
    BY <1>2, <1>4, <1>7
  <2>2. answer = Refused("no_match")
    BY <1>1, <1>7 DEF SelectOne
  <2> HIDE DEF answer
  <2>3. ~(Cardinality(places) > 1)
    BY <1>5, <2>1
  <2> QED BY <2>1, <2>2, <2>3 DEF Decides, Refused, answer, places
<1> QED BY <1>6, <1>7

(* What was answered is determined.                                         *)
LEMMA AnswerIsDetermined == SelectionInv => SelectionIsDetermined
<1> SUFFICES ASSUME SelectionInv, phase = "answered" PROVE SelectionIsDetermined
  BY DEF SelectionIsDetermined
<1> DEFINE r == asked.requirements
           p == asked.policy
           span == asked.span
           c == CandidatesOf(span)
           places == Eligible(span, r, p)
<1>1. r \in Requirements /\ Answered
  BY DEF SelectionInv
<1>2. CASE /\ asked.kind = "span" /\ span \in Seq(DOMAIN inventory) /\ p \in Policies
           /\ result = Select(c, r, p)
  <2>1. CASE InvalidRequirements(r) \/ InvalidPolicy(r, p)
    BY <1>2, <2>1 DEF Select, Refused, SelectionIsDetermined
  <2>2. CASE ~InvalidRequirements(r) /\ ~InvalidPolicy(r, p)
    <3>1. Decides(result, c, places)
      BY <1>1, <1>2, <2>2, SpanIsDecided
    <3>2. places \subseteq DOMAIN span
      <4>1. places \subseteq {i \in DOMAIN span : Meets(span[i], r)}
        BY DEF Eligible
      <4> QED BY <4>1
    <3>3. \A i \in places : c[i].device = span[i]
      <4>1. \A i \in DOMAIN span : span[i] \in DOMAIN inventory
        BY <1>2, ElementOf
      <4>2. \A i \in DOMAIN span : c[i] = inventory[span[i]]
        BY DEF CandidatesOf
      <4> QED BY <3>2, <4>1, <4>2, SnapshotsTell
    <3> HIDE DEF places, c, span
    <3> QED BY <2>2, <3>1, <3>3 DEF Decides, SelectionIsDetermined, places, span
  <2> QED BY <2>1, <2>2
<1>3. CASE /\ asked.kind = "chosen" /\ p = NoPolicy
           /\ \E k \in DOMAIN inventory : span = <<k>> /\ result = SelectOne(inventory[k], r)
  <2>1. PICK k \in DOMAIN inventory : span = <<k>> /\ result = SelectOne(inventory[k], r)
    BY <1>3
  <2>2. ~InvalidPolicy(r, p)
    BY <1>3 DEF InvalidPolicy, NoPolicy, IsInjective
  <2>3. CASE InvalidRequirements(r)
    BY <2>1, <2>3 DEF SelectOne, Refused, SelectionIsDetermined
  <2>4. CASE ~InvalidRequirements(r)
    <3>1. Decides(result, c, places)
      BY <1>1, <1>3, <2>1, <2>4, ChosenIsDecided
    <3>2. places \subseteq {1} /\ c[1].device = span[1]
      <4>1. places \subseteq {i \in DOMAIN span : Meets(span[i], r)}
        BY <1>3 DEF Eligible
      <4>2. DOMAIN span = {1} /\ span[1] = k
        BY <2>1
      <4>3. c[1] = inventory[k]
        BY <4>2 DEF CandidatesOf
      <4>4. inventory[k].device = k
        BY SnapshotsTell
      <4> QED BY <4>1, <4>2, <4>3, <4>4
    <3>3. \A i \in places : c[i].device = span[i]
      BY <3>2
    <3> HIDE DEF places, c, span
    <3> QED BY <2>2, <2>4, <3>1, <3>3 DEF Decides, SelectionIsDetermined, places, span
  <2> QED BY <2>3, <2>4
<1> QED BY <1>1, <1>2, <1>3 DEF Answered


(* At first nothing was observed or asked.                                  *)
LEMMA SelectionStarts == SelectionInit => SelectionInv
<1> SUFFICES ASSUME SelectionInit PROVE SelectionInv
  OBVIOUS
<1>1. machine \in Machines /\ inventory = <<>> /\ chained = {} /\ phase = "enumerate"
  BY DEF SelectionInit
<1>2. machine \in Seq(Natives)
  BY <1>1, SelectionAssumption DEF Natives, Families
<1>3. Len(machine) \in Nat
  BY <1>2
<1> QED BY <1>1, <1>3 DEF SelectionInv

(* The loop of queryPhysicalDevices().                                      *)
LEMMA ObserveStep == SelectionInv /\ Observe => SelectionInv'
<1> SUFFICES ASSUME SelectionInv, Observe PROVE SelectionInv'
  OBVIOUS
<1> DEFINE k == Len(inventory) + 1
           more == Append(inventory, Snapshot(plan, k, machine[k]))
<1>1. /\ phase = "observe" /\ k <= Len(machine)
      /\ inventory' = more
      /\ chained' = chained \cup Chains(plan, k, machine[k])
      /\ UNCHANGED <<plan, machine, phase, asked, result>>
  BY DEF Observe
<1>2. machine \in Seq(Natives) /\ inventory \in Seq(Observable)
  BY SelectionAssumption DEF SelectionInv, Natives, Families
<1>3. k \in DOMAIN machine /\ Observable' = Observable
  BY <1>1, <1>2 DEF Observable
<1>4. Snapshot(plan, k, machine[k]) \in Observable
  BY <1>3 DEF Observable
<1> HIDE DEF Observable
<1>5. /\ more \in Seq(Observable) /\ Len(more) = k /\ more[k] = Snapshot(plan, k, machine[k])
      /\ DOMAIN more = DOMAIN inventory \cup {k}
      /\ \A j \in DOMAIN inventory : more[j] = inventory[j]
  BY <1>2, <1>4
<1> HIDE DEF k, more
<1>6. \A j \in DOMAIN more :
        more[j] = Snapshot(plan, j, machine[j]) /\ Chains(plan, j, machine[j]) \subseteq chained'
  BY <1>1, <1>5 DEF SelectionInv
<1>7. chained' \subseteq UNION {Chains(plan, j, machine[j]) : j \in DOMAIN machine}
  BY <1>1, <1>3 DEF SelectionInv
<1> QED BY <1>1, <1>3, <1>5, <1>6, <1>7 DEF SelectionInv

(* A selection asks for something and answers it.                           *)
LEMMA SelectSteps ==
    ASSUME SelectionInv,
           \/ \E span \in Spans, r \in Requirements, p \in Policies : SelectAmong(span, r, p)
           \/ \E k \in DOMAIN inventory, r \in Requirements : SelectChosen(k, r)
    PROVE  SelectionInv'
<1>1. /\ UNCHANGED <<plan, machine, inventory, chained>> /\ phase' = "answered"
      /\ asked'.requirements \in Requirements /\ Answered'
  <2>1. ASSUME NEW span \in Spans, NEW r \in Requirements, NEW p \in Policies, SelectAmong(span, r, p)
        PROVE  /\ UNCHANGED <<plan, machine, inventory, chained>> /\ phase' = "answered"
               /\ asked'.requirements \in Requirements /\ Answered'
    <3>1. /\ UNCHANGED <<plan, machine, inventory, chained>> /\ phase' = "answered"
          /\ asked' = [kind |-> "span", span |-> span, requirements |-> r, policy |-> p]
          /\ result' = Select(CandidatesOf(span), r, p)
      BY <2>1 DEF SelectAmong
    <3>2. span \in Seq(DOMAIN inventory)
      <4>1. PICK n \in 0..MaxSpan : span \in [1..n -> DOMAIN inventory]
        BY DEF Spans
      <4>2. n \in Nat
        BY SelectionAssumption
      <4> QED BY <4>1, <4>2
    <3>3. CandidatesOf(span)' = CandidatesOf(span)
      BY <3>1 DEF CandidatesOf
    <3>4. /\ asked'.kind = "span" /\ asked'.span = span /\ asked'.requirements = r
          /\ asked'.policy = p
      BY <3>1
    <3>5. CandidatesOf(asked.span)' = CandidatesOf(span)
      BY <3>1, <3>4 DEF CandidatesOf
    <3> QED BY <3>1, <3>2, <3>4, <3>5 DEF Answered
  <2>2. ASSUME NEW k \in DOMAIN inventory, NEW r \in Requirements, SelectChosen(k, r)
        PROVE  /\ UNCHANGED <<plan, machine, inventory, chained>> /\ phase' = "answered"
               /\ asked'.requirements \in Requirements /\ Answered'
    BY <2>2 DEF SelectChosen, Answered
  <2> QED BY <2>1, <2>2
<1> QED BY <1>1 DEF SelectionInv, Observable

(* Every step keeps the inventory what it says.                             *)
LEMMA SelectionKept == SelectionInv /\ [SelectionNext]_selectionVars => SelectionInv'
<1> SUFFICES ASSUME SelectionInv, [SelectionNext]_selectionVars PROVE SelectionInv'
  OBVIOUS
<1>1. ASSUME Enumerate \/ QueryReturns PROVE SelectionInv'
  BY <1>1 DEF Enumerate, QueryReturns, SelectionInv, Observable
<1>2. CASE QueryFails
  <2>1. /\ phase' = "failed" /\ inventory' = <<>>
        /\ UNCHANGED <<plan, machine, chained, asked, result>>
    BY <1>2 DEF QueryFails
  <2>2. machine \in Seq(Natives)
    BY SelectionAssumption DEF SelectionInv, Natives, Families
  <2>3. Len(machine) \in Nat
    BY <2>2
  <2> QED BY <2>1, <2>3 DEF SelectionInv
<1>3. CASE Observe
  BY <1>3, ObserveStep
<1>4. CASE \/ \E span \in Spans, r \in Requirements, p \in Policies : SelectAmong(span, r, p)
           \/ \E k \in DOMAIN inventory, r \in Requirements : SelectChosen(k, r)
  BY <1>4, SelectSteps
<1>5. CASE UNCHANGED selectionVars
  BY <1>5 DEF selectionVars, SelectionInv, Observable, Answered, CandidatesOf
<1> QED BY <1>1, <1>2, <1>3, <1>4, <1>5 DEF SelectionNext

\* A device is selected exactly when it is the only place of the span that the
\* requirements and the policy leave, for any machines, spans of any length,
\* requirements and policies; nothing else about the inventory decides.
THEOREM SelectionAnswersTheCaller == SelectionSpec => []SelectionIsDetermined
<1>1. SelectionInit => SelectionInv
  BY SelectionStarts
<1>2. SelectionInv /\ [SelectionNext]_selectionVars => SelectionInv'
  BY SelectionKept
<1>3. SelectionInv => SelectionIsDetermined
  BY AnswerIsDetermined
<1> QED BY <1>1, <1>2, <1>3, PTL DEF SelectionSpec

=============================================================================
